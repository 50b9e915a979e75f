-------------------------- MODULE AttendanceProofs --------------------------
(***************************************************************************)
(* Theorems about Attendance for every number of request slots, days,      *)
(* taps, corrections and failures.                                         *)
(***************************************************************************)
EXTENDS Attendance, TLAPS, WellFoundedInduction, FiniteSetTheorems, SequenceTheorems

(***************************************************************************)
(* Facts about the logs of WorkLog.                                        *)
(***************************************************************************)

\* A nonempty sequence of numbers has a greatest one: a least set of positions
\* without a greatest would have one once an element is taken out.
LEMMA HasMaximum ==
  ASSUME NEW N \in Nat, N # 0, NEW f \in [1 .. N -> Nat]
  PROVE  \E i \in 1 .. N : \A j \in 1 .. N : f[j] <= f[i]
<1> DEFINE Positions == SUBSET (1 .. N)
           HasMax(T) == \E i \in T : \A j \in T : f[j] <= f[i]
           Bad == {T \in Positions : T # {} /\ ~HasMax(T)}
           Smaller == StrictSubsetOrdering(1 .. N)
<1>1. IsWellFoundedOn(Smaller, Positions)
  <2>1. IsFiniteSet(1 .. N)
    BY FS_Interval
  <2>2. FiniteSubsetsOf(1 .. N) = Positions
    BY <2>1, FS_FiniteSubsetsOfFinite
  <2>3. IsWellFoundedOn(Smaller, FiniteSubsetsOf(1 .. N))
    BY FS_StrictSubsetOrderingWellFounded
  <2>4. QED BY <2>2, <2>3
<1>2. Bad = {}
  <2> SUFFICES ASSUME Bad # {} PROVE FALSE
    OBVIOUS
  <2>1. Bad \subseteq Positions
    OBVIOUS
  <2>2. \E T \in Bad : \A U \in Bad : <<U, T>> \notin Smaller
    <3> HIDE DEF Bad, Smaller, Positions
    <3> QED BY <1>1, <2>1, WFMin
  <2>3. PICK T \in Bad : \A U \in Bad : <<U, T>> \notin Smaller
    BY <2>2
  <2>4. PICK x \in T : TRUE
    OBVIOUS
  <2>5. \A i \in T : f[i] \in Nat
    OBVIOUS
  <2>6. T \ {x} \notin Bad
    BY <2>3, <2>4 DEF StrictSubsetOrdering
  <2>7. CASE T \ {x} = {}
    BY <2>4, <2>5, <2>7
  <2>8. CASE T \ {x} # {}
    <3>1. PICK i \in T \ {x} : \A j \in T \ {x} : f[j] <= f[i]
      BY <2>6, <2>8
    <3>2. f[x] \in Nat /\ f[i] \in Nat
      BY <2>4, <2>5, <3>1
    <3>3. CASE f[x] <= f[i]
      BY <3>1, <3>3
    <3>4. CASE f[i] < f[x]
      <4>1. \A j \in T : f[j] <= f[x]
        <5> SUFFICES ASSUME NEW j \in T PROVE f[j] <= f[x]
          OBVIOUS
        <5>1. CASE j = x
          BY <3>2, <5>1
        <5>2. CASE j # x
          <6>1. f[j] <= f[i] /\ f[j] \in Nat
            BY <2>5, <3>1, <5>2
          <6>2. \A a, b, c \in Nat : a <= b /\ b < c => a <= c
            OBVIOUS
          <6> HIDE DEF Bad, HasMax, Smaller, Positions
          <6>3. QED BY <3>2, <3>4, <6>1, <6>2
        <5>3. QED BY <5>1, <5>2
      <4>2. QED BY <2>4, <4>1
    <3>5. QED BY <3>2, <3>3, <3>4
  <2>9. QED BY <2>7, <2>8
<1>3. (1 .. N) \in Positions /\ 1 \in 1 .. N
  OBVIOUS
<1>4. HasMax(1 .. N)
  BY <1>2, <1>3
<1>5. QED BY <1>4

\* The latest session of a log is one of its sessions.
LEMMA LatestInLog ==
  ASSUME NEW s \in Seq(Session), s # <<>>
  PROVE  /\ Latest(s) \in DOMAIN s
         /\ \A j \in DOMAIN s : s[j].ts <= s[Latest(s)].ts
<1>1. Len(s) \in Nat /\ Len(s) # 0 /\ DOMAIN s = 1 .. Len(s)
  OBVIOUS
<1> DEFINE f == [i \in 1 .. Len(s) |-> s[i].ts]
<1>2. f \in [1 .. Len(s) -> Nat]
  <2>1. \A i \in 1 .. Len(s) : s[i] \in Session
    BY <1>1
  <2>2. QED BY <2>1 DEF Session
<1>3. \E i \in 1 .. Len(s) : \A j \in 1 .. Len(s) : f[j] <= f[i]
  <2> HIDE DEF f
  <2> QED BY <1>1, <1>2, HasMaximum
<1>4. \E i \in DOMAIN s : \A j \in DOMAIN s : s[j].ts <= s[i].ts
  BY <1>1, <1>3
<1>5. QED BY <1>4 DEF Latest

\* StateOf is a state of the day.
LEMMA StateOfType ==
  ASSUME NEW s \in Seq(Session)
  PROVE  StateOf(s) \in DayStates
<1>1. CASE s = <<>>
  BY <1>1 DEF StateOf, DayStates
<1>2. CASE s # <<>>
  <2>1. s[Latest(s)] \in Session
    BY <1>2, LatestInLog
  <2>2. s[Latest(s)].type \in SessionTypes
    BY <2>1 DEF Session
  <2>3. QED BY <1>2, <2>2 DEF StateOf, StateForType, SessionTypes, DayStates
<1>3. QED BY <1>1, <1>2

\* A session later than all others decides the state.
LEMMA StateOfLater ==
  ASSUME NEW s \in Seq(Session), NEW e \in Session,
         \A i \in DOMAIN s : s[i].ts < e.ts
  PROVE  StateOf(Append(s, e)) = StateForType[e.type]
<1> DEFINE t == Append(s, e)
<1>1. /\ t \in Seq(Session) /\ t # <<>>
      /\ DOMAIN t = 1 .. Len(s) + 1
      /\ t[Len(s) + 1] = e
      /\ \A i \in 1 .. Len(s) : t[i] = s[i]
  BY AppendProperties, LenProperties
<1>2. Latest(t) \in DOMAIN t /\ t[Len(s) + 1].ts <= t[Latest(t)].ts
  <2> HIDE DEF t
  <2> QED BY <1>1, LatestInLog
<1>3. e.ts \in Nat /\ \A i \in 1 .. Len(s) : s[i].ts \in Nat
  <2>1. e \in Session /\ \A i \in 1 .. Len(s) : s[i] \in Session
    OBVIOUS
  <2>2. QED BY <2>1 DEF Session
<1>4. Latest(t) = Len(s) + 1
  <2> HIDE DEF t
  <2> QED BY <1>1, <1>2, <1>3
<1>5. QED BY <1>1, <1>4 DEF StateOf

\* Appending leaves the prefixes of a log as they were.
LEMMA PrefixOfAppend ==
  ASSUME NEW s \in Seq(Session), NEW e, NEW k \in 0 .. Len(s)
  PROVE  SubSeq(Append(s, e), 1, k) = SubSeq(s, 1, k)
OBVIOUS

\* The whole log is a prefix of itself.
LEMMA WholePrefix ==
  ASSUME NEW s \in Seq(Session)
  PROVE  SubSeq(s, 1, Len(s)) = s
OBVIOUS
-----------------------------------------------------------------------------
(***************************************************************************)
(* Type correctness.                                                       *)
(***************************************************************************)

\* The initial state has the types.
LEMMA InitType == Init => TypeOK
<1>1. MaxDay + 1 \in 0 .. MaxDay + 1 /\ 0 \in 0 .. MaxDay
  BY BoundsAssumption
<1>2. <<>> \in Seq(Session)
  OBVIOUS
<1>3. QED
  BY <1>1, <1>2, BoundsAssumption
  DEF Init, TypeOK, Days, NoKey, NoExpiry, DayStates, Labels, NoRequest,
      RequestRecord, SessionTypes

\* The session a request inserts is a session.
LEMMA OwnType ==
  ASSUME TypeOK, NEW r \in Requests
  PROVE  Own(r) \in Session
BY DEF TypeOK, Own, RequestRecord, Session

\* Every step keeps the types.
LEMMA NextType == TypeOK /\ [Next]_vars => TypeOK'
<1> SUFFICES ASSUME TypeOK, [Next]_vars PROVE TypeOK'
  OBVIOUS
<1> USE DEF TypeOK, Goto, Finish, work, db, time, budget
<1>1. ASSUME NEW r \in Requests, NEW type \in SessionTypes, Tap(r, type) PROVE TypeOK'
  <2>1. log[today] \in Seq(Session) /\ (today \in rows) \in BOOLEAN
    OBVIOUS
  <2>2. [by |-> "tap", type |-> type, day |-> today, hadRow |-> today \in rows,
         view |-> log[today], ts |-> 0] \in RequestRecord
    BY <2>1 DEF RequestRecord
  <2>3. req' \in [Requests -> RequestRecord]
    BY <1>1, <2>2 DEF Tap
  <2>4. taps' \in 0 .. MaxTaps
    BY <1>1, BoundsAssumption DEF Tap
  <2>5. pc' \in [Requests -> Labels] /\ reply' \in [Requests -> {"none", "ok", "conflict", "error"}]
    BY <1>1 DEF Tap, Labels
  <2>6. QED BY <1>1, <2>3, <2>4, <2>5 DEF Tap
<1>2. ASSUME NEW r \in Requests, NEW d \in Days, NEW type \in SessionTypes,
             NEW ts \in ManualInstants, Manual(r, d, type, ts)
      PROVE  TypeOK'
  <2>1. ts \in Nat
    BY <1>2, BoundsAssumption DEF ManualInstants
  <2>2. <<>> \in Seq(Session)
    OBVIOUS
  <2>3. [by |-> "manual", type |-> type, day |-> d, hadRow |-> TRUE, view |-> <<>>,
         ts |-> ts] \in RequestRecord
    BY <2>1, <2>2 DEF RequestRecord
  <2>4. req' \in [Requests -> RequestRecord]
    BY <1>2, <2>3 DEF Manual
  <2>5. manuals' \in 0 .. MaxManual
    BY <1>2, BoundsAssumption DEF Manual
  <2>6. pc' \in [Requests -> Labels] /\ reply' \in [Requests -> {"none", "ok", "conflict", "error"}]
    BY <1>2 DEF Manual, Labels
  <2>7. QED BY <1>2, <2>4, <2>5, <2>6 DEF Manual
<1>3. ASSUME NEW r \in Requests, Reject(r) PROVE TypeOK'
  BY <1>3 DEF Reject, Labels
<1>4. ASSUME NEW r \in Requests, Accept(r) PROVE TypeOK'
  <2>1. clock + 2 \in Nat
    OBVIOUS
  <2>2. [req[r] EXCEPT !.ts = clock + 2] \in RequestRecord
    BY <2>1 DEF RequestRecord
  <2>3. req' = [req EXCEPT ![r] = [req[r] EXCEPT !.ts = clock + 2]]
    BY <1>4 DEF Accept
  <2>4. req' \in [Requests -> RequestRecord]
    BY <2>2, <2>3
  <2>5. pc' \in [Requests -> Labels]
    BY <1>4 DEF Accept, Labels
  <2>6. QED BY <1>4, <2>1, <2>4, <2>5 DEF Accept
<1>5. ASSUME NEW r \in Requests, InsertRow(r) PROVE TypeOK'
  <2>1. <<Own(r)>> \in Seq(Session)
    BY OwnType
  <2>2. [req[r] EXCEPT !.view = <<Own(r)>>] \in RequestRecord
    BY <2>1 DEF RequestRecord
  <2>3. req' \in [Requests -> RequestRecord]
    BY <1>5, <2>2 DEF InsertRow
  <2>4. pc' \in [Requests -> Labels]
    BY <1>5 DEF InsertRow, Labels
  <2>5. QED BY <1>5, <2>3, <2>4 DEF InsertRow
<1>6. ASSUME NEW r \in Requests, LoseStartRace(r) PROVE TypeOK'
  BY <1>6 DEF LoseStartRace, Labels
<1>7. ASSUME NEW r \in Requests, AppendSession(r) PROVE TypeOK'
  <2>1. req[r].day \in Days
    BY DEF RequestRecord
  <2>2. Append(log[req[r].day], Own(r)) \in Seq(Session)
    BY <2>1, OwnType
  <2> DEFINE view == Append(log[req[r].day], Own(r))
  <2>3. [req[r] EXCEPT !.view = view] \in RequestRecord
    BY <2>2 DEF RequestRecord
  <2>4. req' = [req EXCEPT ![r] = [req[r] EXCEPT !.view = view]]
    BY <1>7 DEF AppendSession
  <2>5. req' \in [Requests -> RequestRecord]
    <3> HIDE DEF view
    <3> QED BY <2>3, <2>4
  <2>6. pc' \in [Requests -> Labels]
    BY <1>7 DEF AppendSession, Labels
  <2>7. QED BY <1>7, <2>5, <2>6 DEF AppendSession
<1>8. ASSUME NEW r \in Requests, UpdateRollup(r) PROVE TypeOK'
  BY <1>8 DEF UpdateRollup, Labels
<1>9. ASSUME NEW r \in Requests, HsetState(r) PROVE TypeOK'
  <2>1. req[r].type \in SessionTypes /\ req[r].day \in Days /\ req[r].view \in Seq(Session)
    BY DEF RequestRecord
  <2>2. StateToCache(r) \in DayStates
    BY <2>1, StateOfType DEF StateToCache, NewState, StateForType, SessionTypes, DayStates
  <2>3. QED BY <1>9, <2>1, <2>2 DEF HsetState, Labels
<1>10. ASSUME NEW r \in Requests, SetExpiry(r) PROVE TypeOK'
  <2>1. today \in 0 .. NoExpiry
    BY BoundsAssumption DEF Days, NoExpiry
  <2>2. QED BY <1>10, <2>1 DEF SetExpiry, Labels
<1>11. ASSUME NEW r \in Requests, Commit(r) PROVE TypeOK'
  <2>1. req[r].day \in Days
    BY DEF RequestRecord
  <2>2. Append(log[req[r].day], Own(r)) \in Seq(Session)
    BY <2>1, OwnType
  <2>3. summary[req[r].day] \/ IsTap(r, "END") \in BOOLEAN
    BY <2>1 DEF IsTap
  <2>4. QED BY <1>11, <2>1, <2>2, <2>3 DEF Commit, Labels
<1>12. ASSUME NEW r \in Requests, Answer(r) PROVE TypeOK'
  BY <1>12 DEF Answer, Labels
<1>13. ASSUME NEW r \in Requests, Fail(r) PROVE TypeOK'
  BY <1>13, BoundsAssumption DEF Fail, Labels
<1> DEFINE KeyType == [state : DayStates, day : Days, ttl : 0 .. NoExpiry]
<1>14. NoKey \in KeyType
  BY BoundsAssumption DEF NoKey, NoExpiry, Days, DayStates
<1>15. CASE Midnight
  BY <1>14, <1>15, BoundsAssumption DEF Midnight, Days
<1>16. CASE Evict
  BY <1>14, <1>16 DEF Evict
<1>17. CASE UNCHANGED vars
  BY <1>17 DEF vars
<1>18. QED
  BY <1>1, <1>2, <1>3, <1>4, <1>5, <1>6, <1>7, <1>8, <1>9, <1>10, <1>11, <1>12,
     <1>13, <1>15, <1>16, <1>17 DEF Next, Step, Receive

\* The rows, sessions, cached state and requests always have their types
\* (the models of app/models/attendance.py and the hash of core/redis.py).
THEOREM TypeCorrect == Spec => []TypeOK
BY InitType, NextType, PTL DEF Spec
-----------------------------------------------------------------------------
(***************************************************************************)
(* IInv is inductive.  Only Commit touches the log, so every other step    *)
(* needs to be looked at only for the request that takes it.               *)
(***************************************************************************)

\* What step changes no row and no session, and of the requests only r.
OnlyRequest(r) ==
  /\ rows' = rows /\ log' = log /\ clock <= clock'
  /\ \A q \in Requests \ {r} : pc'[q] = pc[q] /\ req'[q] = req[q] /\ reply'[q] = reply[q]

\* Request r enters no transaction with a START, or is alone in doing so.
EntersAlone(r) ==
  pc'[r] \in InTransaction /\ IsTap(r, "START")' =>
    \/ pc[r] \in InTransaction /\ IsTap(r, "START") /\ req'[r].day = req[r].day
    \/ req'[r].day \notin rows /\ ~InsertPending(req'[r].day)

AckOK(r) ==
  reply[r] = "ok" => \E i \in DOMAIN log[req[r].day] : log[req[r].day][i] = Own(r)

\* A request's part of IInv only needs its own record, a log and rows that did
\* not change and a clock that did not go back.
LEMMA RequestKept ==
  ASSUME TypeOK, TypeOK', NEW q \in Requests,
         rows' = rows, log' = log, clock <= clock',
         pc'[q] = pc[q], req'[q] = req[q], reply'[q] = reply[q],
         CheckedOK(q), CommittedOK(q), AckOK(q)
  PROVE  CheckedOK(q)' /\ CommittedOK(q)' /\ AckOK(q)'
<1>1. req[q].ts \in Nat /\ clock \in Nat /\ clock' \in Nat
  BY DEF TypeOK, RequestRecord
<1>2. CheckedOK(q)'
  BY <1>1 DEF CheckedOK, IsTap
<1>3. CommittedOK(q)' /\ AckOK(q)'
  BY DEF CommittedOK, AckOK, Own
<1>4. QED BY <1>2, <1>3

\* A step of request r that commits nothing keeps IInv if it keeps r's part.
LEMMA StepOfOne ==
  ASSUME IInv, TypeOK', NEW r \in Requests, OnlyRequest(r), EntersAlone(r),
         CheckedOK(r)', CommittedOK(r)', AckOK(r)'
  PROVE  IInv'
<1>1. StartOpensDay'
  BY DEF IInv, StartOpensDay, OnlyRequest, Taps
<1>2. EveryTapWasLegal'
  BY DEF IInv, EveryTapWasLegal, OnlyRequest, Taps
<1>3. TapsNotLater'
  <2> SUFFICES ASSUME NEW d \in Days, NEW i \in Taps(d) PROVE log[d][i].ts <= clock'
    BY DEF TapsNotLater, OnlyRequest, Taps
  <2>1. log[d] \in Seq(Session) /\ i \in DOMAIN log[d]
    BY DEF IInv, TypeOK, Taps
  <2>2. log[d][i].ts \in Nat
    <3>1. log[d][i] \in Session
      BY <2>1
    <3>2. QED BY <3>1 DEF Session
  <2>3. clock \in Nat /\ clock' \in Nat /\ log[d][i].ts <= clock /\ clock <= clock'
    BY DEF IInv, InFlightOK, TapsNotLater, TypeOK, OnlyRequest
  <2>4. QED BY <2>2, <2>3
<1>4. \A q \in Requests : CheckedOK(q)' /\ CommittedOK(q)' /\ AckOK(q)'
  <2> TAKE q \in Requests
  <2>1. CASE q = r
    BY <2>1
  <2>2. CASE q # r
    <3>1. CheckedOK(q) /\ CommittedOK(q) /\ AckOK(q)
      BY DEF IInv, InFlightOK, AckedIsDurable, AckOK
    <3>2. QED BY <2>2, <3>1, RequestKept DEF OnlyRequest, IInv
  <2>3. QED BY <2>1, <2>2
<1>5. OneInsert'
  <2> DEFINE In(q)  == pc[q] \in InTransaction /\ IsTap(q, "START")
             In1(q) == pc'[q] \in InTransaction /\ IsTap(q, "START")'
  <2>1. \A q \in Requests : In(q) =>
          /\ req[q].day \notin rows
          /\ \A p \in Requests : In(p) /\ req[p].day = req[q].day => p = q
    BY DEF IInv, InFlightOK, OneInsert
  <2>2. \A q \in Requests \ {r} : (In1(q) <=> In(q)) /\ req'[q].day = req[q].day
    BY DEF OnlyRequest, IsTap
  <2>3. In1(r) => \/ In(r) /\ req'[r].day = req[r].day
                  \/ /\ req'[r].day \notin rows
                     /\ \A q \in Requests : In(q) => req[q].day # req'[r].day
    BY DEF EntersAlone, InsertPending, InTransaction
  <2>4. rows' = rows
    BY DEF OnlyRequest
  <2>5. \A q \in Requests : In1(q) =>
          /\ req'[q].day \notin rows'
          /\ \A p \in Requests : In1(p) /\ req'[p].day = req'[q].day => p = q
    <3> HIDE DEF In, In1
    <3> QED BY <2>1, <2>2, <2>3, <2>4
  <2>6. QED BY <2>5 DEF OneInsert, IsTap
<1>6. AckedIsDurable'
  BY <1>4 DEF AckedIsDurable, AckOK
<1>7. QED BY <1>1, <1>2, <1>3, <1>4, <1>5, <1>6 DEF IInv, InFlightOK

\* Commit appends the request's session to a log that may have grown since the
\* request read it, and what others had found in that log is still there.
LEMMA CommitKeepsIInv ==
  ASSUME IInv, TypeOK', NEW r \in Requests, Commit(r)
  PROVE  IInv'
<1> DEFINE d == req[r].day
           n == Len(log[d])
<1>1. /\ d \in Days /\ log \in [Days -> Seq(Session)] /\ log[d] \in Seq(Session)
      /\ n \in Nat /\ DOMAIN log[d] = 1 .. n /\ Own(r) \in Session
  <2>1. TypeOK
    BY DEF IInv
  <2>2. d \in Days /\ log \in [Days -> Seq(Session)]
    BY <2>1 DEF TypeOK, RequestRecord
  <2>3. log[d] \in Seq(Session) /\ Own(r) \in Session
    BY <2>1, <2>2, OwnType
  <2>4. QED BY <2>2, <2>3
<1>2. /\ pc[r] = "commit" /\ rows' = rows \cup {d}
      /\ log' = [log EXCEPT ![d] = Append(log[d], Own(r))]
      /\ pc' = [pc EXCEPT ![r] = "answer"]
      /\ clock' = clock /\ req' = req /\ reply' = reply
  BY DEF Commit, Goto, time, work
<1>3. /\ log'[d] = Append(log[d], Own(r))
      /\ DOMAIN log'[d] = 1 .. n + 1 /\ Len(log'[d]) = n + 1
      /\ log'[d][n + 1] = Own(r)
      /\ \A i \in 1 .. n : log'[d][i] = log[d][i]
  BY <1>1, <1>2, AppendProperties, LenProperties
<1>4. \A e \in Days : e # d => log'[e] = log[e]
  BY <1>1, <1>2
<1>5. \A e \in Days : \A k \in 0 .. Len(log[e]) :
        /\ k \in 0 .. Len(log'[e])
        /\ SubSeq(log'[e], 1, k) = SubSeq(log[e], 1, k)
  <2> TAKE e \in Days
  <2> TAKE k \in 0 .. Len(log[e])
  <2>1. CASE e = d
    <3>1. k \in 0 .. n
      BY <2>1
    <3>2. SubSeq(Append(log[d], Own(r)), 1, k) = SubSeq(log[d], 1, k)
      BY <1>1, <3>1, PrefixOfAppend
    <3>3. k \in 0 .. n + 1
      BY <1>1, <3>1
    <3> QED BY <1>3, <2>1, <3>2, <3>3
  <2>2. CASE e # d
    BY <1>4, <2>2
  <2>3. QED BY <2>1, <2>2
<1>6. \A e \in Days : \A i \in DOMAIN log[e] : i \in DOMAIN log'[e] /\ log'[e][i] = log[e][i]
  <2> TAKE e \in Days
  <2>1. \A i \in 1 .. n : i \in 1 .. n + 1
    BY <1>1
  <2>2. CASE e = d
    BY <1>1, <1>3, <2>1, <2>2
  <2>3. CASE e # d
    BY <1>4, <2>3
  <2>4. QED BY <2>2, <2>3
<1>7. \A e \in Days : e \in rows => log'[e][1] = log[e][1] /\ 1 \in DOMAIN log[e]
  BY <1>6 DEF IInv, StartOpensDay, Taps
<1>8. CheckedOK(r) /\ OneInsert
  BY DEF IInv, InFlightOK
\* A START commits the first session of the day, any other request a later one.
<1>9. IsTap(r, "START") => d \notin rows /\ n = 0
  <2>1. IsTap(r, "START") => d \notin rows
    BY <1>2, <1>8 DEF OneInsert, InTransaction
  <2>2. d \notin rows => log[d] = <<>>
    BY <1>1 DEF IInv, StartOpensDay
  <2>3. QED BY <2>1, <2>2
<1>10. ~IsTap(r, "START") => d \in rows /\ n > 0 /\ rows' = rows
  <2>1. ~IsTap(r, "START") => d \in rows
    BY <1>2, <1>8 DEF CheckedOK, Writing
  <2>2. d \in rows => log[d] # <<>>
    BY <1>1 DEF IInv, StartOpensDay
  <2>3. QED BY <1>1, <1>2, <2>1, <2>2
<1>11. Own(r).by = req[r].by /\ Own(r).type = req[r].type /\ Own(r).ts = req[r].ts
  BY DEF Own
<1>12. StartOpensDay'
  <2> SUFFICES ASSUME NEW e \in Days
               PROVE  /\ e \in rows' <=> log'[e] # <<>>
                      /\ \A i \in Taps(e)' :
                           IF i = 1 THEN log'[e][i].type = "START"
                           ELSE log'[e][i].type # "START" /\ log'[e][1].ts < log'[e][i].ts
                      /\ e \in rows' => 1 \in Taps(e)'
    BY DEF StartOpensDay
  <2>1. CASE e # d
    BY <1>2, <1>4, <2>1 DEF IInv, StartOpensDay, Taps
  <2>2. CASE e = d /\ IsTap(r, "START")
    <3>1. n = 0
      BY <1>9, <2>2
    <3>2. \A i \in Taps(e)' : i = 1
      BY <1>3, <2>2, <3>1 DEF Taps
    <3>3. log'[e][1] = Own(r) /\ 1 \in DOMAIN log'[e]
      BY <1>3, <2>2, <3>1
    <3>4. log'[e] # <<>> /\ e \in rows'
      BY <1>2, <2>2, <3>3
    <3>5. QED BY <1>11, <2>2, <3>2, <3>3, <3>4 DEF IsTap, Taps
  <2>3. CASE e = d /\ ~IsTap(r, "START")
    <3>1. d \in rows /\ n > 0 /\ 1 \in Taps(d)
      BY <1>1, <1>10, <2>3 DEF IInv, StartOpensDay
    <3>2. log'[e][1] = log[d][1] /\ 1 \in Taps(e)'
      BY <1>3, <2>3, <3>1 DEF Taps
    <3>3. log'[e] # <<>> /\ e \in rows'
      BY <1>2, <2>3, <3>2 DEF Taps
    <3>4. ASSUME NEW i \in Taps(e)'
          PROVE  IF i = 1 THEN log'[e][i].type = "START"
                 ELSE log'[e][i].type # "START" /\ log'[e][1].ts < log'[e][i].ts
      <4>1. CASE i = n + 1
        <5>1. log'[e][i] = Own(r) /\ i # 1 /\ req[r].by = "tap" /\ req[r].type # "START"
          BY <1>1, <1>3, <1>11, <2>3, <3>1, <4>1 DEF Taps, IsTap
        <5>2. log[d][1].ts < req[r].ts
          BY <1>2, <1>8, <5>1 DEF CheckedOK, Writing
        <5>3. QED BY <1>11, <3>2, <5>1, <5>2
      <4>2. CASE i # n + 1
        <5>1. i \in Taps(d) /\ log'[e][i] = log[d][i]
          BY <1>1, <1>3, <2>3, <4>2 DEF Taps
        <5>2. QED BY <1>1, <3>2, <5>1 DEF IInv, StartOpensDay
      <4>3. QED BY <4>1, <4>2
    <3>5. QED BY <3>2, <3>3, <3>4
  <2>4. QED BY <2>1, <2>2, <2>3
<1>13. EveryTapWasLegal'
  <2> SUFFICES ASSUME NEW e \in Days, NEW i \in Taps(e)'
               PROVE  \E k \in 0 .. i - 1 :
                        StateOf(SubSeq(log'[e], 1, k)) \in AllowedFrom[log'[e][i].type]
    BY DEF EveryTapWasLegal
  <2>1. CASE e # d \/ i # n + 1
    <3>1. i \in Taps(e) /\ log'[e][i] = log[e][i]
      <4>1. CASE e = d
        <5>1. i \in 1 .. n + 1 /\ i # n + 1
          BY <1>3, <2>1, <4>1 DEF Taps
        <5>2. i \in 1 .. n
          BY <1>1, <5>1
        <5>3. QED BY <1>1, <1>3, <4>1, <5>2 DEF Taps
      <4>2. CASE e # d
        BY <1>4, <4>2 DEF Taps
      <4>3. QED BY <4>1, <4>2
    <3>2. PICK k \in 0 .. i - 1 : StateOf(SubSeq(log[e], 1, k)) \in AllowedFrom[log[e][i].type]
      BY <3>1 DEF IInv, EveryTapWasLegal
    <3>3. k \in 0 .. Len(log[e])
      <4>1. log[e] \in Seq(Session) /\ i \in 1 .. Len(log[e])
        BY <1>1, <3>1 DEF Taps
      <4>2. QED BY <3>2, <4>1
    <3>4. QED BY <1>5, <3>1, <3>2, <3>3
  <2>2. CASE e = d /\ i = n + 1
    <3>1. log'[e][i] = Own(r) /\ req[r].by = "tap"
      BY <1>3, <1>11, <2>2 DEF Taps
    <3>2. CASE req[r].type = "START"
      <4>1. n = 0 /\ 0 \in 0 .. i - 1
        BY <1>9, <2>2, <3>1, <3>2 DEF IsTap
      <4>2. SubSeq(log'[e], 1, 0) = <<>>
        BY <1>3, <2>2
      <4>3. StateOf(<<>>) = "NULL" /\ "NULL" \in AllowedFrom["START"]
        BY DEF StateOf, AllowedFrom
      <4>4. QED BY <1>11, <3>1, <3>2, <4>1, <4>2, <4>3
    <3>3. CASE req[r].type # "START"
      <4>1. PICK k \in 0 .. n : StateOf(SubSeq(log[d], 1, k)) \in AllowedFrom[req[r].type]
        BY <1>2, <1>8, <3>1, <3>3 DEF CheckedOK, Writing
      <4>2. k \in 0 .. i - 1
        BY <1>1, <2>2
      <4>3. QED BY <1>1, <1>5, <1>11, <2>2, <3>1, <4>1, <4>2
    <3>4. QED BY <3>2, <3>3
  <2>3. QED BY <2>1, <2>2
<1>14. TapsNotLater'
  <2> SUFFICES ASSUME NEW e \in Days, NEW i \in Taps(e)' PROVE log'[e][i].ts <= clock
    BY <1>2 DEF TapsNotLater
  <2>1. CASE e # d \/ i # n + 1
    <3>1. i \in Taps(e) /\ log'[e][i] = log[e][i]
      <4>1. CASE e = d
        <5>1. i \in 1 .. n + 1 /\ i # n + 1
          BY <1>3, <2>1, <4>1 DEF Taps
        <5>2. i \in 1 .. n
          BY <1>1, <5>1
        <5>3. QED BY <1>1, <1>3, <4>1, <5>2 DEF Taps
      <4>2. CASE e # d
        BY <1>4, <4>2 DEF Taps
      <4>3. QED BY <4>1, <4>2
    <3>2. QED BY <3>1 DEF IInv, InFlightOK, TapsNotLater
  <2>2. CASE e = d /\ i = n + 1
    <3>1. log'[e][i] = Own(r) /\ req[r].by = "tap"
      BY <1>3, <1>11, <2>2 DEF Taps
    <3>2. QED BY <1>2, <1>8, <1>11, <3>1 DEF CheckedOK, Writing
  <2>3. QED BY <2>1, <2>2
<1>15. OneInsert'
  <2> DEFINE In(q)  == pc[q] \in InTransaction /\ IsTap(q, "START")
             In1(q) == pc'[q] \in InTransaction /\ IsTap(q, "START")'
  <2>1. \A q \in Requests : In(q) =>
          /\ req[q].day \notin rows
          /\ \A p \in Requests : In(p) /\ req[p].day = req[q].day => p = q
    BY <1>8 DEF OneInsert
  <2>2. \A q \in Requests : In1(q) => In(q) /\ q # r
    BY <1>2 DEF InTransaction, IsTap, IInv, TypeOK
  <2>3. IsTap(r, "START") => In(r)
    BY <1>2 DEF InTransaction
  <2>4. \A q \in Requests : In1(q) => req[q].day \notin rows'
    <3> HIDE DEF In, In1
    <3> QED BY <1>2, <1>10, <2>1, <2>2, <2>3
  <2>5. \A q \in Requests : In1(q) =>
          /\ req[q].day \notin rows'
          /\ \A p \in Requests : In1(p) /\ req[p].day = req[q].day => p = q
    <3> HIDE DEF In, In1
    <3> QED BY <2>1, <2>2, <2>4
  <2>6. QED BY <1>2, <2>5 DEF OneInsert, IsTap
<1>16. ASSUME NEW q \in Requests PROVE CheckedOK(q)' /\ CommittedOK(q)' /\ AckOK(q)'
  <2> DEFINE e == req[q].day
  <2>1. /\ CheckedOK(q) /\ CommittedOK(q) /\ AckOK(q) /\ e \in Days
        /\ log[e] \in Seq(Session) /\ req[q].ts \in Nat /\ clock \in Nat
        /\ Own(q)' = Own(q) /\ IsTap(q, "START")' = IsTap(q, "START")
        /\ IsTap(q, "END")' = IsTap(q, "END")
    BY <1>1, <1>2 DEF IInv, InFlightOK, AckedIsDurable, AckOK, TypeOK, RequestRecord, Own, IsTap
  <2>2. AckOK(q)'
    BY <1>2, <1>6, <2>1 DEF AckOK
  <2>3. CommittedOK(q)'
    <3>1. CASE q = r
      BY <1>2, <1>3, <2>1, <3>1 DEF CommittedOK
    <3>2. CASE q # r
      BY <1>2, <1>6, <2>1, <3>2 DEF CommittedOK
    <3>3. QED BY <3>1, <3>2
  <2>4. CheckedOK(q)'
    <3>1. CASE q = r
      BY <1>2, <3>1 DEF CheckedOK, Writing, IInv, TypeOK
    <3>2. CASE q # r
      <4>1. pc'[q] = pc[q] /\ (e \in rows => e \in rows')
        BY <1>2, <3>2
      <4> DEFINE NotStart == pc[q] \in Writing /\ req[q].by = "tap" /\ req[q].type # "START"
      <4>2. NotStart => /\ e \in rows /\ log[e][1].ts < req[q].ts
                        /\ \E k \in 0 .. Len(log[e]) :
                             StateOf(SubSeq(log[e], 1, k)) \in AllowedFrom[req[q].type]
        BY <2>1 DEF CheckedOK, IsTap
      <4>3. NotStart => /\ log'[e][1].ts < req[q].ts
                        /\ \E k \in 0 .. Len(log'[e]) :
                             StateOf(SubSeq(log'[e], 1, k)) \in AllowedFrom[req[q].type]
        BY <1>5, <1>7, <2>1, <4>2
      <4>4. (\E k \in 0 .. Len(log[e]) : req[q].view = SubSeq(log[e], 1, k))
              => \E k \in 0 .. Len(log'[e]) : req[q].view = SubSeq(log'[e], 1, k)
        BY <1>5, <2>1
      <4>5. QED BY <1>2, <2>1, <3>2, <4>1, <4>3, <4>4 DEF CheckedOK
    <3>3. QED BY <3>1, <3>2
  <2>5. QED BY <2>2, <2>3, <2>4
<1>17. AckedIsDurable'
  BY <1>16 DEF AckedIsDurable, AckOK
<1>18. QED BY <1>12, <1>13, <1>14, <1>15, <1>16, <1>17 DEF IInv, InFlightOK

\* Initially no request is at work and no day has a row.
LEMMA InitIInv == Init => IInv
<1> SUFFICES ASSUME Init PROVE IInv
  OBVIOUS
<1>1. TypeOK
  BY InitType
<1>2. \A d \in Days : log[d] = <<>> /\ Taps(d) = {}
  BY DEF Init, Taps
<1>3. \A r \in Requests : pc[r] = "idle" /\ reply[r] = "none"
  BY DEF Init
<1>4. StartOpensDay /\ EveryTapWasLegal /\ TapsNotLater
  BY <1>2 DEF StartOpensDay, EveryTapWasLegal, TapsNotLater, Init
<1>5. AckedIsDurable /\ OneInsert /\ \A r \in Requests : CheckedOK(r) /\ CommittedOK(r)
  BY <1>3 DEF AckedIsDurable, OneInsert, CheckedOK, CommittedOK, Writing, InTransaction
<1>6. QED BY <1>1, <1>4, <1>5 DEF IInv, InFlightOK

\* Accepting a tap: what the request read is a prefix of the log that allows
\* the tap, and the instant is later than the day's START.
LEMMA AcceptKeepsIInv ==
  ASSUME IInv, TypeOK', NEW r \in Requests, Accept(r)
  PROVE  IInv'
<1> DEFINE d == req[r].day
<1>1. /\ pc[r] = "check" /\ Permitted(r) /\ clock' = clock + 2
      /\ req' = [req EXCEPT ![r] = [req[r] EXCEPT !.ts = clock + 2]]
      /\ pc' = [pc EXCEPT ![r] = "insert"]
      /\ rows' = rows /\ log' = log /\ reply' = reply
  BY DEF Accept, Goto, db
<1>2. /\ TypeOK /\ clock \in Nat /\ req[r] \in RequestRecord /\ d \in Days
      /\ log[d] \in Seq(Session)
  BY DEF IInv, TypeOK, RequestRecord
<1>3. /\ pc'[r] = "insert" /\ req'[r].ts = clock + 2 /\ req'[r].by = req[r].by
      /\ req'[r].type = req[r].type /\ req'[r].day = d
  BY <1>1, <1>2 DEF TypeOK, RequestRecord
<1>4. CheckedOK(r) /\ req[r].by = "tap"
  BY <1>1 DEF IInv, InFlightOK, CheckedOK
<1>5. OnlyRequest(r)
  BY <1>1, <1>2 DEF OnlyRequest, TypeOK
<1>6. EntersAlone(r) /\ CommittedOK(r)'
  BY <1>1, <1>3 DEF IInv, InFlightOK, EntersAlone, InTransaction, CommittedOK
<1>7. AckOK(r)'
  BY <1>1 DEF IInv, InFlightOK, CommittedOK, AckOK
<1>8. CheckedOK(r)'
  <2>1. req'[r].by = "tap" /\ req'[r].ts <= clock'
    BY <1>1, <1>2, <1>3, <1>4
  <2>2. CASE req[r].type = "START"
    BY <1>3, <2>1, <2>2 DEF CheckedOK, IsTap
  <2>3. CASE req[r].type # "START"
    <3>1. req[r].hadRow /\ d \in rows
      BY <1>1, <1>4, <2>3 DEF Permitted, CheckedOK
    <3>2. PICK k \in 0 .. Len(log[d]) : req[r].view = SubSeq(log[d], 1, k)
      BY <1>1, <1>4, <3>1 DEF CheckedOK
    <3>3. StateOf(SubSeq(log[d], 1, k)) \in AllowedFrom[req[r].type]
      BY <1>1, <3>1, <3>2 DEF Permitted, SeenState
    <3>4. log[d][1].ts <= clock /\ log[d][1].ts \in Nat
      <4>1. 1 \in Taps(d) /\ 1 \in DOMAIN log[d]
        BY <1>2, <3>1 DEF IInv, StartOpensDay, Taps
      <4>2. log[d][1] \in Session
        BY <1>2, <4>1
      <4>3. QED BY <1>2, <4>1, <4>2 DEF IInv, InFlightOK, TapsNotLater, Session
    <3>5. log[d][1].ts < clock + 2
      BY <1>2, <3>4
    <3>6. QED BY <1>1, <1>3, <2>1, <2>3, <3>1, <3>3, <3>5 DEF CheckedOK, IsTap
  <2>4. QED BY <2>2, <2>3
<1>9. QED BY <1>5, <1>6, <1>7, <1>8, StepOfOne

\* The other steps of one request, each with the part of IInv it could disturb.
LEMMA OtherStepsKeepIInv ==
  ASSUME IInv, TypeOK', NEW r \in Requests,
         \/ Reject(r) \/ InsertRow(r) \/ LoseStartRace(r) \/ AppendSession(r)
         \/ UpdateRollup(r) \/ HsetState(r) \/ SetExpiry(r) \/ Answer(r) \/ Fail(r)
  PROVE  IInv'
<1> USE DEF Goto, Finish, work, db, time, budget
<1>1. /\ TypeOK /\ clock \in Nat /\ clock <= clock /\ req[r] \in RequestRecord
      /\ CheckedOK(r) /\ CommittedOK(r) /\ AckOK(r)
  <2>1. TypeOK /\ CheckedOK(r) /\ CommittedOK(r) /\ AckOK(r)
    BY DEF IInv, InFlightOK, AckedIsDurable, AckOK
  <2>2. clock \in Nat /\ req[r] \in RequestRecord
    BY <2>1 DEF TypeOK
  <2>3. QED BY <2>1, <2>2
\* A request that ends leaves no obligation but its answer.
<1>2. ASSUME NEW answer \in {"ok", "conflict", "error"}, Finish(r, answer),
             UNCHANGED <<clock, rows, log, req>>,
             answer = "ok" => pc[r] = "answer"
      PROVE  IInv'
  <2>1. OnlyRequest(r)
    BY <1>1, <1>2 DEF OnlyRequest, TypeOK
  <2>2. pc'[r] = "idle" /\ reply'[r] = answer
    BY <1>1, <1>2 DEF TypeOK
  <2>3. EntersAlone(r) /\ CommittedOK(r)' /\ CheckedOK(r)'
    BY <2>2 DEF EntersAlone, CommittedOK, CheckedOK, InTransaction, Writing
  <2>4. AckOK(r)'
    BY <1>1, <1>2, <2>2 DEF AckOK, CommittedOK, Own
  <2>5. QED BY <2>1, <2>3, <2>4, StepOfOne
<1>3. CASE Reject(r)
  BY <1>2, <1>3 DEF Reject
<1>4. CASE LoseStartRace(r)
  BY <1>2, <1>4 DEF LoseStartRace
<1>5. CASE Answer(r)
  BY <1>2, <1>5 DEF Answer
<1>6. CASE Fail(r)
  BY <1>2, <1>6 DEF Fail
\* A request that goes on keeps what it asks for and writes, except its view.
<1>7. ASSUME NEW label \in Writing \ {"insert"}, Goto(r, label), pc[r] \in Writing,
             UNCHANGED <<clock, rows, log, reply>>,
             req' = req \/ \E view : req' = [req EXCEPT ![r] = [req[r] EXCEPT !.view = view]],
             label = "rollup" => IsTap(r, "END"),
             pc[r] = "insert" /\ IsTap(r, "START")
               => ~InsertPending(req[r].day) /\ req[r].day \notin rows
      PROVE  IInv'
  <2>1. /\ req'[r].by = req[r].by /\ req'[r].type = req[r].type
        /\ req'[r].day = req[r].day /\ req'[r].ts = req[r].ts
        /\ \A q \in Requests \ {r} : req'[q] = req[q]
    <3>1. CASE req' = req
      BY <3>1
    <3>2. CASE \E view : req' = [req EXCEPT ![r] = [req[r] EXCEPT !.view = view]]
      <4>1. PICK view : req' = [req EXCEPT ![r] = [req[r] EXCEPT !.view = view]]
        BY <3>2
      <4>2. req'[r] = [req[r] EXCEPT !.view = view] /\ \A q \in Requests \ {r} : req'[q] = req[q]
        BY <1>1, <4>1 DEF TypeOK
      <4>3. QED BY <1>1, <4>2 DEF RequestRecord
    <3>3. QED BY <1>7, <3>1, <3>2
  <2>2. pc'[r] = label /\ reply'[r] = "none"
    BY <1>1, <1>7 DEF TypeOK, CommittedOK, Writing
  <2>3. OnlyRequest(r)
    BY <1>1, <1>7, <2>1 DEF OnlyRequest, TypeOK
  <2>4. EntersAlone(r)
    BY <1>1, <1>7, <2>1 DEF EntersAlone, IsTap, Writing, InTransaction, CheckedOK
  <2>5. CommittedOK(r)' /\ AckOK(r)'
    BY <1>7, <2>2 DEF CommittedOK, AckOK, Writing
  <2>6. CheckedOK(r)'
    BY <1>1, <1>7, <2>1, <2>2 DEF CheckedOK, IsTap, Writing
  <2>7. QED BY <2>3, <2>4, <2>5, <2>6, StepOfOne
<1> USE DEF Writing
<1>8. CASE InsertRow(r)
  BY <1>1, <1>7, <1>8 DEF InsertRow, TypeOK
<1>9. CASE AppendSession(r)
  <2> DEFINE label == IF IsTap(r, "END") THEN "rollup" ELSE "hset"
             view  == Append(log[req[r].day], Own(r))
  <2>1. /\ Goto(r, label) /\ label \in Writing \ {"insert"}
        /\ label = "rollup" => IsTap(r, "END")
    BY <1>9 DEF AppendSession
  <2>2. req' = [req EXCEPT ![r] = [req[r] EXCEPT !.view = view]]
    BY <1>9 DEF AppendSession
  <2>3. UNCHANGED <<clock, rows, log, reply>> /\ pc[r] = "insert" /\ ~IsTap(r, "START")
    BY <1>9 DEF AppendSession
  <2>4. \E v : req' = [req EXCEPT ![r] = [req[r] EXCEPT !.view = v]]
    BY <2>2
  <2> HIDE DEF label, view, Goto
  <2>5. QED BY <1>7, <2>1, <2>3, <2>4
<1>10. CASE UpdateRollup(r)
  BY <1>1, <1>7, <1>10 DEF UpdateRollup
<1>11. CASE HsetState(r)
  BY <1>7, <1>11 DEF HsetState
<1>12. CASE SetExpiry(r)
  BY <1>7, <1>12 DEF SetExpiry
<1>13. QED BY <1>3, <1>4, <1>5, <1>6, <1>8, <1>9, <1>10, <1>11, <1>12

\* A request received is checked against what is committed at that moment.
LEMMA ReceiveKeepsIInv ==
  ASSUME IInv, TypeOK', NEW r \in Requests, Receive(r)
  PROVE  IInv'
<1>1. TypeOK /\ clock \in Nat /\ today \in Days
  BY DEF IInv, TypeOK
<1>2. ASSUME NEW type \in SessionTypes, Tap(r, type) PROVE IInv'
  <2>1. /\ pc' = [pc EXCEPT ![r] = "check"] /\ reply' = [reply EXCEPT ![r] = "none"]
        /\ req' = [req EXCEPT ![r] = [by |-> "tap", type |-> type, day |-> today,
             hadRow |-> today \in rows, view |-> log[today], ts |-> 0]]
        /\ UNCHANGED <<clock, rows, log>>
    BY <1>2 DEF Tap, Goto, time, db
  <2>2. /\ pc'[r] = "check" /\ reply'[r] = "none" /\ req'[r].by = "tap"
        /\ req'[r].day = today /\ req'[r].hadRow = (today \in rows)
        /\ req'[r].view = log[today]
    BY <1>1, <2>1 DEF TypeOK
  <2>3. OnlyRequest(r)
    BY <1>1, <2>1 DEF OnlyRequest, TypeOK
  <2>4. EntersAlone(r) /\ CommittedOK(r)' /\ AckOK(r)'
    BY <2>2 DEF EntersAlone, InTransaction, CommittedOK, AckOK
  <2>5. \E k \in 0 .. Len(log[today]) : log[today] = SubSeq(log[today], 1, k)
    <3>1. log[today] \in Seq(Session)
      BY <1>1 DEF TypeOK
    <3>2. SubSeq(log[today], 1, Len(log[today])) = log[today]
      BY <3>1, WholePrefix
    <3>3. Len(log[today]) \in 0 .. Len(log[today])
      BY <3>1
    <3>4. QED BY <3>2, <3>3
  <2>6. CheckedOK(r)'
    BY <2>1, <2>2, <2>5 DEF CheckedOK, Writing
  <2>7. QED BY <2>3, <2>4, <2>6, StepOfOne
<1>3. ASSUME NEW d \in Days, NEW type \in SessionTypes, NEW ts \in ManualInstants,
             Manual(r, d, type, ts)
      PROVE  IInv'
  <2>1. /\ pc' = [pc EXCEPT ![r] = "insert"] /\ reply' = [reply EXCEPT ![r] = "none"]
        /\ req' = [req EXCEPT ![r] = [by |-> "manual", type |-> type, day |-> d,
             hadRow |-> TRUE, view |-> <<>>, ts |-> ts]]
        /\ UNCHANGED <<clock, rows, log>> /\ d \in rows
    BY <1>3 DEF Manual, Goto, time, db
  <2>2. /\ pc'[r] = "insert" /\ reply'[r] = "none" /\ req'[r].by = "manual"
        /\ req'[r].day = d
    BY <1>1, <2>1 DEF TypeOK
  <2>3. OnlyRequest(r)
    BY <1>1, <2>1 DEF OnlyRequest, TypeOK
  <2>4. EntersAlone(r) /\ CommittedOK(r)' /\ AckOK(r)'
    BY <2>2 DEF EntersAlone, InTransaction, CommittedOK, AckOK
  <2>5. CheckedOK(r)'
    BY <2>1, <2>2 DEF CheckedOK, IsTap
  <2>6. QED BY <2>3, <2>4, <2>5, StepOfOne
<1>4. QED BY <1>2, <1>3 DEF Receive

\* Every step keeps the inductive invariant.
LEMMA NextIInv == IInv /\ [Next]_vars => IInv'
<1> SUFFICES ASSUME IInv, [Next]_vars PROVE IInv'
  OBVIOUS
<1>1. TypeOK'
  BY NextType DEF IInv
<1>2. CASE UNCHANGED <<clock, rows, log, pc, req, reply>>
  <2>1. StartOpensDay' /\ EveryTapWasLegal' /\ TapsNotLater'
    BY <1>2 DEF IInv, InFlightOK, StartOpensDay, EveryTapWasLegal, TapsNotLater, Taps
  <2>2. AckedIsDurable' /\ OneInsert'
    BY <1>2 DEF IInv, InFlightOK, AckedIsDurable, OneInsert, Own, IsTap
  <2>3. \A r \in Requests : CheckedOK(r)' /\ CommittedOK(r)'
    BY <1>2 DEF IInv, InFlightOK, CheckedOK, CommittedOK, Own, IsTap
  <2>4. QED BY <1>1, <2>1, <2>2, <2>3 DEF IInv, InFlightOK
<1>3. ASSUME NEW r \in Requests, Receive(r) \/ Step(r) \/ Fail(r) PROVE IInv'
  BY <1>1, <1>3, ReceiveKeepsIInv, AcceptKeepsIInv, CommitKeepsIInv, OtherStepsKeepIInv
  DEF Step
<1>4. CASE Midnight \/ Evict \/ UNCHANGED vars
  BY <1>2, <1>4 DEF Midnight, Evict, vars, time, db, work
<1>5. QED BY <1>3, <1>4 DEF Next

\* Of the STARTs that overlap one opens the day, its session the first and the
\* earliest (attendance_service.py:16-17 and 220-250).
THEOREM DayIsOpenedOnce == Spec => []StartOpensDay
<1>1. IInv => StartOpensDay
  BY DEF IInv
<1>2. QED BY <1>1, InitIInv, NextIInv, PTL DEF Spec

\* No tap enters the log that the transition table did not allow for an
\* earlier content of it (attendance_service.py:168-172).
THEOREM TapsAreLegal == Spec => []EveryTapWasLegal
<1>1. IInv => EveryTapWasLegal
  BY DEF IInv
<1>2. QED BY <1>1, InitIInv, NextIInv, PTL DEF Spec

\* What was answered with success stays in the log (attendance_service.py:210-218).
THEOREM AckedStays == Spec => []AckedIsDurable
<1>1. IInv => AckedIsDurable
  BY DEF IInv
<1>2. QED BY <1>1, InitIInv, NextIInv, PTL DEF Spec


\* What a handler found when it checked its tap still holds of the committed
\* day when it writes, and of the STARTs of one day at most one has inserted the
\* row, however many handlers overlap (attendance_service.py:166-172, 220-250).
THEOREM HandlersStayInStep == Spec => []InFlightOK
<1>1. IInv => InFlightOK
  BY DEF IInv
<1>2. QED BY <1>1, InitIInv, NextIInv, PTL DEF Spec
-----------------------------------------------------------------------------
(***************************************************************************)
(* One request at a time.  Without corrections the attendance service      *)
(* implements the abstract day of WorkDay, whatever fails, expires or is   *)
(* evicted; with them the total of an ended day is that of its sessions,   *)
(* and without a failure the cached state that of the row it names.  All   *)
(* for every number of days, taps and failures.                            *)
(***************************************************************************)

\* No handler overlaps another.
OneAtATime == \A q, r \in Requests : q = r

\* The only session writers are taps.
OnlyTaps ==
  /\ \A r \in Requests : req[r].by = "tap"
  /\ \A d \in Days : \A i \in DOMAIN log[d] : log[d][i].by = "tap"

\* What the request read is still what is committed, and it goes on only if
\* that allows its tap.
ReadIsCurrent(r) ==
  LET d == req[r].day IN
  /\ pc[r] = "check" => req[r].hadRow = (d \in rows) /\ req[r].view = log[d]
  /\ pc[r] \in Writing =>
       /\ StateOf(log[d]) \in AllowedFrom[req[r].type]
       /\ \A i \in DOMAIN log[d] : log[d][i].ts < req[r].ts

SerialInv == IInv /\ OnlyTaps /\ \A r \in Requests : ReadIsCurrent(r)

\* Initially nothing has been read.
LEMMA InitSerial == Init => SerialInv
<1> SUFFICES ASSUME Init PROVE SerialInv
  OBVIOUS
<1>1. IInv
  BY InitIInv
<1>2. OnlyTaps
  BY DEF OnlyTaps, Init, NoRequest
<1>3. \A r \in Requests : ReadIsCurrent(r)
  BY DEF ReadIsCurrent, Init, Writing
<1>4. QED BY <1>1, <1>2, <1>3 DEF SerialInv

\* Every step keeps the serial invariant: while the only request runs nobody
\* else commits.
LEMMA NextSerial ==
  ASSUME OneAtATime, MaxManual = 0, SerialInv, [Next]_vars
  PROVE  SerialInv'
<1> USE DEF Goto, Finish, work, db, time, budget
<1>1. IInv' /\ TypeOK' /\ TypeOK
  BY NextIInv DEF SerialInv, IInv
<1>2. \A r \in Requests : \A q \in Requests : q = r
  BY DEF OneAtATime
<1>3. \A r \in Requests :
        /\ req[r] \in RequestRecord /\ req[r].day \in Days /\ req[r].by = "tap"
        /\ log[req[r].day] \in Seq(Session) /\ Own(r) \in Session /\ ReadIsCurrent(r)
  <2> TAKE r \in Requests
  <2>1. req[r] \in RequestRecord
    BY <1>1 DEF TypeOK
  <2>2. req[r].day \in Days /\ log[req[r].day] \in Seq(Session)
    BY <1>1, <2>1 DEF TypeOK, RequestRecord
  <2>3. QED BY <1>1, <2>1, <2>2, OwnType DEF SerialInv, OnlyTaps
\* A step that leaves the log, the rows and what was asked alone.
<1>4. ASSUME NEW r \in Requests, UNCHANGED <<rows, log>>,
             pc'[r] \in Writing => pc[r] \in Writing, pc'[r] # "check",
             req'[r].by = req[r].by, req'[r].type = req[r].type,
             req'[r].day = req[r].day, req'[r].ts = req[r].ts
      PROVE  SerialInv'
  <2>1. OnlyTaps'
    BY <1>2, <1>4 DEF SerialInv, OnlyTaps
  <2>2. ReadIsCurrent(r)'
    BY <1>3, <1>4 DEF ReadIsCurrent
  <2>3. QED BY <1>1, <1>2, <2>1, <2>2 DEF SerialInv
<1>5. CASE UNCHANGED <<rows, log, pc, req>>
  BY <1>1, <1>5 DEF SerialInv, OnlyTaps, ReadIsCurrent
<1>6. ASSUME NEW r \in Requests, NEW type \in SessionTypes, Tap(r, type) PROVE SerialInv'
  <2>1. /\ pc' = [pc EXCEPT ![r] = "check"] /\ UNCHANGED <<rows, log>>
        /\ req' = [req EXCEPT ![r] = [by |-> "tap", type |-> type, day |-> today,
             hadRow |-> today \in rows, view |-> log[today], ts |-> 0]]
    BY <1>6 DEF Tap
  <2>2. /\ pc'[r] = "check" /\ req'[r].by = "tap" /\ req'[r].day = today
        /\ req'[r].hadRow = (today \in rows) /\ req'[r].view = log[today]
    BY <1>1, <2>1 DEF TypeOK
  <2>3. OnlyTaps'
    BY <1>2, <2>1, <2>2 DEF SerialInv, OnlyTaps
  <2>4. ReadIsCurrent(r)'
    BY <2>1, <2>2 DEF ReadIsCurrent, Writing
  <2>5. QED BY <1>1, <1>2, <2>3, <2>4 DEF SerialInv
<1>7. ASSUME NEW r \in Requests, NEW d \in Days, NEW type \in SessionTypes,
             NEW ts \in ManualInstants, Manual(r, d, type, ts)
      PROVE  SerialInv'
  BY <1>1, <1>7 DEF Manual, TypeOK
<1>8. ASSUME NEW r \in Requests, Accept(r) PROVE SerialInv'
  <2> DEFINE d == req[r].day
  <2>1. /\ pc[r] = "check" /\ Permitted(r) /\ UNCHANGED <<rows, log>>
        /\ pc' = [pc EXCEPT ![r] = "insert"]
        /\ req' = [req EXCEPT ![r] = [req[r] EXCEPT !.ts = clock + 2]]
    BY <1>8 DEF Accept
  <2>2. /\ pc'[r] = "insert" /\ req'[r].by = "tap" /\ req'[r].type = req[r].type
        /\ req'[r].day = d /\ req'[r].ts = clock + 2
    BY <1>1, <1>3, <2>1 DEF TypeOK, RequestRecord
  <2>3. OnlyTaps'
    BY <1>2, <2>1, <2>2 DEF SerialInv, OnlyTaps
  <2>4. StateOf(log[d]) \in AllowedFrom[req[r].type]
    <3>1. CASE d \in rows
      BY <1>3, <2>1, <3>1 DEF ReadIsCurrent, Permitted, SeenState
    <3>2. CASE d \notin rows
      <4>1. log[d] = <<>> /\ req[r].type = "START"
        BY <1>3, <2>1, <3>2 DEF ReadIsCurrent, Permitted, SerialInv, IInv, StartOpensDay
      <4>2. QED BY <4>1 DEF StateOf, AllowedFrom
    <3>3. QED BY <3>1, <3>2
  <2>5. ASSUME NEW i \in DOMAIN log[d] PROVE log[d][i].ts < clock + 2
    <3>1. i \in Taps(d)
      BY <1>3 DEF SerialInv, OnlyTaps, Taps
    <3>2. log[d][i].ts <= clock
      BY <1>3, <3>1 DEF SerialInv, IInv, InFlightOK, TapsNotLater
    <3>3. log[d][i] \in Session
      BY <1>3
    <3>4. log[d][i].ts \in Nat /\ clock \in Nat
      <4>1. log[d][i].ts \in Nat
        BY <3>3 DEF Session
      <4>2. QED BY <1>1, <4>1 DEF TypeOK
    <3>5. QED BY <3>2, <3>4
  <2>6. ReadIsCurrent(r)'
    BY <2>1, <2>2, <2>4, <2>5 DEF ReadIsCurrent
  <2>7. QED BY <1>1, <1>2, <2>3, <2>6 DEF SerialInv
<1>9. ASSUME NEW r \in Requests, Commit(r) PROVE SerialInv'
  <2> DEFINE d == req[r].day
  <2>1. /\ pc'[r] = "answer" /\ req' = req
        /\ log' = [log EXCEPT ![d] = Append(log[d], Own(r))]
    BY <1>1, <1>9 DEF Commit, TypeOK
  <2>2. ASSUME NEW e \in Days, NEW i \in DOMAIN log'[e] PROVE log'[e][i].by = "tap"
    <3>1. CASE e = d
      <4>1. log'[e] = Append(log[d], Own(r))
        <5>1. log'[d] = Append(log[d], Own(r))
          <6>1. d \in Days /\ log \in [Days -> Seq(Session)]
            BY <1>1, <1>3 DEF TypeOK
          <6>2. QED BY <2>1, <6>1
        <5>2. QED BY <3>1, <5>1
      <4>2. Own(r).by = "tap" /\ \A j \in 1 .. Len(log[d]) : log[d][j].by = "tap"
        <5>1. \A j \in DOMAIN log[d] : log[d][j].by = "tap"
          BY <1>3 DEF SerialInv, OnlyTaps
        <5>2. DOMAIN log[d] = 1 .. Len(log[d])
          BY <1>3
        <5>3. QED BY <1>3, <5>1, <5>2 DEF Own
      <4>3. /\ i \in 1 .. Len(log[d]) + 1 /\ log'[e][Len(log[d]) + 1] = Own(r)
            /\ \A j \in 1 .. Len(log[d]) : log'[e][j] = log[d][j]
        BY <1>3, <2>2, <4>1, AppendProperties, LenProperties
      <4>4. CASE i = Len(log[d]) + 1
        BY <4>2, <4>3, <4>4
      <4>5. CASE i # Len(log[d]) + 1
        <5>1. i \in 1 .. Len(log[d])
          BY <1>3, <4>3, <4>5
        <5>2. QED BY <4>2, <4>3, <5>1
      <4>6. QED BY <4>4, <4>5
    <3>2. CASE e # d
      <4>1. log'[e] = log[e]
        BY <1>1, <2>1, <3>2 DEF TypeOK
      <4>2. QED BY <2>2, <4>1 DEF SerialInv, OnlyTaps
    <3>3. QED BY <3>1, <3>2
  <2>3. OnlyTaps'
    BY <2>1, <2>2 DEF SerialInv, OnlyTaps
  <2>4. ReadIsCurrent(r)'
    BY <2>1 DEF ReadIsCurrent, Writing
  <2>5. QED BY <1>1, <1>2, <2>3, <2>4 DEF SerialInv
<1>10. ASSUME NEW r \in Requests, NEW answer, Finish(r, answer), UNCHANGED <<rows, log, req>>
       PROVE  SerialInv'
  <2>1. pc'[r] = "idle"
    BY <1>1, <1>10 DEF TypeOK
  <2>2. QED BY <1>4, <1>10, <2>1 DEF Writing
<1>11. ASSUME NEW r \in Requests, Reject(r) \/ LoseStartRace(r) \/ Answer(r) \/ Fail(r)
       PROVE  SerialInv'
  BY <1>10, <1>11 DEF Reject, LoseStartRace, Answer, Fail
<1>12. ASSUME NEW r \in Requests, InsertRow(r) \/ AppendSession(r) PROVE SerialInv'
  <2>1. PICK view : req' = [req EXCEPT ![r] = [req[r] EXCEPT !.view = view]]
    BY <1>12 DEF InsertRow, AppendSession
  <2>2. /\ req'[r].by = req[r].by /\ req'[r].type = req[r].type
        /\ req'[r].day = req[r].day /\ req'[r].ts = req[r].ts
    BY <1>1, <1>3, <2>1 DEF TypeOK, RequestRecord
  <2>3. pc[r] = "insert" /\ pc'[r] # "check" /\ UNCHANGED <<rows, log>>
    BY <1>1, <1>12 DEF InsertRow, AppendSession, TypeOK
  <2>4. QED BY <1>4, <2>2, <2>3 DEF Writing
<1>13. ASSUME NEW r \in Requests, UpdateRollup(r) \/ HsetState(r) \/ SetExpiry(r)
       PROVE  SerialInv'
  <2>1. /\ pc[r] \in Writing /\ pc'[r] # "check" /\ UNCHANGED <<rows, log, req>>
    BY <1>1, <1>13 DEF UpdateRollup, HsetState, SetExpiry, TypeOK, Writing
  <2>2. QED BY <1>4, <2>1
<1>14. CASE Midnight \/ Evict \/ UNCHANGED vars
  BY <1>5, <1>14 DEF Midnight, Evict, vars
<1>15. QED
  BY <1>6, <1>7, <1>8, <1>9, <1>11, <1>12, <1>13, <1>14 DEF Next, Step, Receive

\* Every step moves one day along the abstract machine or none.
LEMMA StepImplementsDay ==
  ASSUME SerialInv, [Next]_vars
  PROVE  [Day!Next]_[d \in Days |-> StateOf(log[d])]
<1>1. TypeOK /\ \A r \in Requests : ReadIsCurrent(r)
  BY DEF SerialInv, IInv
<1>2. ASSUME NEW r \in Requests, Commit(r)
      PROVE  [Day!Next]_[d \in Days |-> StateOf(log[d])]
  <2> DEFINE d == req[r].day
             type == req[r].type
             state == [e \in Days |-> StateOf(log[e])]
             state1 == [e \in Days |-> StateOf(log'[e])]
  <2>1. d \in Days /\ type \in SessionTypes /\ log[d] \in Seq(Session) /\ Own(r) \in Session
    <3>1. req[r] \in RequestRecord
      BY <1>1 DEF TypeOK
    <3>2. QED BY <1>1, <3>1, OwnType DEF TypeOK, RequestRecord
  <2>2. /\ pc[r] = "commit" /\ log' = [log EXCEPT ![d] = Append(log[d], Own(r))]
    BY <1>2 DEF Commit
  <2>3. /\ StateOf(log[d]) \in AllowedFrom[type]
        /\ \A i \in DOMAIN log[d] : log[d][i].ts < Own(r).ts
    BY <1>1, <2>2 DEF ReadIsCurrent, Writing, Own
  <2>4. StateOf(Append(log[d], Own(r))) = StateForType[type]
    <3>1. Own(r).type = type
      BY DEF Own
    <3>2. StateOf(Append(log[d], Own(r))) = StateForType[Own(r).type]
      BY <2>1, <2>3, StateOfLater
    <3>3. QED BY <3>1, <3>2
  <2>5. \A e \in Days : log'[e] = IF e = d THEN Append(log[d], Own(r)) ELSE log[e]
    BY <1>1, <2>1, <2>2 DEF TypeOK
  <2>6. state1 = [state EXCEPT ![d] = StateForType[type]]
    <3>1. \A e \in Days : StateOf(log'[e]) = IF e = d THEN StateForType[type] ELSE StateOf(log[e])
      BY <2>4, <2>5
    <3>2. QED BY <3>1
  <2>7. state[d] \in AllowedFrom[type] /\ state' = state1
    BY <2>1, <2>3
  <2>8. state' = [state EXCEPT ![d] = StateForType[type]]
    <3> HIDE DEF state, state1
    <3> QED BY <2>6, <2>7
  <2>9. /\ Day!SessionTypes = SessionTypes /\ Day!AllowedFrom = AllowedFrom
        /\ Day!StateForType = StateForType
    BY DEF Day!SessionTypes, SessionTypes, Day!AllowedFrom, AllowedFrom, Day!StateForType,
           StateForType
  <2>10. Day!Move(d, type)
    BY <2>7, <2>8, <2>9 DEF Day!Move
  <2>11. QED BY <2>1, <2>9, <2>10 DEF Day!Next
<1>3. CASE UNCHANGED log
  BY <1>3
<1>4. ASSUME NEW r \in Requests, Receive(r) \/ Fail(r) \/ (Step(r) /\ ~Commit(r))
      PROVE  UNCHANGED log
  BY <1>4 DEF Receive, Fail, Step, Tap, Manual, Reject, Accept, InsertRow, LoseStartRace,
              AppendSession, UpdateRollup, HsetState, SetExpiry, Answer, db
<1>5. CASE Midnight \/ Evict \/ UNCHANGED vars
  BY <1>3, <1>5 DEF Midnight, Evict, vars, db
<1>6. QED BY <1>2, <1>3, <1>4, <1>5 DEF Next, Step

\* One request at a time, without corrections, moves every day only along
\* NULL, START, (BREAK, RESUME)*, END (attendance_service.py:5 and 60-65): a
\* failure at any await, a lost cached state and midnight change nothing in that.
THEOREM SerialImplementsWorkDay ==
  ASSUME OneAtATime, MaxManual = 0
  PROVE  Spec => ImplementsWorkDay
<1>1. Init => Day!Init
  BY DEF Init, Day!Init, StateOf
<1>2. SerialInv /\ [Next]_vars => SerialInv'
  BY NextSerial
<1>3. SerialInv /\ [Next]_vars => [Day!Next]_[d \in Days |-> StateOf(log[d])]
  BY StepImplementsDay
<1>4. QED BY <1>1, <1>2, <1>3, InitSerial, PTL DEF Spec, ImplementsWorkDay, Day!Spec
-----------------------------------------------------------------------------
(***************************************************************************)
(* One request at a time, corrections and failures included: what the      *)
(* request read is what it writes over.                                    *)
(***************************************************************************)

\* No two sessions of a day share an instant: the clock is even, taps take its
\* values, corrections take odd instants that are free.
InstantsOK ==
  /\ \E n \in Nat : clock = 2 * n
  /\ \A d \in Days : \A i \in DOMAIN log[d] :
       log[d][i].by = "manual" => log[d][i].ts \in ManualInstants
  /\ \A d \in Days : \A i, j \in DOMAIN log[d] : log[d][i].ts = log[d][j].ts => i = j

\* The totals are functions; of their values nothing is said.
TotalsKept ==
  /\ minutes = [d \in Days |-> minutes[d]]
  /\ loaded = [r \in Requests |-> loaded[r]]
  /\ total = [r \in Requests |-> total[r]]

EndedHasTotal ==
  \A d \in rows : StateOf(log[d]) = "ENDED" => minutes[d] = CalculateDuration(log[d])

\* What the request knows of its day is what is committed, and what it is going
\* to write is that and its own session.
KnowsDay(r) ==
  LET d == req[r].day IN
  /\ pc[r] = "check" => req[r].hadRow = (d \in rows) /\ req[r].view = log[d]
  /\ pc[r] \in Writing \cup {"check"} => loaded[r] = minutes[d]
  /\ pc[r] \in Writing => \A i \in DOMAIN log[d] : log[d][i].ts # req[r].ts
  /\ pc[r] \in Writing /\ req[r].by = "tap" =>
       StateOf(log[d]) \in AllowedFrom[req[r].type] /\ req[r].ts = clock
  /\ pc[r] \in Writing /\ req[r].by = "manual" => req[r].ts \in ManualInstants
  /\ pc[r] \in Writing \ {"insert"} =>
       /\ req[r].view = Append(log[d], Own(r))
       /\ IsTap(r, "START") \/ total[r] = CalculateDuration(req[r].view)

AloneInv ==
  /\ IInv
  /\ InstantsOK
  /\ TotalsKept
  /\ EndedHasTotal
  /\ \A r \in Requests : KnowsDay(r)

\* With distinct instants the latest session is the only one that is not
\* earlier than any other.
LEMMA LatestIsUnique ==
  ASSUME NEW s \in Seq(Session),
         \A i, j \in DOMAIN s : s[i].ts = s[j].ts => i = j,
         NEW k \in DOMAIN s, \A j \in DOMAIN s : s[j].ts <= s[k].ts
  PROVE  Latest(s) = k
<1>1. s # <<>>
  OBVIOUS
<1>2. Latest(s) \in DOMAIN s /\ \A j \in DOMAIN s : s[j].ts <= s[Latest(s)].ts
  BY <1>1, LatestInLog
<1>3. s[Latest(s)].ts <= s[k].ts /\ s[k].ts <= s[Latest(s)].ts
  BY <1>2
<1>4. s[k] \in Session /\ s[Latest(s)] \in Session
  BY <1>2
<1>5. s[k].ts \in Nat /\ s[Latest(s)].ts \in Nat
  BY <1>4 DEF Session
<1>6. s[k].ts = s[Latest(s)].ts
  BY <1>3, <1>5
<1>7. QED BY <1>2, <1>6

\* A session that is not later than all others does not change the state.
LEMMA StateOfEarlier ==
  ASSUME NEW s \in Seq(Session), NEW e \in Session,
         \A i, j \in DOMAIN s : s[i].ts = s[j].ts => i = j,
         \A i \in DOMAIN s : s[i].ts # e.ts,
         \E i \in DOMAIN s : ~(s[i].ts < e.ts)
  PROVE  StateOf(Append(s, e)) = StateOf(s)
<1> DEFINE t == Append(s, e)
           k == Latest(s)
<1>1. /\ t \in Seq(Session) /\ t # <<>> /\ Len(s) \in Nat
      /\ DOMAIN s = 1 .. Len(s) /\ DOMAIN t = 1 .. Len(s) + 1
      /\ t[Len(s) + 1] = e
      /\ \A i \in 1 .. Len(s) : t[i] = s[i]
  BY AppendProperties, LenProperties
<1>2. s # <<>> /\ k \in DOMAIN s /\ \A j \in DOMAIN s : s[j].ts <= s[k].ts
  <2>1. s # <<>>
    BY <1>1
  <2>2. QED BY <2>1, LatestInLog
<1>3. e.ts \in Nat /\ \A i \in DOMAIN s : s[i].ts \in Nat
  <2>1. e \in Session /\ \A i \in DOMAIN s : s[i] \in Session
    OBVIOUS
  <2>2. QED BY <2>1 DEF Session
<1>4. e.ts <= s[k].ts
  <2>1. PICK i \in DOMAIN s : ~(s[i].ts < e.ts)
    OBVIOUS
  <2>2. s[i].ts <= s[k].ts /\ s[i].ts \in Nat /\ s[k].ts \in Nat
    BY <1>2, <1>3, <2>1
  <2>3. QED BY <1>3, <2>1, <2>2
<1>5. k \in DOMAIN t /\ t[k] = s[k]
  <2>1. k \in 1 .. Len(s)
    BY <1>1, <1>2
  <2>2. k \in 1 .. Len(s) + 1
    BY <1>1, <2>1
  <2>3. QED BY <1>1, <2>1, <2>2
<1>6. ASSUME NEW j \in DOMAIN t PROVE t[j].ts <= t[k].ts
  <2>1. CASE j = Len(s) + 1
    BY <1>1, <1>4, <1>5, <2>1
  <2>2. CASE j # Len(s) + 1
    <3>1. j \in 1 .. Len(s)
      BY <1>1, <1>6, <2>2
    <3>2. QED BY <1>1, <1>2, <1>5, <3>1
  <2>3. QED BY <2>1, <2>2
<1>7. ASSUME NEW i \in DOMAIN t, NEW j \in DOMAIN t, t[i].ts = t[j].ts PROVE i = j
  <2>1. \A m \in DOMAIN t : m = Len(s) + 1 \/ m \in DOMAIN s
    BY <1>1
  <2>2. CASE i \in DOMAIN s /\ j \in DOMAIN s
    BY <1>1, <1>7, <2>2
  <2>3. CASE i \in DOMAIN s /\ j = Len(s) + 1
    BY <1>1, <1>7, <2>3
  <2>4. CASE i = Len(s) + 1 /\ j \in DOMAIN s
    BY <1>1, <1>7, <2>4
  <2>5. QED BY <2>1, <2>2, <2>3, <2>4
<1>8. Latest(t) = k
  <2> HIDE DEF t, k
  <2> QED BY <1>1, <1>5, <1>6, <1>7, LatestIsUnique
<1>9. QED
  <2> HIDE DEF k
  <2>1. StateOf(t) = StateForType[t[k].type] /\ StateOf(s) = StateForType[s[Latest(s)].type]
    BY <1>1, <1>2, <1>8 DEF StateOf
  <2>2. k = Latest(s)
    BY DEF k
  <2>3. QED BY <1>5, <2>1, <2>2

\* A day with a session has begun.
LEMMA StateOfBegun ==
  ASSUME NEW s \in Seq(Session), s # <<>>
  PROVE  StateOf(s) # "NULL"
<1>1. s[Latest(s)] \in Session
  BY LatestInLog
<1>2. s[Latest(s)].type \in SessionTypes
  BY <1>1 DEF Session
<1>3. QED BY <1>2 DEF StateOf, StateForType, SessionTypes

\* Initially no session has an instant and nothing is known.
LEMMA InitAlone == Init => AloneInv
<1> SUFFICES ASSUME Init PROVE AloneInv
  OBVIOUS
<1>1. IInv
  BY InitIInv
<1>2. InstantsOK
  <2>1. clock = 2 * 0 /\ \A d \in Days : DOMAIN log[d] = {}
    BY DEF Init
  <2>2. QED BY <2>1 DEF InstantsOK
<1>3. TotalsKept /\ EndedHasTotal
  BY DEF Init, TotalsKept, EndedHasTotal
<1>4. \A r \in Requests : KnowsDay(r)
  BY DEF KnowsDay, Init, Writing
<1>5. QED BY <1>1, <1>2, <1>3, <1>4 DEF AloneInv


\* COMMIT writes a session at an instant of its own, and with an END or a
\* correction the total of what is then committed.
LEMMA CommitKeepsAlone ==
  ASSUME OneAtATime, AloneInv, IInv', NEW r \in Requests, Commit(r)
  PROVE  AloneInv'
<1> DEFINE d == req[r].day
           s == log[d]
           e == Own(r)
<1>1. TypeOK /\ TypeOK' /\ KnowsDay(r) /\ CheckedOK(r) /\ OneInsert
  BY DEF AloneInv, IInv, InFlightOK
<1>2. /\ req[r] \in RequestRecord /\ d \in Days /\ s \in Seq(Session) /\ e \in Session
      /\ e.type = req[r].type /\ e.ts = req[r].ts /\ e.by = req[r].by
      /\ req[r].type \in SessionTypes /\ req[r].by \in {"tap", "manual"}
  <2>1. req[r] \in RequestRecord /\ e \in Session
    BY <1>1, OwnType DEF TypeOK
  <2>2. d \in Days /\ req[r].type \in SessionTypes /\ req[r].by \in {"tap", "manual"}
    BY <2>1 DEF RequestRecord
  <2>3. s \in Seq(Session)
    BY <1>1, <2>2 DEF TypeOK
  <2>4. QED BY <2>1, <2>2, <2>3 DEF Own
<1>3. /\ pc[r] = "commit" /\ rows' = rows \cup {d}
      /\ log' = [log EXCEPT ![d] = Append(s, e)]
      /\ minutes' = [minutes EXCEPT ![d] = IF ChangesMinutes(r) THEN total[r] ELSE @]
      /\ pc' = [pc EXCEPT ![r] = "answer"]
      /\ clock' = clock /\ req' = req /\ loaded' = loaded /\ total' = total
  BY DEF Commit, Goto, time, work
<1>4. /\ log'[d] = Append(s, e) /\ Len(s) \in Nat /\ DOMAIN s = 1 .. Len(s)
      /\ DOMAIN log'[d] = 1 .. Len(s) + 1 /\ log'[d][Len(s) + 1] = e
      /\ \A i \in 1 .. Len(s) : log'[d][i] = s[i]
      /\ \A c \in Days : c # d => log'[c] = log[c]
  <2>1. log'[d] = Append(s, e) /\ \A c \in Days : c # d => log'[c] = log[c]
    BY <1>1, <1>2, <1>3 DEF TypeOK
  <2>2. QED BY <1>2, <2>1, AppendProperties, LenProperties
<1>5. /\ \A i \in DOMAIN s : s[i].ts # e.ts
      /\ e.by = "manual" => e.ts \in ManualInstants
      /\ req[r].by = "tap" => StateOf(s) \in AllowedFrom[req[r].type]
      /\ loaded[r] = minutes[d]
      /\ IsTap(r, "START") \/ total[r] = CalculateDuration(Append(s, e))
  BY <1>1, <1>2, <1>3 DEF KnowsDay, Writing
<1>6. \A i \in DOMAIN log'[d] : i = Len(s) + 1 \/ i \in DOMAIN s
  BY <1>4
<1>7. InstantsOK'
  <2>1. \E n \in Nat : clock' = 2 * n
    BY <1>3 DEF AloneInv, InstantsOK
  <2>2. ASSUME NEW c \in Days, NEW i \in DOMAIN log'[c], log'[c][i].by = "manual"
        PROVE  log'[c][i].ts \in ManualInstants
    <3>1. CASE c = d /\ i = Len(s) + 1
      BY <1>4, <1>5, <2>2, <3>1
    <3>2. CASE c = d /\ i \in DOMAIN s
      <4>1. log'[c][i] = log[d][i]
        BY <1>4, <3>2
      <4>2. QED BY <1>2, <2>2, <3>2, <4>1 DEF AloneInv, InstantsOK
    <3>3. CASE c # d
      <4>1. log'[c] = log[c]
        BY <1>4, <3>3
      <4>2. QED BY <2>2, <4>1 DEF AloneInv, InstantsOK
    <3>4. QED BY <1>6, <2>2, <3>1, <3>2, <3>3
  <2>3. ASSUME NEW c \in Days, NEW i \in DOMAIN log'[c], NEW j \in DOMAIN log'[c],
               log'[c][i].ts = log'[c][j].ts
        PROVE  i = j
    <3>1. CASE c # d
      <4>1. log'[c] = log[c]
        BY <1>4, <3>1
      <4>2. QED BY <2>3, <4>1 DEF AloneInv, InstantsOK
    <3>2. CASE c = d
      <4>1. \A m, k \in DOMAIN s : s[m].ts = s[k].ts => m = k
        BY <1>2 DEF AloneInv, InstantsOK
      <4>2. /\ i = Len(s) + 1 \/ i \in DOMAIN s
            /\ j = Len(s) + 1 \/ j \in DOMAIN s
        BY <1>6, <2>3, <3>2
      <4>3. /\ \A m \in DOMAIN s : log'[c][m].ts = s[m].ts
            /\ log'[c][Len(s) + 1].ts = e.ts
        BY <1>4, <3>2
      <4>4. QED BY <1>5, <2>3, <4>1, <4>2, <4>3
    <3>3. QED BY <3>1, <3>2
  <2>4. QED BY <2>1, <2>2, <2>3 DEF InstantsOK
<1>8. TotalsKept'
  BY <1>3 DEF AloneInv, TotalsKept
<1>9. ASSUME NEW c \in rows', StateOf(log'[c]) = "ENDED"
      PROVE  minutes'[c] = CalculateDuration(log'[c])
  <2>1. c \in Days /\ DOMAIN minutes = Days
    BY <1>1, <1>9 DEF TypeOK, AloneInv, TotalsKept
  <2>2. CASE c # d
    BY <1>3, <1>4, <1>9, <2>1, <2>2 DEF AloneInv, EndedHasTotal
  <2>3. CASE c = d /\ (IsTap(r, "END") \/ req[r].by = "manual")
    <3>1. ~IsTap(r, "START")
      BY <2>3 DEF IsTap
    <3>2. minutes'[d] = total[r]
      BY <1>2, <1>3, <1>5, <2>1, <2>3 DEF ChangesMinutes
    <3>3. QED BY <1>4, <1>5, <2>3, <3>1, <3>2
  \* A tap that is no END leaves no day ended: the day was not, and the latest
  \* session is the tap or was there before.
  <2>4. CASE c = d /\ ~(IsTap(r, "END") \/ req[r].by = "manual")
    <3>1. req[r].by = "tap" /\ req[r].type # "END"
      BY <1>2, <2>4 DEF IsTap
    <3>2. StateForType[e.type] # "ENDED" /\ StateOf(s) # "ENDED"
      BY <1>2, <1>5, <3>1 DEF SessionTypes, StateForType, AllowedFrom
    <3>3. StateOf(Append(s, e)) \in {StateForType[e.type], StateOf(s)}
      <4>1. CASE \A i \in DOMAIN s : s[i].ts < e.ts
        BY <1>2, <4>1, StateOfLater
      <4>2. CASE \E i \in DOMAIN s : ~(s[i].ts < e.ts)
        <5>1. \A i, j \in DOMAIN s : s[i].ts = s[j].ts => i = j
          BY <1>2 DEF AloneInv, InstantsOK
        <5> HIDE DEF s, e
        <5>2. QED BY <1>2, <1>5, <4>2, <5>1, StateOfEarlier
      <4>3. QED BY <4>1, <4>2
    <3>4. QED BY <1>4, <1>9, <2>4, <3>2, <3>3
  <2>5. QED BY <2>2, <2>3, <2>4
<1>10. \A q \in Requests : KnowsDay(q)'
  <2> TAKE q \in Requests
  <2>1. q = r /\ pc'[r] = "answer"
    BY <1>1, <1>3 DEF OneAtATime, TypeOK
  <2>2. QED BY <2>1 DEF KnowsDay, Writing
<1>11. QED BY <1>7, <1>8, <1>9, <1>10 DEF AloneInv, EndedHasTotal

\* Every other step too: while the only request runs nobody else commits.
LEMMA NextAlone ==
  ASSUME OneAtATime, AloneInv, [Next]_vars
  PROVE  AloneInv'
<1> USE DEF Goto, Finish, work, db, time, budget
<1>1. IInv' /\ TypeOK' /\ TypeOK
  BY NextIInv DEF AloneInv, IInv
<1>2. \A r, q \in Requests : q = r
  BY DEF OneAtATime
<1>3. \A r \in Requests :
        /\ req[r] \in RequestRecord /\ req[r].day \in Days
        /\ log[req[r].day] \in Seq(Session) /\ Own(r) \in Session
        /\ KnowsDay(r) /\ CheckedOK(r)
  <2> TAKE r \in Requests
  <2>1. req[r] \in RequestRecord
    BY <1>1 DEF TypeOK
  <2>2. req[r].day \in Days /\ log[req[r].day] \in Seq(Session)
    BY <1>1, <2>1 DEF TypeOK, RequestRecord
  <2>3. QED BY <1>1, <2>1, <2>2, OwnType DEF AloneInv, IInv, InFlightOK
\* A step that commits nothing has only the request's knowledge to keep.
<1>4. ASSUME NEW r \in Requests, UNCHANGED <<clock, rows, log, minutes>>, TotalsKept',
             KnowsDay(r)'
      PROVE  AloneInv'
  <2>1. InstantsOK' /\ EndedHasTotal'
    BY <1>4 DEF AloneInv, InstantsOK, EndedHasTotal
  <2>2. QED BY <1>1, <1>2, <1>4, <2>1 DEF AloneInv
<1>5. CASE UNCHANGED <<clock, db, pc, req, loaded, total>>
  <2>1. InstantsOK' /\ EndedHasTotal' /\ TotalsKept'
    BY <1>5 DEF AloneInv, InstantsOK, EndedHasTotal, TotalsKept
  <2>2. \A r \in Requests : KnowsDay(r)'
    BY <1>3, <1>5 DEF KnowsDay, Own, IsTap
  <2>3. QED BY <1>1, <2>1, <2>2 DEF AloneInv
<1>6. ASSUME NEW r \in Requests, NEW type \in SessionTypes, Tap(r, type) PROVE AloneInv'
  <2>1. /\ pc' = [pc EXCEPT ![r] = "check"] /\ UNCHANGED <<clock, rows, log, minutes, total>>
        /\ loaded' = [loaded EXCEPT ![r] = minutes[today]]
        /\ req' = [req EXCEPT ![r] = [by |-> "tap", type |-> type, day |-> today,
             hadRow |-> today \in rows, view |-> log[today], ts |-> 0]]
    BY <1>6 DEF Tap
  <2>2. TotalsKept' /\ loaded'[r] = minutes[today]
    BY <2>1 DEF AloneInv, TotalsKept
  <2>3. /\ pc'[r] = "check" /\ req'[r].day = today
        /\ req'[r].hadRow = (today \in rows) /\ req'[r].view = log[today]
    BY <1>1, <2>1 DEF TypeOK
  <2>4. KnowsDay(r)'
    BY <2>1, <2>2, <2>3 DEF KnowsDay, Writing
  <2>5. QED BY <1>4, <2>1, <2>2, <2>4
<1>7. ASSUME NEW r \in Requests, NEW d \in Days, NEW type \in SessionTypes,
             NEW ts \in ManualInstants, Manual(r, d, type, ts)
      PROVE  AloneInv'
  <2>1. /\ pc' = [pc EXCEPT ![r] = "insert"] /\ UNCHANGED <<clock, rows, log, minutes, total>>
        /\ loaded' = [loaded EXCEPT ![r] = minutes[d]]
        /\ req' = [req EXCEPT ![r] = [by |-> "manual", type |-> type, day |-> d,
             hadRow |-> TRUE, view |-> <<>>, ts |-> ts]]
        /\ ~Used(ts)
    BY <1>7 DEF Manual
  <2>2. TotalsKept' /\ loaded'[r] = minutes[d]
    BY <2>1 DEF AloneInv, TotalsKept
  <2>3. /\ pc'[r] = "insert" /\ req'[r].day = d /\ req'[r].by = "manual" /\ req'[r].ts = ts
    BY <1>1, <2>1 DEF TypeOK
  <2>4. \A i \in DOMAIN log[d] : log[d][i].ts # ts
    BY <2>1 DEF Used
  <2>5. KnowsDay(r)'
    BY <2>1, <2>2, <2>3, <2>4 DEF KnowsDay, Writing
  <2>6. QED BY <1>4, <2>1, <2>2, <2>5
<1>8. ASSUME NEW r \in Requests, Accept(r) PROVE AloneInv'
  <2> DEFINE d == req[r].day
  <2>1. /\ pc[r] = "check" /\ Permitted(r) /\ UNCHANGED <<rows, log, minutes, loaded, total>>
        /\ clock' = clock + 2
        /\ pc' = [pc EXCEPT ![r] = "insert"]
        /\ req' = [req EXCEPT ![r] = [req[r] EXCEPT !.ts = clock + 2]]
    BY <1>8 DEF Accept
  <2>2. /\ pc'[r] = "insert" /\ req'[r].by = req[r].by /\ req'[r].type = req[r].type
        /\ req'[r].day = d /\ req'[r].ts = clock'
    BY <1>1, <1>3, <2>1 DEF TypeOK, RequestRecord
  <2>3. PICK n \in Nat : clock = 2 * n
    BY DEF AloneInv, InstantsOK
  <2>4. InstantsOK' /\ EndedHasTotal' /\ TotalsKept'
    <3>1. clock' = 2 * (n + 1) /\ n + 1 \in Nat
      BY <2>1, <2>3
    <3>2. \E m \in Nat : clock' = 2 * m
      BY <3>1
    <3>3. QED BY <2>1, <3>2 DEF AloneInv, InstantsOK, EndedHasTotal, TotalsKept
  <2>5. StateOf(log[d]) \in AllowedFrom[req[r].type]
    <3>1. CASE d \in rows
      BY <1>3, <2>1, <3>1 DEF KnowsDay, Permitted, SeenState
    <3>2. CASE d \notin rows
      <4>1. log[d] = <<>> /\ req[r].type = "START"
        BY <1>3, <2>1, <3>2 DEF KnowsDay, Permitted, AloneInv, IInv, StartOpensDay
      <4>2. QED BY <4>1 DEF StateOf, AllowedFrom
    <3>3. QED BY <3>1, <3>2
  <2>6. ASSUME NEW i \in DOMAIN log[d] PROVE log[d][i].ts # clock'
    <3>1. log[d][i] \in Session
      BY <1>3
    <3>2. log[d][i].ts \in Nat /\ log[d][i].by \in {"tap", "manual"}
      BY <3>1 DEF Session
    <3>3. CASE log[d][i].by = "tap"
      <4>1. i \in Taps(d)
        BY <3>3 DEF Taps
      <4>2. log[d][i].ts <= clock
        BY <1>3, <4>1 DEF AloneInv, IInv, InFlightOK, TapsNotLater
      <4>3. QED BY <2>1, <2>3, <3>2, <4>2
    <3>4. CASE log[d][i].by = "manual"
      <4>1. log[d][i].ts \in ManualInstants
        BY <1>3, <3>4 DEF AloneInv, InstantsOK
      <4>2. PICK m \in 0 .. MaxTaps : log[d][i].ts = 2 * m + 1
        BY <4>1 DEF ManualInstants
      <4>3. QED BY <2>1, <2>3, <4>2, BoundsAssumption
    <3>5. QED BY <3>2, <3>3, <3>4
  <2>7. KnowsDay(r)'
    <3>1. req'[r].by = "tap"
      BY <1>3, <2>1, <2>2 DEF CheckedOK
    <3>2. loaded'[r] = minutes'[d]
      BY <1>3, <2>1 DEF KnowsDay
    <3>3. QED BY <2>1, <2>2, <2>5, <2>6, <3>1, <3>2 DEF KnowsDay, Writing
  <2>8. QED BY <1>1, <1>2, <2>4, <2>7 DEF AloneInv
<1>9. ASSUME NEW r \in Requests, InsertRow(r) PROVE AloneInv'
  <2> DEFINE d == req[r].day
  <2>1. /\ pc[r] = "insert" /\ IsTap(r, "START") /\ d \notin rows
        /\ UNCHANGED <<clock, rows, log, minutes, loaded, total>>
        /\ req' = [req EXCEPT ![r] = [req[r] EXCEPT !.view = <<Own(r)>>]]
        /\ pc' = [pc EXCEPT ![r] = "hset"]
    BY <1>9 DEF InsertRow
  <2>2. /\ pc'[r] = "hset" /\ req'[r].by = req[r].by /\ req'[r].type = req[r].type
        /\ req'[r].day = d /\ req'[r].ts = req[r].ts /\ req'[r].view = <<Own(r)>>
    BY <1>1, <1>3, <2>1 DEF TypeOK, RequestRecord
  <2>3. log[d] = <<>> /\ <<Own(r)>> = Append(<<>>, Own(r))
    BY <1>3, <2>1 DEF AloneInv, IInv, StartOpensDay
  <2>4. TotalsKept'
    BY <2>1 DEF AloneInv, TotalsKept
  <2>5. KnowsDay(r)'
    <3>1. Own(r)' = Own(r) /\ IsTap(r, "START")' /\ Own(r).ts = req[r].ts
      BY <2>1, <2>2 DEF Own, IsTap
    <3>2. req'[r].view = Append(log'[d], Own(r)')
      BY <2>1, <2>2, <2>3, <3>1
    <3>3. /\ loaded'[r] = minutes'[d] /\ req'[r].by = "tap" /\ req'[r].ts = clock'
          /\ StateOf(log'[d]) \in AllowedFrom[req'[r].type]
          /\ \A i \in DOMAIN log'[d] : log'[d][i].ts # req'[r].ts
      BY <1>3, <2>1, <2>2 DEF KnowsDay, Writing, IsTap
    <3>4. QED BY <2>2, <3>1, <3>2, <3>3 DEF KnowsDay, Writing
  <2>6. QED BY <1>4, <2>1, <2>4, <2>5
<1>10. ASSUME NEW r \in Requests, AppendSession(r) PROVE AloneInv'
  <2> DEFINE d == req[r].day
             view == Append(log[d], Own(r))
  <2>1. /\ pc[r] = "insert" /\ ~IsTap(r, "START")
        /\ UNCHANGED <<clock, rows, log, minutes, loaded>>
        /\ req' = [req EXCEPT ![r] = [req[r] EXCEPT !.view = view]]
        /\ total' = [total EXCEPT ![r] = CalculateDuration(view)]
        /\ pc'[r] \in {"rollup", "hset"}
    BY <1>1, <1>10 DEF AppendSession, TypeOK
  <2>2. /\ req'[r].by = req[r].by /\ req'[r].type = req[r].type
        /\ req'[r].day = d /\ req'[r].ts = req[r].ts /\ req'[r].view = view
    <3> HIDE DEF view
    <3> QED BY <1>1, <1>3, <2>1 DEF TypeOK, RequestRecord
  <2>3. TotalsKept' /\ total'[r] = CalculateDuration(view)
    <3> HIDE DEF view
    <3> QED BY <2>1 DEF AloneInv, TotalsKept
  <2>4. KnowsDay(r)'
    <3> HIDE DEF view
    <3>1. Own(r)' = Own(r)
      BY <2>2 DEF Own
    <3>2. view = Append(log'[d], Own(r)')
      BY <2>1, <3>1 DEF view
    <3>3. /\ loaded'[r] = minutes'[d]
          /\ req'[r].by = "tap" =>
               StateOf(log'[d]) \in AllowedFrom[req'[r].type] /\ req'[r].ts = clock'
          /\ req'[r].by = "manual" => req'[r].ts \in ManualInstants
          /\ \A i \in DOMAIN log'[d] : log'[d][i].ts # req'[r].ts
      <4>1. /\ loaded[r] = minutes[d]
            /\ req[r].by = "tap" =>
                 StateOf(log[d]) \in AllowedFrom[req[r].type] /\ req[r].ts = clock
            /\ req[r].by = "manual" => req[r].ts \in ManualInstants
            /\ \A i \in DOMAIN log[d] : log[d][i].ts # req[r].ts
        BY <1>3, <2>1 DEF KnowsDay, Writing
      <4>2. /\ loaded' = loaded /\ minutes' = minutes /\ log' = log /\ clock' = clock
            /\ req'[r].by = req[r].by /\ req'[r].type = req[r].type /\ req'[r].ts = req[r].ts
        BY <2>1, <2>2
      <4>3. QED BY <4>1, <4>2
    <3>4. QED BY <2>1, <2>2, <2>3, <3>2, <3>3 DEF KnowsDay, Writing
  <2>5. QED BY <1>4, <2>1, <2>3, <2>4
<1>11. ASSUME NEW r \in Requests, UpdateRollup(r) \/ HsetState(r) \/ SetExpiry(r)
       PROVE  AloneInv'
  <2>1. /\ pc[r] \in Writing \ {"insert"} /\ pc'[r] \in Writing \ {"insert"}
        /\ UNCHANGED <<clock, rows, log, minutes, req, loaded, total>>
    BY <1>1, <1>11 DEF UpdateRollup, HsetState, SetExpiry, TypeOK, Writing
  <2>2. TotalsKept'
    BY <2>1 DEF AloneInv, TotalsKept
  <2>3. KnowsDay(r)'
    BY <1>3, <2>1 DEF KnowsDay, Writing, Own, IsTap
  <2>4. QED BY <1>4, <2>1, <2>2, <2>3
<1>12. ASSUME NEW r \in Requests, Commit(r) PROVE AloneInv'
  BY <1>1, <1>12, CommitKeepsAlone
<1>13. ASSUME NEW r \in Requests, Reject(r) \/ LoseStartRace(r) \/ Answer(r) \/ Fail(r)
       PROVE  AloneInv'
  <2>1. pc'[r] = "idle" /\ UNCHANGED <<clock, rows, log, minutes, loaded, total>>
    BY <1>1, <1>13 DEF Reject, LoseStartRace, Answer, Fail, TypeOK
  <2>2. TotalsKept' /\ KnowsDay(r)'
    BY <2>1 DEF AloneInv, TotalsKept, KnowsDay, Writing
  <2>3. QED BY <1>4, <2>1, <2>2
<1>14. CASE Midnight \/ Evict \/ UNCHANGED vars
  BY <1>5, <1>14 DEF Midnight, Evict, vars
<1>15. QED
  BY <1>6, <1>7, <1>8, <1>9, <1>10, <1>11, <1>12, <1>13, <1>14 DEF Next, Step, Receive

\* One request at a time, the total of an ended day is the worked time of its
\* sessions, corrections made after the END included, whatever fails at any await
\* (attendance_service.py:190-194 and 409-410).
THEOREM TotalsFollowTheLog ==
  ASSUME OneAtATime
  PROVE  Spec => []RollupMatchesLog
<1>1. AloneInv /\ [Next]_vars => AloneInv'
  BY NextAlone
<1>2. AloneInv => RollupMatchesLog
  BY DEF AloneInv, EndedHasTotal, RollupMatchesLog
<1>3. QED BY <1>1, <1>2, InitAlone, PTL DEF Spec
-----------------------------------------------------------------------------
(***************************************************************************)
(* One request at a time and no failure: every commit is preceded by the   *)
(* HSET of the state it commits.                                           *)
(***************************************************************************)

\* No HSET is ahead of its commit.
Settled == \A r \in Requests : pc[r] \in {"idle", "check", "answer"}

Mirrored ==
  /\ cache.state # "NULL"
  /\ \A i \in DOMAIN log[cache.day] : log[cache.day][i].ts <= clock
  => cache.state = StateOf(log[cache.day])

\* The key, if it is still there, is what the request has put there.
CachedOwn(r) ==
  pc[r] \in {"expire", "commit"} /\ cache.state # "NULL" =>
    cache.state = StateToCache(r) /\ cache.day = req[r].day

CacheInv ==
  /\ AloneInv
  /\ Settled => Mirrored
  /\ \A r \in Requests : CachedOwn(r)

\* What the request has cached is the state its commit makes: a tap is the
\* latest session unless a correction is dated after it.
LEMMA CommitMirrors ==
  ASSUME CacheInv, NEW r \in Requests, Commit(r)
  PROVE  Mirrored'
<1> DEFINE d == req[r].day
           s == log[d]
           e == Own(r)
<1>1. TypeOK /\ KnowsDay(r) /\ CachedOwn(r)
  BY DEF CacheInv, AloneInv, IInv
<1>2. /\ d \in Days /\ s \in Seq(Session) /\ e \in Session /\ req[r].by \in {"tap", "manual"}
      /\ e.type = req[r].type /\ e.ts = req[r].ts
  <2>1. req[r] \in RequestRecord /\ e \in Session
    BY <1>1, OwnType DEF TypeOK
  <2>2. d \in Days /\ req[r].by \in {"tap", "manual"}
    BY <2>1 DEF RequestRecord
  <2>3. s \in Seq(Session)
    BY <1>1, <2>2 DEF TypeOK
  <2>4. QED BY <2>1, <2>2, <2>3 DEF Own
<1>3. pc[r] = "commit" /\ cache' = cache /\ clock' = clock /\ log'[d] = Append(s, e)
  BY <1>1, <1>2 DEF Commit, TypeOK, time
<1>4. /\ \A i \in DOMAIN s : s[i].ts # e.ts
      /\ req[r].by = "tap" => e.ts = clock
      /\ req[r].view = Append(s, e)
  BY <1>1, <1>2, <1>3 DEF KnowsDay, Writing
<1> SUFFICES ASSUME cache.state # "NULL",
                    \A i \in DOMAIN log'[cache.day] : log'[cache.day][i].ts <= clock
             PROVE  cache.state = StateOf(log'[cache.day])
  BY <1>3 DEF Mirrored
<1>5. cache.state = StateToCache(r) /\ cache.day = d
  BY <1>1, <1>3 DEF CachedOwn
<1>6. CASE req[r].by = "manual"
  BY <1>3, <1>4, <1>5, <1>6 DEF StateToCache, NewState
<1>7. CASE req[r].by = "tap"
  <2>1. ASSUME NEW i \in DOMAIN s PROVE s[i].ts < e.ts
    <3>1. i \in DOMAIN Append(s, e) /\ Append(s, e)[i] = s[i]
      BY <1>2, AppendProperties, LenProperties
    <3>2. s[i].ts <= clock
      BY <1>3, <1>5, <3>1
    <3>3. s[i] \in Session
      BY <1>2
    <3>4. s[i].ts \in Nat /\ clock \in Nat
      <4>1. s[i].ts \in Nat
        BY <3>3 DEF Session
      <4>2. QED BY <1>1, <4>1 DEF TypeOK
    <3>5. QED BY <1>4, <1>7, <3>2, <3>4
  <2>2. StateOf(Append(s, e)) = StateForType[e.type]
    <3> HIDE DEF s, e
    <3> QED BY <1>2, <2>1, StateOfLater
  <2>3. QED BY <1>2, <1>3, <1>5, <1>7, <2>2 DEF StateToCache
<1>8. QED BY <1>2, <1>6, <1>7

\* Initially there is no key.
LEMMA InitCache == Init => CacheInv
<1> SUFFICES ASSUME Init PROVE CacheInv
  OBVIOUS
<1>1. Mirrored /\ \A r \in Requests : CachedOwn(r)
  BY DEF Init, NoKey, Mirrored, CachedOwn
<1>2. QED BY <1>1, InitAlone DEF CacheInv

\* Every step keeps the cache in step with the rows.
LEMMA NextCache ==
  ASSUME OneAtATime, MaxFailures = 0, CacheInv, [Next]_vars
  PROVE  CacheInv'
<1> USE DEF Goto, Finish, work, db, time, budget
<1>1. /\ AloneInv /\ AloneInv' /\ TypeOK /\ TypeOK'
      /\ \A r \in Requests : KnowsDay(r) /\ CachedOwn(r)
  <2>1. AloneInv'
    BY NextAlone DEF CacheInv
  <2>2. QED BY <2>1 DEF CacheInv, AloneInv, IInv
<1>2. \A r, q \in Requests : q = r
  BY DEF OneAtATime
\* A step between awaits that leaves the cache, the sessions and the clock alone.
<1>3. ASSUME NEW r \in Requests, UNCHANGED <<cache, log, clock>>,
             pc[r] \in {"idle", "check", "answer"}, pc'[r] \notin {"expire", "commit"}
      PROVE  CacheInv'
  <2>1. Settled
    BY <1>2, <1>3 DEF Settled
  <2>2. Mirrored'
    BY <1>3, <2>1 DEF CacheInv, Mirrored
  <2>3. CachedOwn(r)'
    BY <1>3 DEF CachedOwn
  <2>4. QED BY <1>1, <1>2, <2>2, <2>3 DEF CacheInv
\* A request that has its HSET before it promises nothing.
<1>4. ASSUME NEW r \in Requests, pc'[r] \in {"insert", "rollup", "hset"}
      PROVE  CacheInv'
  <2>1. ~Settled'
    BY <1>4 DEF Settled
  <2>2. CachedOwn(r)'
    BY <1>4 DEF CachedOwn
  <2>3. QED BY <1>1, <1>2, <2>1, <2>2 DEF CacheInv
<1>5. CASE UNCHANGED <<log, clock, pc, req>> /\ cache' \in {cache, NoKey}
  <2>1. CASE cache' = NoKey
    <3>1. Mirrored' /\ \A r \in Requests : CachedOwn(r)'
      BY <2>1 DEF Mirrored, CachedOwn, NoKey
    <3>2. QED BY <1>1, <3>1 DEF CacheInv
  <2>2. CASE cache' = cache
    <3>1. Settled' => Mirrored'
      BY <1>5, <2>2 DEF CacheInv, Settled, Mirrored
    <3>2. \A r \in Requests : CachedOwn(r)'
      BY <1>1, <1>5, <2>2 DEF CachedOwn, StateToCache, NewState
    <3>3. QED BY <1>1, <3>1, <3>2 DEF CacheInv
  <2>3. QED BY <1>5, <2>1, <2>2
<1>6. ASSUME NEW r \in Requests, NEW type \in SessionTypes, Tap(r, type) PROVE CacheInv'
  <2>1. pc[r] = "idle" /\ pc'[r] = "check" /\ UNCHANGED <<cache, log, clock>>
    BY <1>1, <1>6 DEF Tap, TypeOK
  <2>2. QED BY <1>3, <2>1
<1>7. ASSUME NEW r \in Requests, NEW d \in Days, NEW type \in SessionTypes,
             NEW ts \in ManualInstants, Manual(r, d, type, ts)
      PROVE  CacheInv'
  <2>1. pc'[r] = "insert"
    BY <1>1, <1>7 DEF Manual, TypeOK
  <2>2. QED BY <1>4, <2>1
<1>8. ASSUME NEW r \in Requests, Reject(r) \/ Answer(r) PROVE CacheInv'
  <2>1. /\ pc[r] \in {"check", "answer"} /\ pc'[r] = "idle"
        /\ UNCHANGED <<cache, log, clock>>
    BY <1>1, <1>8 DEF Reject, Answer, TypeOK
  <2>2. QED BY <1>3, <2>1
<1>9. ASSUME NEW r \in Requests,
             Accept(r) \/ InsertRow(r) \/ AppendSession(r) \/ UpdateRollup(r)
      PROVE  CacheInv'
  <2>1. pc'[r] \in {"insert", "rollup", "hset"}
    BY <1>1, <1>9 DEF Accept, InsertRow, AppendSession, UpdateRollup, TypeOK
  <2>2. QED BY <1>4, <2>1
\* The day a START was allowed for has no row, and nobody has opened it since.
<1>10. ASSUME NEW r \in Requests, LoseStartRace(r) PROVE FALSE
  <2> DEFINE d == req[r].day
  <2>1. pc[r] = "insert" /\ req[r].by = "tap" /\ req[r].type = "START" /\ d \in rows
    BY <1>10 DEF LoseStartRace, IsTap
  <2>2. StateOf(log[d]) = "NULL"
    BY <1>1, <2>1 DEF KnowsDay, Writing, AllowedFrom
  <2>3. d \in Days /\ log[d] \in Seq(Session)
    BY <1>1, <2>1 DEF TypeOK
  <2>4. log[d] # <<>>
    BY <1>1, <2>1, <2>3 DEF AloneInv, IInv, StartOpensDay, Taps
  <2>5. QED BY <2>2, <2>3, <2>4, StateOfBegun
<1>11. ASSUME NEW r \in Requests, Fail(r) PROVE FALSE
  BY <1>1, <1>11 DEF Fail, TypeOK
<1>12. ASSUME NEW r \in Requests, HsetState(r) PROVE CacheInv'
  <2>1. /\ pc'[r] = "expire" /\ req' = req
        /\ cache'.state = StateToCache(r) /\ cache'.day = req[r].day
    BY <1>1, <1>12 DEF HsetState, TypeOK
  <2>2. ~Settled' /\ StateToCache(r)' = StateToCache(r)
    BY <2>1 DEF Settled, StateToCache, NewState
  <2>3. CachedOwn(r)'
    BY <2>1, <2>2 DEF CachedOwn
  <2>4. QED BY <1>1, <1>2, <2>2, <2>3 DEF CacheInv
<1>13. ASSUME NEW r \in Requests, SetExpiry(r) PROVE CacheInv'
  <2>1. /\ pc[r] = "expire" /\ pc'[r] = "commit" /\ req' = req
        /\ cache'.state = cache.state /\ cache'.day = cache.day
    BY <1>1, <1>13 DEF SetExpiry, TypeOK
  <2>2. ~Settled' /\ StateToCache(r)' = StateToCache(r)
    BY <2>1 DEF Settled, StateToCache, NewState
  <2>3. CachedOwn(r)'
    BY <1>1, <2>1, <2>2 DEF CachedOwn
  <2>4. QED BY <1>1, <1>2, <2>2, <2>3 DEF CacheInv
<1>14. ASSUME NEW r \in Requests, Commit(r) PROVE CacheInv'
  <2>1. pc'[r] = "answer"
    BY <1>1, <1>14 DEF Commit, TypeOK
  <2>2. CachedOwn(r)'
    BY <2>1 DEF CachedOwn
  <2>3. QED BY <1>1, <1>2, <1>14, <2>2, CommitMirrors DEF CacheInv
<1>15. CASE Midnight \/ Evict \/ UNCHANGED vars
  BY <1>5, <1>15 DEF Midnight, Evict, vars
<1>16. QED
  BY <1>6, <1>7, <1>8, <1>9, <1>10, <1>11, <1>12, <1>13, <1>14, <1>15
  DEF Next, Step, Receive

\* Without a failure and one request at a time the cached state is the state of
\* the row it names, whatever is evicted or expires and whatever corrections are
\* made, those dated after the last tap apart (attendance_service.py:11-13).
THEOREM CacheFollowsSessions ==
  ASSUME OneAtATime, MaxFailures = 0
  PROVE  Spec => []CacheMirrorsSessions
<1>1. CacheInv /\ [Next]_vars => CacheInv'
  BY NextCache
<1>2. CacheInv => CacheMirrorsSessions
  BY DEF CacheInv, Settled, Mirrored, CacheMirrorsSessions, Quiet
<1>3. QED BY <1>1, <1>2, InitCache, PTL DEF Spec
=============================================================================
