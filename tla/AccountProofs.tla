---------------------------- MODULE AccountProofs ----------------------------
(***************************************************************************)
(* Accounts: what ends a session ends it, and a device is signed out for a *)
(* cause, for any number of devices, handlers, tokens and rare events; and *)
(* teams and their members, for any number of them.                        *)
(***************************************************************************)
EXTENDS Sessions, Staff, TLAPS
-----------------------------------------------------------------------------
(* Sessions.  The invariant that is inductive says of the pairs in the     *)
(* hands of refreshes between their check and their SET what the property  *)
(* says of the current one: such a refresh may bring back a login that was *)
(* closed, but only one closed while a refresh of it was under way.        *)

ServerOK ==
  /\ active \in BOOLEAN /\ code \in BOOLEAN /\ attempts \in Nat
  /\ issued \in 0 .. MaxTokens /\ fp \in 0 .. issued /\ blocked \subseteq 1 .. issued
LineageOK ==
  /\ lineage \in [1 .. MaxTokens -> 0 .. issued]
  /\ \A n \in 1 .. issued : lineage[n] \in 1 .. n
HandlerOK ==
  /\ step \in [Requests -> Steps] /\ ask \in [Requests -> Purposes]
  /\ by \in [Requests -> Devices \cup {NoDevice}]
  /\ tok \in [Requests -> 0 .. issued] /\ got \in [Requests -> 0 .. issued]
DeviceOK ==
  /\ held \in [Devices -> 0 .. issued] /\ home \in [Devices -> BOOLEAN]
  /\ refreshing \in [Devices -> 0 .. issued]
  /\ waiting \in [Devices -> SUBSET {"login", "replay"}]
HistoryOK == /\ rare \in Nat /\ closed \subseteq 1 .. issued /\ raced \subseteq closed
             /\ hung \subseteq Devices

\* A refresh has been sent a pair, a logout too; past the login screen there is one.
Sent ==
  /\ \A r \in Requests : step[r] \in {"check", "user", "rotate", "unlog"} => tok[r] # 0
  /\ \A d \in Devices : home[d] => held[d] # 0

\* A refresh past its check holds a pair of a login that is open or raced.
Raced(pair) == lineage[pair] \in closed => lineage[pair] \in raced
Flying(r) == step[r] \in {"user", "rotate"}
Guarded == \A r \in Requests : Flying(r) => Raced(tok[r])

TypeParts == ServerOK /\ LineageOK /\ HandlerOK /\ DeviceOK /\ HistoryOK
SessionInv == TypeParts /\ Sent /\ Guarded /\ EndedStaysEnded

\* The parts are the type invariant of the module.
LEMMA TypePartsAreAll == TypeParts <=> SessionsTypeOK
  BY DEF TypeParts, SessionsTypeOK, ServerOK, LineageOK, HandlerOK, DeviceOK, HistoryOK
-----------------------------------------------------------------------------
\* How a step treats the key: it leaves it alone, deletes it, or stores a pair.
LeavesKey ==
  /\ UNCHANGED <<fp, issued, lineage, closed, raced>>
  /\ \A q \in Requests : Flying(q)' =>
       tok'[q] = tok[q] /\ (Flying(q) \/ (step[q] = "check" /\ fp = tok[q]))
DeletesKey ==
  /\ DeleteKey /\ UNCHANGED <<issued, lineage>>
  /\ \A q \in Requests : Flying(q)' => Flying(q) /\ tok'[q] = tok[q]
StoresKey ==
  \E r \in Requests, l \in 1 .. issued + 1 :
    /\ StorePair(r, l) /\ tok' = tok
    /\ l = issued + 1 \/ (Flying(r) /\ l = lineage[tok[r]])

\* A request that a device sends leaves the key alone.
LEMMA AskCases ==
  ASSUME TypeParts, NEW r \in Requests, NEW d \in Devices, Ask(r, d) PROVE LeavesKey
<1> USE DEF TypeParts, HandlerOK, LeavesKey, Flying, Send, Go, server, history
<1>1. CASE TapLogin(r, d)
  BY <1>1 DEF TapLogin
<1>2. CASE TapLogout(r, d)
  BY <1>2 DEF TapLogout
<1>3. CASE Refresh(r, d)
  BY <1>3 DEF Refresh
<1> QED BY <1>1, <1>2, <1>3 DEF Ask

\* So does an answer, and the loss of one.
LEMMA AnswerCases ==
  ASSUME TypeParts, NEW r \in Requests, NEW d \in Devices, Deliver(r, d)
  PROVE LeavesKey
<1> USE DEF TypeParts, HandlerOK, LeavesKey, Flying, Abandon, Idle, Go, server, history
<1>1. CASE Answer(r, d)
  BY <1>1 DEF Answer
<1>2. CASE Lose(r, d)
  BY <1>2 DEF Lose
<1>3. CASE Hang(r, d)
  BY <1>3 DEF Hang
<1> QED BY <1>1, <1>2, <1>3 DEF Deliver

\* A step of a handler treats the key in one of the three ways.
LEMMA HandleCases ==
  ASSUME TypeParts, Sent, NEW r \in Requests, Handle(r) \/ SetStatus(r) \/ Reset(r)
  PROVE LeavesKey \/ DeletesKey \/ StoresKey
<1> USE DEF TypeParts, HandlerOK, Flying, Say, Go
<1>1. CASE Login(r) /\ ~active
  BY <1>1 DEF Login, LeavesKey, server, history, StorePair
<1>2. CASE Login(r) /\ active
  BY <1>2 DEF Login, StoresKey, ServerOK
<1>3. CASE Check(r) \/ LoadUser(r)
  BY <1>3 DEF Check, CheckPassed, LoadUser, LeavesKey, server, history
<1>4. CASE Revoke(r) \/ Deactivate(r) \/ EndByReset(r)
  BY <1>4 DEF Revoke, Deactivate, EndByReset, DeletesKey
<1>5. CASE Rotate(r)
  <2>1. tok[r] \in 1 .. issued
    BY <1>5 DEF Rotate, Sent, ServerOK
  <2>2. lineage[tok[r]] \in 1 .. issued + 1
    BY <2>1 DEF LineageOK, ServerOK
  <2> QED BY <1>5, <2>2 DEF Rotate, StoresKey
<1>6. CASE Logout(r) /\ tok[r] \in blocked
  BY <1>6 DEF Logout, DeletesKey
<1>7. CASE Logout(r) /\ tok[r] \notin blocked
  BY <1>7 DEF Logout, LeavesKey, history
<1>8. CASE CommitStatus(r) \/ Count(r) \/ DropCode(r)
  BY <1>8 DEF CommitStatus, Count, DropCode, LeavesKey, history
<1>9. CASE Done(r) \/ SetStatus(r) \/ Reset(r)
  BY <1>9 DEF Done, Idle, SetStatus, Reset, LeavesKey, server, history
<1> QED BY <1>1, <1>2, <1>3, <1>4, <1>5, <1>6, <1>7, <1>8, <1>9 DEF Handle

\* So does every step.
LEMMA KeyCases ==
  ASSUME TypeParts, Sent, [SessionsNext]_sessionVars PROVE LeavesKey \/ DeletesKey \/ StoresKey
<1>1. ASSUME NEW d \in Devices, Replay(d) PROVE LeavesKey
  BY <1>1 DEF Replay, LeavesKey, Flying, server, handler, history
<1>2. CASE Forgot
  BY <1>2 DEF Forgot, LeavesKey, Flying, handler, history
<1>3. CASE Evict
  BY <1>3 DEF Evict, DeletesKey, Flying, handler
<1>4. CASE UNCHANGED sessionVars
  BY <1>4 DEF LeavesKey, Flying, sessionVars, server, handler, history
<1> QED BY <1>1, <1>2, <1>3, <1>4, AskCases, AnswerCases, HandleCases DEF SessionsNext
-----------------------------------------------------------------------------
\* A write of the key closes at most the login it was about, and a refresh of
\* that login that is under way marks it as raced.
LEMMA RecordCloses ==
  ASSUME TypeParts, NEW l, Record(l)
  PROVE  /\ closed \subseteq closed' /\ raced \subseteq raced'
         /\ closed' \subseteq closed \cup ({lineage[fp]} \ {l})
         /\ \A q \in Requests : Flying(q) /\ lineage[tok[q]] \in closed' \ closed
              => lineage[tok[q]] \in raced'
  BY DEF Record, Ends, InFlight, Flying

\* The pair of a refresh past its check was issued.
LEMMA FlyingIsIssued ==
  ASSUME TypeParts, Sent, NEW q \in Requests, Flying(q)
  PROVE  tok[q] \in 1 .. issued /\ lineage[tok[q]] \in 1 .. issued
<1>1. tok[q] \in 1 .. issued
  BY DEF TypeParts, ServerOK, HandlerOK, Sent, Flying
<1> QED BY <1>1 DEF TypeParts, ServerOK, LineageOK

\* Refreshes past their check stay guarded, and so does the key.
LEMMA GuardedStep ==
  ASSUME SessionInv, [SessionsNext]_sessionVars PROVE Guarded' /\ EndedStaysEnded'
<1> USE DEF SessionInv
<1>1. CASE LeavesKey
  <2>1. EndedStaysEnded'
    BY <1>1 DEF LeavesKey, EndedStaysEnded
  <2>2. ASSUME NEW q \in Requests, Flying(q)' PROVE Raced(tok[q])'
    <3>1. CASE Flying(q)
      BY <1>1, <2>2, <3>1 DEF LeavesKey, Guarded, Raced
    <3>2. CASE step[q] = "check" /\ fp = tok[q]
      <4>1. tok[q] # 0
        BY <3>2 DEF Sent
      <4> QED BY <1>1, <2>2, <3>2, <4>1 DEF LeavesKey, EndedStaysEnded, Raced
    <3> QED BY <1>1, <2>2, <3>1, <3>2 DEF LeavesKey
  <2> QED BY <2>1, <2>2 DEF Guarded
<1>2. CASE DeletesKey
  <2>1. fp' = 0 /\ Record(0) /\ lineage' = lineage
    BY <1>2 DEF DeletesKey, DeleteKey
  <2>2. EndedStaysEnded'
    BY <2>1 DEF EndedStaysEnded
  <2>3. ASSUME NEW q \in Requests, Flying(q)' PROVE Raced(tok[q])'
    <3>1. Flying(q) /\ tok'[q] = tok[q]
      BY <1>2, <2>3 DEF DeletesKey
    <3>2. Raced(tok[q])
      BY <3>1 DEF Guarded
    <3> QED BY <2>1, <3>1, <3>2, RecordCloses DEF Raced
  <2> QED BY <2>2, <2>3 DEF Guarded
<1>3. CASE StoresKey
  <2>1. PICK r \in Requests, l \in 1 .. issued + 1 :
          /\ StorePair(r, l) /\ tok' = tok
          /\ l = issued + 1 \/ (Flying(r) /\ l = lineage[tok[r]])
    BY <1>3 DEF StoresKey
  <2>2. /\ issued < MaxTokens /\ fp' = issued + 1 /\ Record(l)
        /\ lineage' = [lineage EXCEPT ![issued + 1] = l]
        /\ step' = [step EXCEPT ![r] = "answer"]
    BY <2>1 DEF StorePair, Say, Go
  <2>3. issued \in Nat /\ issued + 1 \in 1 .. MaxTokens
    BY <2>2, SessionsAssumption DEF TypeParts, ServerOK
  <2>4. lineage'[issued + 1] = l /\ \A n \in 1 .. issued : lineage'[n] = lineage[n]
    BY <2>2, <2>3 DEF TypeParts, LineageOK
  <2>5. l \in closed => l \in raced
    <3>1. CASE l = issued + 1
      BY <2>3, <3>1 DEF TypeParts, HistoryOK
    <3>2. CASE Flying(r) /\ l = lineage[tok[r]]
      BY <3>2 DEF Guarded, Raced
    <3> QED BY <2>1, <3>1, <3>2
  <2>6. EndedStaysEnded'
    BY <2>2, <2>4, <2>5, RecordCloses DEF EndedStaysEnded
  <2>7. ASSUME NEW q \in Requests, Flying(q)' PROVE Raced(tok[q])'
    <3>1. Flying(q) /\ tok'[q] = tok[q]
      BY <2>1, <2>2, <2>7 DEF Flying, TypeParts, HandlerOK
    <3>2. tok[q] \in 1 .. issued /\ Raced(tok[q])
      BY <3>1, FlyingIsIssued DEF Guarded
    <3> QED BY <2>2, <2>4, <3>1, <3>2, RecordCloses DEF Raced
  <2> QED BY <2>6, <2>7 DEF Guarded
<1> QED BY <1>1, <1>2, <1>3, KeyCases
-----------------------------------------------------------------------------
\* Types: the store of a pair, and the deletion of the key.
LEMMA StoreKeepsTypes ==
  ASSUME TypeParts, NEW r \in Requests, NEW l \in 1 .. issued + 1, StorePair(r, l),
         UNCHANGED <<active, blocked, code, attempts, ask, by, tok, device, rare>>
  PROVE  TypeParts'
<1> USE DEF TypeParts
<1>1. /\ issued < MaxTokens /\ issued' = issued + 1 /\ fp' = issued + 1 /\ issued \in Nat
      /\ lineage' = [lineage EXCEPT ![issued + 1] = l] /\ issued + 1 \in 1 .. MaxTokens
      /\ step' = [step EXCEPT ![r] = "answer"] /\ got' = [got EXCEPT ![r] = issued + 1]
  BY SessionsAssumption DEF StorePair, Say, Go, ServerOK
<1>2. 0 .. issued \subseteq 0 .. issued' /\ 1 .. issued \subseteq 1 .. issued'
  BY <1>1
<1>3. ServerOK'
  BY <1>1 DEF ServerOK
<1>4. LineageOK'
  <2>1. lineage' \in [1 .. MaxTokens -> 0 .. issued']
    BY <1>1, <1>2 DEF LineageOK
  <2>2. ASSUME NEW n \in 1 .. issued' PROVE lineage'[n] \in 1 .. n
    BY <1>1 DEF LineageOK
  <2> QED BY <2>1, <2>2 DEF LineageOK
<1>5. HandlerOK'
  BY <1>1, <1>2 DEF HandlerOK, Steps
<1>6. DeviceOK'
  BY <1>2 DEF DeviceOK, device
<1>7. HistoryOK'
  <2>1. Ends(l) \subseteq 1 .. issued
    BY DEF Ends, ServerOK, LineageOK
  <2> QED BY <1>2, <2>1 DEF HistoryOK, StorePair, Record
<1> QED BY <1>3, <1>4, <1>5, <1>6, <1>7

\* The login whose key is deleted was issued.
LEMMA DeleteKeepsTypes ==
  ASSUME TypeParts, DeleteKey, UNCHANGED <<issued, lineage>>
  PROVE  /\ LineageOK' /\ fp' \in 0 .. issued'
         /\ closed' \subseteq 1 .. issued' /\ raced' \subseteq closed' /\ hung' = hung
<1> USE DEF TypeParts
<1>6. hung' = hung
  BY DEF DeleteKey, Record
<1>1. Ends(0) \subseteq 1 .. issued
  BY DEF Ends, ServerOK, LineageOK
<1>2. fp' = 0 /\ closed' = closed \cup Ends(0) /\ raced' \subseteq raced \cup Ends(0)
  BY DEF DeleteKey, Record
<1>3. issued \in Nat /\ closed \subseteq 1 .. issued /\ raced \subseteq closed
  BY DEF ServerOK, HistoryOK
<1>4. closed' \subseteq 1 .. issued' /\ raced' \subseteq closed' /\ fp' \in 0 .. issued'
  <2>1. closed' \subseteq 1 .. issued
    BY <1>1, <1>2, <1>3, Zenon
  <2>2. raced' \subseteq closed'
    BY <1>2, <1>3, Zenon
  <2>3. fp' \in 0 .. issued
    BY <1>2, <1>3
  <2> QED BY <2>1, <2>2, <2>3
<1>5. LineageOK'
  BY DEF LineageOK
<1> QED BY <1>4, <1>5, <1>6

\* A step of a handler keeps the types.
LEMMA HandlerTypes ==
  ASSUME TypeParts, Sent, NEW r \in Requests, Handle(r) \/ SetStatus(r) \/ Reset(r)
  PROVE  TypeParts'
<1> USE DEF TypeParts
<1>1. CASE Login(r) /\ ~active
  <2>1. Say(r, 0) /\ UNCHANGED <<server, history, ask, by, tok, device, rare>>
    BY <1>1 DEF Login
  <2> QED BY <2>1 DEF Say, Go, Steps, ServerOK, LineageOK, HandlerOK, DeviceOK, HistoryOK, server, history, device
<1>2. CASE Login(r) /\ active
  <2>1. /\ StorePair(r, issued + 1)
        /\ UNCHANGED <<active, blocked, code, attempts, ask, by, tok, device, rare>>
    BY <1>2 DEF Login
  <2>2. issued + 1 \in 1 .. issued + 1
    BY DEF ServerOK
  <2> HIDE DEF TypeParts
  <2> QED BY <2>1, <2>2, StoreKeepsTypes
<1>3. CASE Check(r) \/ LoadUser(r)
  <2>1. UNCHANGED <<server, ask, by, tok, device, rare, history>>
    BY <1>3 DEF Check, LoadUser
  <2>2. step' \in [Requests -> Steps] /\ got' \in [Requests -> 0 .. issued]
    BY <1>3 DEF Check, LoadUser, Say, Go, Steps, HandlerOK, ServerOK
  <2> QED BY <2>1, <2>2 DEF ServerOK, LineageOK, HandlerOK, DeviceOK, HistoryOK, server, history, device
<1>4. CASE Revoke(r) \/ Deactivate(r) \/ EndByReset(r)
  <2>1. /\ DeleteKey
        /\ UNCHANGED <<active, issued, lineage, blocked, code, attempts, ask, by, tok, device, rare>>
    BY <1>4 DEF Revoke, Deactivate, EndByReset
  <2>2. HandlerOK'
    BY <1>4, <2>1 DEF Revoke, Deactivate, EndByReset, HandlerOK, ServerOK, Say, Go, Steps
  <2>3. ServerOK' /\ HistoryOK' /\ DeviceOK'
    BY <2>1, DeleteKeepsTypes DEF ServerOK, DeviceOK, HistoryOK, device
  <2> QED BY <2>1, <2>2, <2>3, DeleteKeepsTypes
<1>5. CASE Rotate(r)
  <2>1. /\ StorePair(r, lineage[tok[r]])
        /\ UNCHANGED <<active, blocked, code, attempts, ask, by, tok, device, rare>>
    BY <1>5 DEF Rotate
  <2>2. tok[r] \in 1 .. issued /\ issued \in Nat
    BY <1>5 DEF Rotate, Sent, ServerOK, HandlerOK
  <2>3. lineage[tok[r]] \in 1 .. issued + 1
    BY <2>2 DEF LineageOK
  <2> HIDE DEF TypeParts
  <2> QED BY <2>1, <2>3, StoreKeepsTypes
<1>6. CASE Logout(r) /\ tok[r] \in blocked
  <2>1. /\ DeleteKey /\ Say(r, 0)
        /\ UNCHANGED <<active, issued, lineage, blocked, code, attempts, ask, by, tok, device, rare>>
    BY <1>6 DEF Logout
  <2>2. HandlerOK'
    BY <2>1 DEF HandlerOK, ServerOK, Say, Go, Steps
  <2>3. ServerOK' /\ HistoryOK' /\ DeviceOK'
    BY <2>1, DeleteKeepsTypes DEF ServerOK, DeviceOK, HistoryOK, device
  <2> QED BY <2>1, <2>2, <2>3, DeleteKeepsTypes
<1>7. CASE Logout(r) /\ tok[r] \notin blocked
  <2>1. tok[r] \in 1 .. issued
    BY <1>7 DEF Logout, Sent, ServerOK, HandlerOK
  <2> QED BY <1>7, <2>1 DEF Logout, ServerOK, LineageOK, HandlerOK, DeviceOK, HistoryOK, history, device
<1>8. CASE CommitStatus(r) \/ Count(r) \/ DropCode(r)
  <2>1. UNCHANGED <<fp, issued, lineage, blocked, ask, by, tok, device, rare, history>>
    BY <1>8 DEF CommitStatus, Count, DropCode
  <2>2. step' \in [Requests -> Steps] /\ got' \in [Requests -> 0 .. issued]
    BY <1>8 DEF CommitStatus, Count, DropCode, Say, Go, Steps, HandlerOK, ServerOK
  <2>3. active' \in BOOLEAN /\ code' \in BOOLEAN /\ attempts' \in Nat
    <3>1. CASE CommitStatus(r)
      <4>1. active' \in BOOLEAN
        BY <3>1 DEF CommitStatus
      <4> QED BY <3>1, <4>1 DEF CommitStatus, ServerOK
    <3>2. CASE Count(r)
      BY <3>2 DEF Count, ServerOK
    <3>3. CASE DropCode(r)
      BY <3>3 DEF DropCode, ServerOK
    <3> QED BY <1>8, <3>1, <3>2, <3>3
  <2> QED BY <2>1, <2>2, <2>3 DEF ServerOK, LineageOK, HandlerOK, DeviceOK, HistoryOK, history, device
<1>9. CASE Done(r)
  BY <1>9 DEF Done, Idle, Go, Steps, Purposes, ServerOK, LineageOK, HandlerOK, DeviceOK, HistoryOK, server, history, device
<1>10. CASE SetStatus(r) \/ Reset(r)
  <2>1. UNCHANGED <<server, ask, by, tok, got, device, history>> /\ rare' \in Nat
    BY <1>10 DEF SetStatus, Reset, RareEvent, HistoryOK
  <2>2. step' \in [Requests -> Steps]
    BY <1>10 DEF SetStatus, Reset, Go, Steps, HandlerOK
  <2> QED BY <2>1, <2>2 DEF ServerOK, LineageOK, HandlerOK, DeviceOK, HistoryOK, server, history, device
<1> QED BY <1>1, <1>2, <1>3, <1>4, <1>5, <1>6, <1>7, <1>8, <1>9, <1>10 DEF Handle

\* What a device does with the end of a request.
LEMMA EndingEffect ==
  ASSUME DeviceOK, issued \in Nat, NEW d \in Devices, NEW what, NEW pair \in 0 .. issued, Ending(what, d, pair)
  PROVE  /\ \A e \in Devices \ {d} : /\ held'[e] = held[e] /\ home'[e] = home[e]
                                      /\ refreshing'[e] = refreshing[e]
         /\ what = "refresh" => refreshing'[d] = 0 /\ held'[d] = pair
         /\ what # "refresh" => refreshing'[d] = refreshing[d]
         /\ what = "logout" => held'[d] = 0
         /\ what = "login" => held'[d] = IF pair = 0 THEN held[d] ELSE pair
         /\ what \in {"refresh", "login", "logout"}
         /\ held'[d] = 0 \/ held'[d] = held[d] \/ held'[d] = pair
         /\ home'[d] => held'[d] # 0 \/ (home[d] /\ held'[d] = held[d])
         /\ issued' = issued => DeviceOK'
<1>1. CASE what = "refresh" /\ EndRefresh(d, pair)
  <2>1. /\ refreshing' = [refreshing EXCEPT ![d] = 0] /\ held' = [held EXCEPT ![d] = pair]
        /\ (home' = home /\ pair # 0) \/ home' = [home EXCEPT ![d] = FALSE]
    BY <1>1 DEF EndRefresh, NextFlight, SignOut, Clear
  <2>2. waiting' \in [Devices -> SUBSET {"login", "replay"}]
    BY <1>1 DEF EndRefresh, SignOut, DeviceOK
  <2>3. /\ refreshing'[d] = 0 /\ held'[d] = pair
        /\ \A e \in Devices \ {d} : held'[e] = held[e] /\ refreshing'[e] = refreshing[e]
    BY <2>1 DEF DeviceOK
  <2>4. \A e \in Devices \ {d} : home'[e] = home[e]
    BY <2>1 DEF DeviceOK
  <2>5. home'[d] => pair # 0
    BY <2>1 DEF DeviceOK
  <2>6. issued' = issued => DeviceOK'
    <3>1. home' \in [Devices -> BOOLEAN]
      BY <2>1 DEF DeviceOK
    <3>2. held' \in [Devices -> 0 .. issued] /\ refreshing' \in [Devices -> 0 .. issued]
      BY <2>1 DEF DeviceOK
    <3> QED BY <2>2, <3>1, <3>2 DEF DeviceOK
  <2> QED BY <1>1, <2>3, <2>4, <2>5, <2>6
<1>2. CASE what = "login" /\ EndLogin(d, pair)
  <2>1. /\ refreshing' = refreshing
        /\ \/ /\ pair # 0 /\ held' = [held EXCEPT ![d] = pair]
              /\ home' = [home EXCEPT ![d] = TRUE]
           \/ pair = 0 /\ held' = held /\ home' = home
    BY <1>2 DEF EndLogin
  <2>2. waiting' \in [Devices -> SUBSET {"login", "replay"}]
    BY <1>2 DEF EndLogin, DeviceOK
  <2> QED BY <1>2, <2>1, <2>2 DEF DeviceOK
<1>3. CASE what = "logout" /\ SignOut(d) /\ UNCHANGED refreshing
  <2>1. /\ refreshing' = refreshing /\ held' = [held EXCEPT ![d] = 0]
        /\ home' = [home EXCEPT ![d] = FALSE]
    BY <1>3 DEF SignOut, Clear
  <2>2. waiting' \in [Devices -> SUBSET {"login", "replay"}]
    BY <1>3 DEF SignOut, DeviceOK
  <2>3. 0 \in 0 .. issued
    OBVIOUS
  <2> QED BY <1>3, <2>1, <2>2, <2>3 DEF DeviceOK
<1> QED BY <1>1, <1>2, <1>3 DEF Ending

\* A step of a device keeps the types.
LEMMA DeviceTypes ==
  ASSUME TypeParts, NEW r \in Requests, NEW d \in Devices, Ask(r, d) \/ Deliver(r, d)
  PROVE  TypeParts'
<1> USE DEF TypeParts, ServerOK, LineageOK, HandlerOK, HistoryOK, server, history
<1>0. /\ "idle" \in Steps /\ "office" \in Purposes /\ 0 \in 0 .. issued
      /\ {"login", "unlog", "check"} \subseteq Steps /\ {"login", "logout", "refresh"} \subseteq Purposes
  BY DEF Steps, Purposes
<1>1. CASE Ask(r, d)
  <2>1. PICK s \in {"login", "unlog", "check"}, what \in {"login", "logout", "refresh"} :
          Send(r, d, s, what)
    BY <1>1 DEF Ask, TapLogin, TapLogout, Refresh
  <2>2. UNCHANGED <<server, got, held, home, rare, history>>
    BY <2>1 DEF Send
  <2>3. HandlerOK'
    BY <1>0, <2>1, <2>2 DEF Send, Go, DeviceOK
  <2>4. DeviceOK'
    BY <1>1, <2>2 DEF Ask, TapLogin, TapLogout, Refresh, DeviceOK
  <2> QED BY <2>2, <2>3, <2>4
<1>2. ASSUME Abandon(r) \/ Idle(r), UNCHANGED server PROVE HandlerOK'
  <2>1. CASE Idle(r)
    BY <1>0, <1>2, <2>1 DEF Idle, Go
  <2>2. CASE by' = [by EXCEPT ![r] = NoDevice] /\ UNCHANGED <<step, ask, tok, got>>
    BY <1>2, <2>2
  <2> QED BY <1>2, <2>1, <2>2 DEF Abandon
<1>3. CASE Answer(r, d)
  <2>1. UNCHANGED <<server, rare, history>> /\ Idle(r) /\ Ending(ask[r], d, got[r])
    BY <1>3 DEF Answer
  <2>2. issued \in Nat /\ issued' = issued
    BY <2>1
  <2> QED BY <1>2, <2>1, <2>2, EndingEffect
<1>4. CASE Lose(r, d)
  <2>1. rare' \in Nat /\ UNCHANGED <<server, history>> /\ Abandon(r) /\ Ending(ask[r], d, 0)
    BY <1>4 DEF Lose, RareEvent
  <2>2. issued \in Nat /\ issued' = issued
    BY <2>1
  <2> QED BY <1>0, <1>2, <2>1, <2>2, EndingEffect
<1>5. CASE Hang(r, d)
  <2>1. /\ rare' \in Nat /\ UNCHANGED <<server, device, closed, raced>> /\ Abandon(r)
        /\ hung' = hung \cup {d}
    BY <1>5 DEF Hang, RareEvent
  <2>2. DeviceOK'
    BY <2>1 DEF DeviceOK, device
  <2> QED BY <1>2, <2>1, <2>2
<1> QED BY <1>1, <1>3, <1>4, <1>5 DEF Deliver

\* Every step keeps the types.
LEMMA TypeStep == ASSUME TypeParts, Sent, [SessionsNext]_sessionVars PROVE TypeParts'
<1>1. ASSUME NEW d \in Devices, Replay(d) PROVE TypeParts'
  <2>1. UNCHANGED <<server, handler, rare, history>>
    BY <1>1 DEF Replay
  <2>2. waiting' \in [Devices -> SUBSET {"login", "replay"}]
    BY <1>1 DEF Replay, TypeParts, DeviceOK
  <2>3. held' \in [Devices -> 0 .. issued] /\ home' \in [Devices -> BOOLEAN]
    <3>1. \/ held' = held /\ home' = home
          \/ held' = [held EXCEPT ![d] = 0] /\ home' = [home EXCEPT ![d] = FALSE]
      BY <1>1 DEF Replay, Clear
    <3>2. 0 \in 0 .. issued
      BY DEF TypeParts, ServerOK
    <3> QED BY <3>1, <3>2 DEF TypeParts, DeviceOK
  <2>4. DeviceOK'
    BY <1>1, <2>2, <2>3 DEF Replay, TypeParts, DeviceOK, server
  <2> QED BY <2>1, <2>4 DEF TypeParts, ServerOK, LineageOK, HandlerOK, HistoryOK, server, handler, history
<1>2. CASE Forgot
  BY <1>2 DEF Forgot, RareEvent, TypeParts, ServerOK, LineageOK, HandlerOK, DeviceOK, HistoryOK, handler, device, history
<1>3. CASE Evict
  <2>1. /\ DeleteKey /\ rare' = rare + 1
        /\ UNCHANGED <<active, issued, lineage, blocked, code, attempts, handler, device>>
    BY <1>3 DEF Evict, RareEvent
  <2> QED BY <2>1, DeleteKeepsTypes DEF TypeParts, ServerOK, HandlerOK, DeviceOK, HistoryOK, handler, device
<1>4. CASE UNCHANGED sessionVars
  BY <1>4 DEF TypeParts, ServerOK, LineageOK, HandlerOK, DeviceOK, HistoryOK, sessionVars, server, handler, device, history
<1> QED BY <1>1, <1>2, <1>3, <1>4, HandlerTypes, DeviceTypes DEF SessionsNext

\* A handler is sent the pair its device holds, and keeps it while it needs it.
LEMMA SentStep == ASSUME TypeParts, Sent, [SessionsNext]_sessionVars PROVE Sent'
<1> USE DEF TypeParts, HandlerOK, Go
<1> DEFINE Needs(r) == step[r] \in {"check", "user", "rotate", "unlog"}
<1>1. ASSUME NEW r \in Requests, NEW d \in Devices, Ask(r, d) PROVE Sent'
  <2>1. PICK s \in {"login", "unlog", "check"}, what \in {"login", "logout", "refresh"} :
          Send(r, d, s, what) /\ (s # "login" => held[d] # 0)
    BY <1>1 DEF Ask, TapLogin, TapLogout, Refresh, Sent
  <2> QED BY <2>1 DEF Send, Sent
<1>2. ASSUME NEW r \in Requests, NEW d \in Devices, Deliver(r, d) PROVE Sent'
  <2>1. \A q \in Requests : Needs(q)' => Needs(q) /\ tok'[q] = tok[q]
    BY <1>2 DEF Deliver, Answer, Lose, Hang, Abandon, Idle
  <2>2. ASSUME NEW e \in Devices, home'[e] PROVE held'[e] # 0
    <3>1. issued \in Nat /\ 0 \in 0 .. issued /\ got[r] \in 0 .. issued
      BY DEF ServerOK
    <3>2. CASE Hang(r, d)
      BY <2>2, <3>2 DEF Hang, device, Sent
    <3>3. CASE Answer(r, d) \/ Lose(r, d)
      <4>1. PICK pair \in {0, got[r]} : Ending(ask[r], d, pair)
        BY <3>3 DEF Answer, Lose
      <4> QED BY <2>2, <3>1, <4>1, EndingEffect DEF Sent
    <3> QED BY <1>2, <3>2, <3>3 DEF Deliver
  <2> QED BY <2>1, <2>2 DEF Sent
<1>3. ASSUME NEW r \in Requests, Handle(r) \/ SetStatus(r) \/ Reset(r) PROVE Sent'
  <2>1. CASE Done(r)
    BY <2>1 DEF Done, Idle, device, Sent
  <2>2. CASE ~Done(r)
    <3>1. tok' = tok /\ UNCHANGED device
      BY <1>3, <2>2 DEF Handle, Login, Check, LoadUser, Revoke, Rotate, Logout, Deactivate,
        CommitStatus, Count, DropCode, EndByReset, SetStatus, Reset
    <3>2. step' = step \/ \E s \in Steps : step' = [step EXCEPT ![r] = s]
      BY <1>3, <2>2 DEF Steps, Handle, Login, Check, LoadUser, Revoke, Rotate, Logout, Deactivate,
        CommitStatus, Count, DropCode, EndByReset, SetStatus, Reset, Say, StorePair
    <3>3. step'[r] \in {"check", "user", "rotate", "unlog"}
            => step[r] \in {"check", "user", "rotate", "unlog"}
      BY <1>3, <2>2 DEF Handle, Login, Check, LoadUser, Revoke, Rotate, Logout, Deactivate,
        CommitStatus, Count, DropCode, EndByReset, SetStatus, Reset, Say, StorePair
    <3> QED BY <3>1, <3>2, <3>3 DEF Sent, device
  <2> QED BY <2>1, <2>2
<1>4. ASSUME NEW d \in Devices, Replay(d) PROVE Sent'
  BY <1>4 DEF Replay, Clear, Sent, handler, DeviceOK
<1>5. CASE Forgot \/ Evict \/ UNCHANGED sessionVars
  BY <1>5 DEF Forgot, Evict, sessionVars, handler, device, Sent
<1> QED BY <1>1, <1>2, <1>3, <1>4, <1>5 DEF SessionsNext
-----------------------------------------------------------------------------
\* At first nobody is signed in.
LEMMA SessionInvInit == ASSUME SessionsInit PROVE SessionInv
<1> USE SessionsAssumption DEF SessionsInit
<1>1. ServerOK /\ LineageOK /\ HandlerOK /\ DeviceOK /\ HistoryOK
  <2>1. ServerOK
    <3>1. active \in BOOLEAN /\ code \in BOOLEAN /\ blocked \subseteq 1 .. issued
      BY Zenon
    <3>2. attempts \in Nat /\ issued \in 0 .. MaxTokens /\ fp \in 0 .. issued
      <4>1. attempts = 0 /\ issued = 0 /\ fp = 0 /\ MaxTokens \in Nat
        OBVIOUS
      <4> QED BY <4>1
    <3> QED BY <3>1, <3>2 DEF ServerOK
  <2>2. LineageOK
    <3>1. issued = 0 /\ lineage = [n \in 1 .. MaxTokens |-> 0]
      OBVIOUS
    <3>2. 0 \in 0 .. issued /\ 1 .. issued = {}
      BY <3>1
    <3>3. lineage \in [1 .. MaxTokens -> 0 .. issued]
      BY <3>1, <3>2, Zenon
    <3> QED BY <3>2, <3>3 DEF LineageOK
  <2>3. HandlerOK
    BY DEF HandlerOK, Steps, Purposes
  <2>4. DeviceOK
    BY DEF DeviceOK
  <2>5. closed \subseteq 1 .. issued /\ raced \subseteq closed
    BY Zenon
  <2>6. HistoryOK
    BY <2>5 DEF HistoryOK
  <2> QED BY <2>1, <2>2, <2>3, <2>4, <2>6
<1>2. Sent /\ Guarded /\ EndedStaysEnded
  BY DEF Sent, Guarded, Flying, EndedStaysEnded
<1> QED BY <1>1, <1>2 DEF SessionInv, TypeParts

\* SessionInv holds in every state.
THEOREM SessionInvariant == SessionsSpec => []SessionInv
<1>1. SessionsInit => SessionInv
  BY SessionInvInit
<1>2. SessionInv /\ [SessionsNext]_sessionVars => SessionInv'
  BY TypeStep, SentStep, GuardedStep DEF SessionInv
<1> QED BY <1>1, <1>2, PTL DEF SessionsSpec

\* The tokens, handlers and devices keep their types, and every pair descends
\* from a login that was issued before it, for any number of them.
THEOREM SessionsAreTyped == SessionsSpec => []SessionsTypeOK
<1>1. SessionInv => SessionsTypeOK
  BY TypePartsAreAll DEF SessionInv
<1> QED BY <1>1, SessionInvariant, PTL

\* A login that a logout, a deactivation, a reset, a reuse or another login has
\* ended is accepted again only when a refresh of it was between its check and
\* its SET at that moment (auth_service.py:112-142).
THEOREM EndedSessionsStayEnded == SessionsSpec => []EndedStaysEnded
<1>1. SessionInv => EndedStaysEnded
  BY DEF SessionInv
<1> QED BY <1>1, SessionInvariant, PTL
-----------------------------------------------------------------------------
(***************************************************************************)
(* Who is signed out.  A login is in the hands of one device and of one    *)
(* handler at most, and the pair in them, while the login is open, is the  *)
(* one the key speaks of.                                                  *)
(***************************************************************************)

\* The pair a refresh was sent to exchange, or the one a handler answers with.
Carried(r) == CASE step[r] \in {"check", "user", "rotate"} -> tok[r]
                [] step[r] = "answer" -> got[r]
                [] OTHER -> 0

\* The login of a pair, of the pair of a handler, of the pair of a device.
LoginOf(pair) == IF pair = 0 THEN 0 ELSE lineage[pair]
LoginAt(r) == LoginOf(Carried(r))
On(d) == LoginOf(held[d])

\* A request of device d for `what' is under way.
Asked(r, d, what) == by[r] = d /\ ask[r] = what

HandsOK ==
  /\ \A d, e \in Devices : On(d) # 0 /\ On(d) = On(e) => d = e
  /\ \A r \in Requests, d \in Devices : LoginAt(r) # 0 /\ LoginAt(r) = On(d) =>
       Asked(r, d, "refresh") \/ (by[r] = NoDevice /\ d \in hung)
  /\ \A r, q \in Requests : LoginAt(r) # 0 /\ LoginAt(r) = LoginAt(q) => r = q

\* A handler takes the steps of what it was asked for.
KindOK ==
  \A r \in Requests : /\ step[r] = "idle" => ask[r] = "office"
                      /\ step[r] \in {"check", "user", "rotate", "revoke"} => ask[r] = "refresh"
                      /\ step[r] = "login" => ask[r] = "login"
                      /\ step[r] = "unlog" => ask[r] = "logout"

\* A refresh that a device waits for exchanges the pair it was begun with.
WaitsFor(d, r) ==
  /\ d \notin hung /\ tok[r] # 0 /\ refreshing[d] = tok[r]
  /\ step[r] \in {"check", "user", "rotate", "revoke", "answer"}
  /\ step[r] = "answer" /\ got[r] = 0 => lineage[tok[r]] \in closed
WaitsOK ==
  /\ \A r \in Requests, d \in Devices : Asked(r, d, "refresh") => WaitsFor(d, r)
  /\ \A r, q \in Requests, d \in Devices : Asked(r, d, "refresh") /\ Asked(q, d, "refresh") => r = q
  /\ \A d \in hung : refreshing[d] # 0

\* The pair of an answer is nowhere else; that of a logout is nowhere but on
\* the device that asked for it, and only such a device holds a blacklisted one.
FreshPair(pair) ==
  /\ pair \notin blocked
  /\ \A r \in Requests : tok[r] # pair
  /\ \A d \in Devices : held[d] # pair
BlockedOK ==
  /\ \A r \in Requests : step[r] = "answer" /\ got[r] # 0 => FreshPair(got[r])
  /\ \A r \in Requests, d \in Devices : step[r] = "unlog" /\ tok[r] = held[d] => by[r] = d
  /\ \A d \in Devices : held[d] \in blocked => \E r \in Requests : Asked(r, d, "logout")

\* Every login but the one of the key was closed.
CurrentOK == \A n \in 1 .. issued : lineage[n] \in closed \/ (fp # 0 /\ lineage[fp] = lineage[n])

\* What a handler is about to check or has answered, and what a device has
\* stored, is the pair of the key, unless the login was closed or the answer
\* of its refresh has not reached the device.
Answered(d) == \E r \in Requests : Asked(r, d, "refresh") /\ step[r] = "answer"
FreshOK ==
  /\ \A r \in Requests : step[r] \in {"check", "answer"} /\ Carried(r) # 0
                           => LoginAt(r) \in closed \/ Carried(r) = fp
  /\ \A d \in Devices : held[d] # 0 =>
       On(d) \in closed \/ fp = held[d] \/ Answered(d) \/ d \in hung

ServedInv == SessionInv /\ HandsOK /\ KindOK /\ WaitsOK /\ BlockedOK /\ CurrentOK /\ FreshOK

\* Logins keep their names, and stay closed.
LEMMA LoginsKept ==
  ASSUME SessionInv, [SessionsNext]_sessionVars
  PROVE  /\ issued \in Nat /\ issued' \in Nat /\ issued <= issued' /\ closed \subseteq closed'
         /\ \A n \in 1 .. issued : lineage'[n] = lineage[n] /\ lineage[n] # 0
<1>1. issued \in Nat /\ \A n \in 1 .. issued : lineage[n] # 0
  BY DEF SessionInv, TypeParts, ServerOK, LineageOK
<1>2. CASE LeavesKey
  BY <1>1, <1>2 DEF LeavesKey
<1>3. CASE DeletesKey
  BY <1>1, <1>3 DEF DeletesKey, DeleteKey, Record
<1>4. CASE StoresKey
  <2>1. PICK r \in Requests, l \in 1 .. issued + 1 : StorePair(r, l)
    BY <1>4 DEF StoresKey
  <2>2. /\ issued < MaxTokens /\ issued' = issued + 1 /\ closed \subseteq closed'
        /\ lineage' = [lineage EXCEPT ![issued + 1] = l]
    BY <2>1 DEF StorePair, Record
  <2> QED BY <1>1, <2>2 DEF SessionInv, TypeParts, LineageOK
<1> QED BY <1>2, <1>3, <1>4, KeyCases DEF SessionInv

\* Every login but the current one stays closed.
LEMMA CurrentStep ==
  ASSUME SessionInv, CurrentOK, [SessionsNext]_sessionVars PROVE CurrentOK'
<1>1. CASE LeavesKey
  BY <1>1 DEF LeavesKey, CurrentOK
<1>2. CASE DeletesKey
  <2>1. fp' = 0 /\ closed' = closed \cup Ends(0) /\ UNCHANGED <<issued, lineage>>
    BY <1>2 DEF DeletesKey, DeleteKey, Record
  <2>2. fp # 0 => lineage[fp] \in Ends(0)
    BY DEF Ends, SessionInv, TypeParts, ServerOK, LineageOK
  <2> QED BY <2>1, <2>2 DEF CurrentOK
<1>3. CASE StoresKey
  <2>1. PICK r \in Requests, l \in 1 .. issued + 1 : StorePair(r, l)
    BY <1>3 DEF StoresKey
  <2>2. /\ issued < MaxTokens /\ issued' = issued + 1 /\ fp' = issued + 1
        /\ closed' = closed \cup Ends(l) /\ lineage' = [lineage EXCEPT ![issued + 1] = l]
        /\ issued \in Nat /\ issued + 1 \in 1 .. MaxTokens
    BY <2>1, SessionsAssumption DEF StorePair, Record, SessionInv, TypeParts, ServerOK
  <2>3. lineage'[issued + 1] = l /\ \A n \in 1 .. issued : lineage'[n] = lineage[n]
    BY <2>2 DEF SessionInv, TypeParts, LineageOK
  <2>4. fp # 0 /\ lineage[fp] # l => lineage[fp] \in closed'
    BY <2>2 DEF Ends
  <2>5. ASSUME NEW n \in 1 .. issued' PROVE lineage'[n] \in closed' \/ lineage'[n] = l
    <3>1. CASE n = issued + 1
      BY <2>3, <3>1
    <3>2. CASE n \in 1 .. issued
      BY <2>2, <2>3, <2>4, <3>2 DEF CurrentOK
    <3> QED BY <2>2, <3>1, <3>2
  <2> QED BY <2>2, <2>3, <2>5 DEF CurrentOK
<1> QED BY <1>1, <1>2, <1>3, KeyCases DEF SessionInv

\* The pairs in hand were issued.
LEMMA InHandIssued ==
  ASSUME SessionInv
  PROVE  /\ \A r \in Requests : Carried(r) \in 0 .. issued
         /\ \A d \in Devices : held[d] \in 0 .. issued
BY DEF SessionInv, TypeParts, HandlerOK, DeviceOK, ServerOK, Carried

\* A pair in the same hands, or in other ones, is of the same login.
LEMMA SameLogin ==
  ASSUME SessionInv, [SessionsNext]_sessionVars
  PROVE  /\ \A q \in Requests : /\ Carried(q)' = 0 => LoginAt(q)' = 0
                                /\ Carried(q)' = Carried(q) => LoginAt(q)' = LoginAt(q)
                                /\ \A d \in Devices : Carried(q)' = held[d] => LoginAt(q)' = On(d)
         /\ \A d \in Devices : /\ held'[d] = 0 => On(d)' = 0
                               /\ held'[d] = held[d] => On(d)' = On(d)
                               /\ \A q \in Requests : held'[d] = Carried(q) => On(d)' = LoginAt(q)
<1>1. \A n \in 0 .. issued : n = 0 \/ lineage'[n] = lineage[n]
  BY LoginsKept
<1>2. ASSUME NEW q \in Requests
      PROVE  /\ Carried(q)' = 0 => LoginAt(q)' = 0
             /\ Carried(q)' = Carried(q) => LoginAt(q)' = LoginAt(q)
             /\ \A d \in Devices : Carried(q)' = held[d] => LoginAt(q)' = On(d)
  BY <1>1, InHandIssued DEF LoginAt, On, LoginOf
<1>3. ASSUME NEW d \in Devices
      PROVE  /\ held'[d] = 0 => On(d)' = 0
             /\ held'[d] = held[d] => On(d)' = On(d)
             /\ \A q \in Requests : held'[d] = Carried(q) => On(d)' = LoginAt(q)
  BY <1>1, InHandIssued DEF LoginAt, On, LoginOf
<1> QED BY <1>2, <1>3

\* What a step of a handler leaves alone, and where its pair comes from.
LEMMA HandlerEffect ==
  ASSUME SessionInv, NEW r \in Requests, Handle(r) \/ SetStatus(r) \/ Reset(r), ~Done(r)
  PROVE  /\ UNCHANGED <<held, refreshing, ask, by, tok, hung>>
         /\ \A q \in Requests \ {r} : step'[q] = step[q] /\ got'[q] = got[q]
         /\ Carried(r)' \in {0, Carried(r)} \/ (Login(r) /\ active) \/ Rotate(r)
         /\ step[r] # "answer" /\ step'[r] # "check"
         /\ (step'[r] = "answer" /\ Carried(r)' # 0) => (Login(r) /\ active) \/ Rotate(r)
<1> USE DEF SessionInv, TypeParts, HandlerOK, Say, Go, device, history, Carried
<1>1. CASE Login(r) \/ Rotate(r)
  BY <1>1 DEF Login, Rotate, StorePair, Record
<1>2. CASE Check(r) \/ LoadUser(r)
  BY <1>2 DEF Check, LoadUser
<1>3. CASE Revoke(r) \/ Deactivate(r) \/ EndByReset(r)
  BY <1>3 DEF Revoke, Deactivate, EndByReset, DeleteKey, Record
<1>4. CASE Logout(r)
  BY <1>4 DEF Logout, DeleteKey, Record
<1>5. CASE CommitStatus(r) \/ Count(r) \/ DropCode(r)
  BY <1>5 DEF CommitStatus, Count, DropCode
<1>6. CASE SetStatus(r) \/ Reset(r)
  BY <1>6 DEF SetStatus, Reset
<1> QED BY <1>1, <1>2, <1>3, <1>4, <1>5, <1>6 DEF Handle

\* What a request that is sent changes.
LEMMA AskEffect ==
  ASSUME SessionInv, NEW r \in Requests, NEW d \in Devices, Ask(r, d)
  PROVE  /\ UNCHANGED <<fp, blocked, closed, hung, held, got>> /\ step[r] = "idle"
         /\ \A q \in Requests \ {r} :
              step'[q] = step[q] /\ ask'[q] = ask[q] /\ by'[q] = by[q] /\ tok'[q] = tok[q]
         /\ by'[r] = d /\ tok'[r] = held[d]
         /\ \/ /\ step'[r] = "check" /\ ask'[r] = "refresh" /\ held[d] # 0 /\ refreshing[d] = 0
               /\ refreshing' = [refreshing EXCEPT ![d] = held[d]]
            \/ /\ step'[r] = "login" /\ ask'[r] = "login" /\ refreshing' = refreshing
            \/ /\ step'[r] = "unlog" /\ ask'[r] = "logout" /\ held[d] # 0 /\ refreshing' = refreshing
<1> USE DEF Ask, Send, Go, server, history, SessionInv, TypeParts, HandlerOK, DeviceOK
<1>1. CASE TapLogin(r, d)
  BY <1>1 DEF TapLogin
<1>2. CASE TapLogout(r, d)
  BY <1>2 DEF TapLogout, Sent
<1>3. CASE Refresh(r, d)
  BY <1>3 DEF Refresh, Free
<1> QED BY <1>1, <1>2, <1>3

\* What an answer, or the loss of one, changes.
LEMMA DeliverEffect ==
  ASSUME SessionInv, NEW r \in Requests, NEW d \in Devices, Deliver(r, d)
  PROVE  /\ UNCHANGED <<fp, blocked, closed>> /\ by[r] = d /\ by'[r] = NoDevice
         /\ \A q \in Requests \ {r} : /\ step'[q] = step[q] /\ ask'[q] = ask[q] /\ by'[q] = by[q]
                                      /\ tok'[q] = tok[q] /\ got'[q] = got[q]
         /\ \/ step'[r] = "idle" /\ ask'[r] = "office" /\ tok'[r] = 0
            \/ /\ step'[r] = step[r] /\ ask'[r] = ask[r] /\ tok'[r] = tok[r] /\ got'[r] = got[r]
               /\ ~Answer(r, d)
         /\ \A e \in Devices \ {d} : held'[e] = held[e] /\ refreshing'[e] = refreshing[e]
         /\ ask[r] # "refresh" => refreshing'[d] = refreshing[d]
         /\ \/ /\ Hang(r, d) /\ ask[r] = "refresh" /\ held' = held /\ refreshing' = refreshing
               /\ hung' = hung \cup {d}
            \/ /\ Answer(r, d) \/ rare' # rare
               /\ hung' = hung /\ ask[r] \in {"login", "logout", "refresh"}
               /\ ask[r] = "logout" => held'[d] = 0
               /\ ask[r] = "refresh" => held'[d] = 0 \/ (Answer(r, d) /\ held'[d] = got[r])
               /\ ask[r] = "login" => \/ held'[d] = held[d]
                                      \/ Answer(r, d) /\ held'[d] = got[r] /\ got[r] # 0
         /\ Answer(r, d) => step[r] = "answer" /\ (ask[r] = "refresh" => held'[d] = got[r])
<1> USE DEF SessionInv, TypeParts
<1>0. issued \in Nat /\ 0 \in 0 .. issued /\ got[r] \in 0 .. issued
  BY DEF ServerOK, HandlerOK
<1>1. ASSUME Idle(r)
      PROVE  /\ by'[r] = NoDevice /\ step'[r] = "idle" /\ ask'[r] = "office" /\ tok'[r] = 0
             /\ \A q \in Requests \ {r} : /\ step'[q] = step[q] /\ ask'[q] = ask[q] /\ by'[q] = by[q]
                                          /\ tok'[q] = tok[q] /\ got'[q] = got[q]
  BY <1>1 DEF Idle, Go, HandlerOK
<1>2. ASSUME Abandon(r)
      PROVE  /\ by'[r] = NoDevice
             /\ \A q \in Requests \ {r} : /\ step'[q] = step[q] /\ ask'[q] = ask[q] /\ by'[q] = by[q]
                                          /\ tok'[q] = tok[q] /\ got'[q] = got[q]
             /\ \/ step'[r] = "idle" /\ ask'[r] = "office" /\ tok'[r] = 0
                \/ UNCHANGED <<step, ask, tok, got>>
  BY <1>1, <1>2 DEF Abandon, HandlerOK
<1>3. CASE Answer(r, d)
  <2>1. /\ step[r] = "answer" /\ by[r] = d /\ Ending(ask[r], d, got[r]) /\ Idle(r)
        /\ UNCHANGED <<fp, blocked, closed, hung>>
    BY <1>3 DEF Answer, server, history
  <2> QED BY <1>0, <1>1, <1>3, <2>1, EndingEffect
<1>4. CASE Lose(r, d)
  <2>1. /\ by[r] = d /\ Ending(ask[r], d, 0) /\ Abandon(r) /\ rare' # rare
        /\ UNCHANGED <<fp, blocked, closed, hung>>
    BY <1>4 DEF Lose, RareEvent, HistoryOK, server, history
  <2>2. ~Answer(r, d)
    BY <2>1 DEF Answer
  <2> QED BY <1>0, <1>2, <2>1, <2>2, EndingEffect
<1>5. CASE Hang(r, d)
  <2>1. /\ by[r] = d /\ ask[r] = "refresh" /\ Abandon(r) /\ hung' = hung \cup {d} /\ rare' # rare
        /\ UNCHANGED <<fp, blocked, closed, held, refreshing>>
    BY <1>5 DEF Hang, RareEvent, HistoryOK, server, device
  <2>2. ~Answer(r, d)
    BY <2>1 DEF Answer
  <2> QED BY <1>2, <1>5, <2>1, <2>2
<1> QED BY <1>3, <1>4, <1>5 DEF Deliver

\* What the end of a handler that nobody waits for changes.
LEMMA DoneEffect ==
  ASSUME SessionInv, NEW r \in Requests, Done(r)
  PROVE  /\ by[r] = NoDevice /\ by'[r] = NoDevice /\ step'[r] = "idle" /\ ask'[r] = "office"
         /\ tok'[r] = 0
         /\ \A q \in Requests \ {r} : /\ step'[q] = step[q] /\ ask'[q] = ask[q] /\ by'[q] = by[q]
                                      /\ tok'[q] = tok[q] /\ got'[q] = got[q]
         /\ UNCHANGED <<fp, blocked, closed, hung, held, refreshing>>
  BY DEF Done, Idle, Go, server, device, history, SessionInv, TypeParts, HandlerOK

\* What a replay changes, and what is left of the other steps.
LEMMA ReplayEffect ==
  ASSUME SessionInv, NEW d \in Devices, Replay(d)
  PROVE  /\ UNCHANGED <<fp, blocked, closed, hung, refreshing, step, ask, by, tok, got>>
         /\ \A e \in Devices : held'[e] \in {0, held[e]} /\ (e # d => held'[e] = held[e])
         /\ held'[d] # held[d] => ~Accepted(held[d])
  BY DEF Replay, Clear, server, handler, history, SessionInv, TypeParts, DeviceOK
-----------------------------------------------------------------------------
\* A step in which nobody takes a pair from somewhere else.
LEMMA HandsKept ==
  ASSUME HandsOK, hung \subseteq hung',
         \A q \in Requests : LoginAt(q)' \in {0, LoginAt(q)}, \A d \in Devices : On(d)' \in {0, On(d)},
         \A q \in Requests : LoginAt(q)' # 0 /\ by[q] = NoDevice => by'[q] = NoDevice,
         \A q \in Requests, d \in Devices :
           Asked(q, d, "refresh") /\ On(d)' # 0 /\ LoginAt(q)' # 0 =>
             Asked(q, d, "refresh")' \/ (by'[q] = NoDevice /\ d \in hung')
  PROVE  HandsOK'
<1>1. \A d, e \in Devices : On(d)' # 0 /\ On(d)' = On(e)' => d = e
  BY DEF HandsOK
<1>2. \A r \in Requests, d \in Devices : LoginAt(r)' # 0 /\ LoginAt(r)' = On(d)' =>
        Asked(r, d, "refresh")' \/ (by'[r] = NoDevice /\ d \in hung')
  BY DEF HandsOK
<1>3. \A r, q \in Requests : LoginAt(r)' # 0 /\ LoginAt(r)' = LoginAt(q)' => r = q
  BY DEF HandsOK
<1> QED BY <1>1, <1>2, <1>3 DEF HandsOK

\* The steps of the handlers.
LEMMA HandsHandler ==
  ASSUME ServedInv, [SessionsNext]_sessionVars,
         NEW r \in Requests, Handle(r) \/ SetStatus(r) \/ Reset(r)
  PROVE  HandsOK'
<1> USE DEF ServedInv
<1>1. CASE Done(r)
  <2>1. Carried(r)' = 0 /\ \A q \in Requests \ {r} : Carried(q)' = Carried(q)
    BY <1>1, DoneEffect DEF Carried
  <2>2. /\ \A q \in Requests : LoginAt(q)' \in {0, LoginAt(q)}
        /\ \A d \in Devices : On(d)' = On(d)
    BY <1>1, <2>1, SameLogin, DoneEffect
  <2>3. \A q \in Requests : by'[q] = by[q] /\ (q # r => ask'[q] = ask[q])
    BY <1>1, DoneEffect
  <2>4. \A d \in Devices : d # NoDevice
    BY SessionsAssumption
  <2> QED BY <1>1, <2>2, <2>3, <2>4, DoneEffect, HandsKept DEF Asked
<1>2. CASE ~Done(r)
  <2>1. /\ UNCHANGED <<held, ask, by, tok, hung>>
        /\ \A q \in Requests \ {r} : step'[q] = step[q] /\ got'[q] = got[q]
        /\ Carried(r)' \in {0, Carried(r)} \/ (Login(r) /\ active) \/ Rotate(r)
    BY <1>2, HandlerEffect
  <2>2. \A q \in Requests \ {r} : Carried(q)' = Carried(q)
    BY <2>1 DEF Carried
  <2>3. \A d \in Devices : On(d)' = On(d)
    BY <2>1, SameLogin
  <2>4. \A q \in Requests \ {r} : LoginAt(q)' = LoginAt(q)
    BY <2>2, SameLogin
  <2>5. CASE LoginAt(r)' \in {0, LoginAt(r)}
    BY <2>1, <2>3, <2>4, <2>5, HandsKept DEF Asked
  <2>6. CASE Rotate(r)
    <3>1. /\ lineage' = [lineage EXCEPT ![issued + 1] = lineage[tok[r]]] /\ step[r] = "rotate"
          /\ step' = [step EXCEPT ![r] = "answer"] /\ got' = [got EXCEPT ![r] = issued + 1]
          /\ issued < MaxTokens
      BY <2>6 DEF Rotate, StorePair, Say, Go
    <3>2. issued \in Nat /\ issued + 1 \in 1 .. MaxTokens /\ tok[r] # 0
      BY <3>1, SessionsAssumption DEF SessionInv, TypeParts, ServerOK, Sent
    <3>3. Carried(r)' = issued + 1 /\ Carried(r) = tok[r]
      BY <3>1 DEF Carried, SessionInv, TypeParts, HandlerOK
    <3>4. LoginAt(r)' = LoginAt(r)
      BY <3>1, <3>2, <3>3 DEF LoginAt, LoginOf, SessionInv, TypeParts, LineageOK
    <3> QED BY <2>5, <3>4
  <2>7. CASE Login(r) /\ active
    <3>1. /\ lineage' = [lineage EXCEPT ![issued + 1] = issued + 1]
          /\ step' = [step EXCEPT ![r] = "answer"] /\ got' = [got EXCEPT ![r] = issued + 1]
          /\ issued < MaxTokens
      BY <2>7 DEF Login, StorePair, Say, Go
    <3>2. issued \in Nat /\ issued + 1 \in 1 .. MaxTokens
      BY <3>1, SessionsAssumption DEF SessionInv, TypeParts, ServerOK
    <3>3. LoginAt(r)' = issued + 1
      BY <3>1, <3>2 DEF LoginAt, LoginOf, Carried, SessionInv, TypeParts, LineageOK, HandlerOK
    <3>4. \A n \in 0 .. issued : LoginOf(n) # issued + 1
      BY <3>2 DEF LoginOf, SessionInv, TypeParts, LineageOK
    <3>5. /\ \A q \in Requests : LoginAt(q) # issued + 1
          /\ \A d \in Devices : On(d) # issued + 1
      BY <3>4, InHandIssued DEF LoginAt, On
    <3> QED BY <2>1, <2>3, <2>4, <3>3, <3>5 DEF HandsOK, Asked
  <2> QED BY <2>1, <2>5, <2>6, <2>7, SameLogin
<1> QED BY <1>1, <1>2

\* No refresh of a device is under way, or lost, when one is begun.
LEMMA NoneFlying ==
  ASSUME ServedInv, NEW d \in Devices, refreshing[d] = 0
  PROVE  /\ d \notin hung /\ \A q \in Requests : ~Asked(q, d, "refresh")
         /\ \A q \in Requests : LoginAt(q) # 0 => LoginAt(q) # On(d)
<1>1. d \notin hung /\ \A q \in Requests : ~Asked(q, d, "refresh")
  BY DEF ServedInv, WaitsOK, WaitsFor
<1> QED BY <1>1 DEF ServedInv, HandsOK

\* The requests of the devices, and their answers.
LEMMA HandsDevice ==
  ASSUME ServedInv, [SessionsNext]_sessionVars, NEW r \in Requests, NEW d \in Devices,
         Ask(r, d) \/ Deliver(r, d)
  PROVE  HandsOK'
<1> USE DEF ServedInv
<1>1. CASE Ask(r, d)
  <2>1. /\ \A q \in Requests \ {r} : Carried(q)' = Carried(q) /\ \A e \in Devices, what \in Purposes :
                                       Asked(q, e, what)' = Asked(q, e, what)
        /\ hung' = hung /\ by'[r] = d /\ \A e \in Devices : held'[e] = held[e]
        /\ \/ Carried(r)' = 0
           \/ Carried(r)' = held[d] /\ refreshing[d] = 0 /\ ask'[r] = "refresh"
    BY <1>1, AskEffect DEF Carried, Asked
  <2>2. /\ \A q \in Requests \ {r} : LoginAt(q)' = LoginAt(q)
        /\ \A e \in Devices : On(e)' = On(e)
        /\ LoginAt(r)' = 0 \/ (LoginAt(r)' = On(d) /\ refreshing[d] = 0 /\ ask'[r] = "refresh")
    BY <2>1, SameLogin
  <2>3. \A q \in Requests \ {r} : by'[q] = by[q]
    BY <1>1, AskEffect
  <2>4. \A q \in Requests, e \in Devices : q # r => Asked(q, e, "refresh")' = Asked(q, e, "refresh")
    BY <2>1 DEF Purposes
  <2>5. CASE LoginAt(r)' = 0
    BY <2>1, <2>2, <2>3, <2>4, <2>5 DEF HandsOK
  <2>6. CASE LoginAt(r)' = On(d) /\ refreshing[d] = 0 /\ ask'[r] = "refresh"
    <3>1. Asked(r, d, "refresh")'
      BY <2>1, <2>6 DEF Asked
    <3>2. \A q \in Requests : LoginAt(q) # 0 => LoginAt(q) # On(d)
      BY <2>6, NoneFlying
    <3> QED BY <2>1, <2>2, <2>3, <2>4, <2>6, <3>1, <3>2 DEF HandsOK
  <2> QED BY <2>2, <2>5, <2>6
<1>2. CASE Deliver(r, d)
  <2>1. /\ by[r] = d /\ d # NoDevice /\ by'[r] = NoDevice /\ hung \subseteq hung'
        /\ \A q \in Requests \ {r} : /\ Carried(q)' = Carried(q) /\ by'[q] = by[q]
                                     /\ ask'[q] = ask[q]
        /\ \A e \in Devices \ {d} : held'[e] = held[e]
        /\ Carried(r)' \in {0, Carried(r)}
    BY <1>2, DeliverEffect, SessionsAssumption DEF Carried
  <2>2. /\ \A q \in Requests \ {r} : LoginAt(q)' = LoginAt(q)
        /\ \A e \in Devices \ {d} : On(e)' = On(e)
        /\ LoginAt(r)' \in {0, LoginAt(r)}
    BY <2>1, SameLogin
  <2>3. CASE Answer(r, d) /\ held'[d] = got[r]
    <3>1. Carried(r) = held'[d] /\ Carried(r)' = 0 /\ hung' = hung
      BY <1>2, <2>3, DeliverEffect DEF Carried, Answer, Hang, Idle, Go, history, SessionInv, TypeParts, HandlerOK
    <3>2. On(d)' = LoginAt(r) /\ LoginAt(r)' = 0
      BY <3>1, SameLogin
    <3> QED BY <2>1, <2>2, <3>1, <3>2 DEF HandsOK, Asked
  <2>4. CASE held'[d] = 0 \/ ask[r] # "refresh" \/ d \in hung'
    <3>1. held'[d] \in {0, held[d]} \/ (Answer(r, d) /\ held'[d] = got[r])
      BY <1>2, DeliverEffect
    <3>2. CASE held'[d] \in {0, held[d]}
      <4>1. On(d)' \in {0, On(d)} /\ (held'[d] = 0 => On(d)' = 0)
        BY <3>2, SameLogin
      <4>2. \A e \in Devices : On(e)' \in {0, On(e)}
        BY <2>2, <4>1
      <4>3. \A q \in Requests : LoginAt(q)' \in {0, LoginAt(q)}
        BY <2>2
      <4>4. \A q \in Requests : by[q] = NoDevice => by'[q] = NoDevice
        BY <2>1
      <4>5. \A q \in Requests, e \in Devices : Asked(q, e, "refresh") /\ On(e)' # 0 =>
              Asked(q, e, "refresh")' \/ (by'[q] = NoDevice /\ e \in hung')
        BY <2>1, <2>4, <4>1 DEF Asked
      <4> QED BY <2>1, <4>2, <4>3, <4>4, <4>5, HandsKept
    <3> QED BY <2>3, <3>1, <3>2
  <2> QED BY <1>2, <2>3, <2>4, DeliverEffect
<1> QED BY <1>1, <1>2

\* Every step.
LEMMA HandsStep == ASSUME ServedInv, [SessionsNext]_sessionVars PROVE HandsOK'
<1> USE DEF ServedInv
<1>1. ASSUME NEW d \in Devices, Replay(d) PROVE HandsOK'
  <2>1. /\ UNCHANGED <<ask, by, hung>> /\ \A e \in Devices : held'[e] \in {0, held[e]}
        /\ \A q \in Requests : Carried(q)' = Carried(q)
    BY <1>1, ReplayEffect DEF Carried
  <2>2. (\A q \in Requests : LoginAt(q)' = LoginAt(q)) /\ \A e \in Devices : On(e)' \in {0, On(e)}
    BY <2>1, SameLogin
  <2> QED BY <2>1, <2>2, HandsKept DEF Asked
<1>2. CASE Forgot \/ Evict \/ UNCHANGED sessionVars
  <2>1. UNCHANGED <<handler, device, hung>>
    BY <1>2 DEF Forgot, Evict, DeleteKey, Record, sessionVars, history
  <2>2. UNCHANGED <<ask, by, held, hung>> /\ \A q \in Requests : Carried(q)' = Carried(q)
    BY <2>1 DEF handler, device, Carried
  <2>3. (\A q \in Requests : LoginAt(q)' = LoginAt(q)) /\ \A e \in Devices : On(e)' = On(e)
    BY <2>2, SameLogin
  <2> QED BY <2>2, <2>3, HandsKept DEF Asked
<1> QED BY <1>1, <1>2, HandsHandler, HandsDevice DEF SessionsNext
-----------------------------------------------------------------------------
\* The invariant of the keys takes every step.
LEMMA SessionInvStep == ASSUME SessionInv, [SessionsNext]_sessionVars PROVE SessionInv'
  BY TypeStep, SentStep, GuardedStep DEF SessionInv

\* A handler goes on with what it was asked for.
LEMMA KindStep == ASSUME SessionInv, KindOK, [SessionsNext]_sessionVars PROVE KindOK'
<1>1. ASSUME NEW r \in Requests, Handle(r) \/ SetStatus(r) \/ Reset(r), ~Done(r) PROVE KindOK'
  <2>1. ask' = ask /\ \A q \in Requests \ {r} : step'[q] = step[q]
    BY <1>1, HandlerEffect
  <2>2. /\ step'[r] \in {"user", "rotate", "revoke"} => step[r] \in {"check", "user"}
        /\ step'[r] \notin {"login", "check", "idle"} /\ (step'[r] = "unlog" => step[r] = "unlog")
    BY <1>1 DEF Handle, Login, Check, LoadUser, Revoke, Rotate, Logout, Deactivate, CommitStatus,
      Count, DropCode, EndByReset, SetStatus, Reset, Say, StorePair, Go, SessionInv, TypeParts, HandlerOK
  <2> QED BY <2>1, <2>2 DEF KindOK
<1>2. ASSUME NEW r \in Requests, Done(r) PROVE KindOK'
  BY <1>2, DoneEffect DEF KindOK
<1>3. ASSUME NEW r \in Requests, NEW d \in Devices, Ask(r, d) PROVE KindOK'
  BY <1>3, AskEffect DEF KindOK
<1>4. ASSUME NEW r \in Requests, NEW d \in Devices, Deliver(r, d) PROVE KindOK'
  BY <1>4, DeliverEffect DEF KindOK
<1>5. ASSUME NEW d \in Devices, Replay(d) PROVE KindOK'
  BY <1>5, ReplayEffect DEF KindOK
<1>6. CASE Forgot \/ Evict \/ UNCHANGED sessionVars
  BY <1>6 DEF Forgot, Evict, sessionVars, handler, KindOK
<1> QED BY <1>1, <1>2, <1>3, <1>4, <1>5, <1>6 DEF SessionsNext
-----------------------------------------------------------------------------
\* What a device waits for is not touched by a step of others.
LEMMA WaitKept ==
  ASSUME SessionInv, [SessionsNext]_sessionVars, NEW d \in Devices, NEW r \in Requests, WaitsFor(d, r),
         step'[r] = step[r], tok'[r] = tok[r], got'[r] = got[r],
         refreshing'[d] = refreshing[d], d \notin hung'
  PROVE  WaitsFor(d, r)'
<1>1. tok[r] \in 1 .. issued
  BY DEF WaitsFor, SessionInv, TypeParts, HandlerOK, ServerOK
<1> QED BY <1>1, LoginsKept DEF WaitsFor

\* The steps of the handlers.
LEMMA WaitsHandler ==
  ASSUME ServedInv, [SessionsNext]_sessionVars, NEW r \in Requests,
         Handle(r) \/ SetStatus(r) \/ Reset(r), ~Done(r)
  PROVE  WaitsOK'
<1> USE DEF ServedInv
<1>1. /\ UNCHANGED <<refreshing, ask, by, tok, hung>>
      /\ \A q \in Requests \ {r} : step'[q] = step[q] /\ got'[q] = got[q]
  BY HandlerEffect
<1>2. ASSUME NEW d \in Devices, Asked(r, d, "refresh") PROVE WaitsFor(d, r)'
  <2>1. WaitsFor(d, r)
    BY <1>2 DEF WaitsOK
  <2>2. tok[r] \in 1 .. issued /\ lineage'[tok[r]] = lineage[tok[r]] /\ closed \subseteq closed'
    BY <2>1, LoginsKept DEF WaitsFor, SessionInv, TypeParts, HandlerOK, ServerOK
  <2>3. CASE Check(r)
    <3>1. \/ step'[r] \in {"user", "revoke"}
          \/ step'[r] = "answer" /\ got'[r] = 0 /\ fp = 0
      BY <2>3 DEF Check, Say, Go, SessionInv, TypeParts, HandlerOK
    <3>2. fp = 0 => lineage[tok[r]] \in closed
      BY <2>2 DEF CurrentOK
    <3> QED BY <1>1, <2>1, <2>2, <3>1, <3>2 DEF WaitsFor
  <2>4. CASE LoadUser(r)
    <3>1. step'[r] \in {"rotate", "revoke"}
      BY <2>4 DEF LoadUser, Go, SessionInv, TypeParts, HandlerOK
    <3> QED BY <1>1, <2>1, <3>1 DEF WaitsFor
  <2>5. CASE Revoke(r)
    <3>1. step'[r] = "answer" /\ fp' = 0 /\ issued' = issued
      BY <2>5 DEF Revoke, DeleteKey, Say, Go, SessionInv, TypeParts, HandlerOK
    <3>2. lineage'[tok[r]] \in closed'
      BY <2>2, <3>1, CurrentStep DEF CurrentOK
    <3> QED BY <1>1, <2>1, <3>1, <3>2 DEF WaitsFor
  <2>6. CASE Rotate(r)
    <3>1. step'[r] = "answer" /\ got'[r] # 0
      BY <2>6 DEF Rotate, StorePair, Say, Go, SessionInv, TypeParts, HandlerOK, ServerOK
    <3> QED BY <1>1, <2>1, <3>1 DEF WaitsFor
  <2>7. ~(Login(r) \/ Logout(r) \/ Deactivate(r) \/ CommitStatus(r) \/ Count(r) \/ DropCode(r)
          \/ EndByReset(r) \/ SetStatus(r) \/ Reset(r))
    BY <2>1 DEF WaitsFor, Login, Logout, Deactivate, CommitStatus, Count, DropCode, EndByReset,
      SetStatus, Reset
  <2> QED BY <2>3, <2>4, <2>5, <2>6, <2>7 DEF Handle
<1>3. ASSUME NEW q \in Requests \ {r}, NEW d \in Devices, Asked(q, d, "refresh") PROVE WaitsFor(d, q)'
  <2>1. WaitsFor(d, q) /\ d \notin hung'
    BY <1>1, <1>3 DEF WaitsOK, WaitsFor
  <2> QED BY <1>1, <2>1, WaitKept
<1>4. \A q \in Requests, d \in Devices : Asked(q, d, "refresh")' = Asked(q, d, "refresh")
  BY <1>1 DEF Asked
<1> QED BY <1>1, <1>2, <1>3, <1>4 DEF WaitsOK

\* The requests of the devices, and their answers.
LEMMA WaitsDevice ==
  ASSUME ServedInv, [SessionsNext]_sessionVars, NEW r \in Requests, NEW d \in Devices,
         Ask(r, d) \/ Deliver(r, d)
  PROVE  WaitsOK'
<1> USE DEF ServedInv
<1>0. hung \subseteq Devices
  BY DEF SessionInv, TypeParts, HistoryOK
<1>1. CASE Ask(r, d)
  <2>1. /\ hung' = hung /\ got' = got /\ by'[r] = d /\ tok'[r] = held[d]
        /\ \A q \in Requests \ {r} : /\ step'[q] = step[q] /\ tok'[q] = tok[q]
                                     /\ \A e \in Devices : Asked(q, e, "refresh")' = Asked(q, e, "refresh")
    BY <1>1, AskEffect DEF Asked
  <2>2. CASE ask'[r] = "refresh"
    <3>1. /\ step'[r] = "check" /\ held[d] # 0 /\ refreshing[d] = 0
          /\ refreshing' = [refreshing EXCEPT ![d] = held[d]]
      BY <1>1, <2>2, AskEffect
    <3>2. /\ d \notin hung /\ \A q \in Requests : ~Asked(q, d, "refresh")
          /\ refreshing'[d] = held[d] /\ \A e \in Devices \ {d} : refreshing'[e] = refreshing[e]
      BY <3>1, NoneFlying DEF SessionInv, TypeParts, DeviceOK
    <3>3. WaitsFor(d, r)'
      BY <2>1, <3>1, <3>2 DEF WaitsFor
    <3>4. ASSUME NEW q \in Requests \ {r}, NEW e \in Devices, Asked(q, e, "refresh")
          PROVE  e # d /\ WaitsFor(e, q)'
      <4>1. e # d /\ WaitsFor(e, q) /\ e \notin hung'
        BY <2>1, <3>2, <3>4 DEF WaitsOK, WaitsFor
      <4> QED BY <2>1, <3>2, <4>1, WaitKept
    <3>5. \A e \in Devices : Asked(r, e, "refresh")' => e = d
      BY <2>1 DEF Asked
    <3> QED BY <1>0, <2>1, <3>2, <3>3, <3>4, <3>5 DEF WaitsOK
  <2>3. CASE ask'[r] # "refresh"
    <3>1. refreshing' = refreshing /\ \A e \in Devices : ~Asked(r, e, "refresh")'
      BY <1>1, <2>3, AskEffect DEF Asked
    <3>2. ASSUME NEW q \in Requests \ {r}, NEW e \in Devices, Asked(q, e, "refresh") PROVE WaitsFor(e, q)'
      <4>1. WaitsFor(e, q) /\ e \notin hung'
        BY <2>1, <3>2 DEF WaitsOK, WaitsFor
      <4> QED BY <2>1, <3>1, <4>1, WaitKept
    <3> QED BY <2>1, <3>1, <3>2 DEF WaitsOK
  <2> QED BY <2>2, <2>3
<1>2. CASE Deliver(r, d)
  <2>1. /\ by[r] = d /\ by'[r] = NoDevice
        /\ \A q \in Requests \ {r} : /\ step'[q] = step[q] /\ ask'[q] = ask[q] /\ by'[q] = by[q]
                                     /\ tok'[q] = tok[q] /\ got'[q] = got[q]
        /\ \A e \in Devices \ {d} : refreshing'[e] = refreshing[e]
        /\ ask[r] # "refresh" => refreshing'[d] = refreshing[d] /\ hung' = hung
        /\ hung' = hung \/ (hung' = hung \cup {d} /\ refreshing' = refreshing /\ ask[r] = "refresh")
    BY <1>2, DeliverEffect
  <2>2. /\ \A e \in Devices : ~Asked(r, e, "refresh")'
        /\ \A q \in Requests \ {r}, e \in Devices : Asked(q, e, "refresh")' = Asked(q, e, "refresh")
    BY <2>1, SessionsAssumption DEF Asked
  <2>3. ask[r] = "refresh" => /\ Asked(r, d, "refresh") /\ WaitsFor(d, r)
                              /\ \A q \in Requests \ {r} : ~Asked(q, d, "refresh")
    BY <2>1 DEF Asked, WaitsOK
  <2>4. ASSUME NEW q \in Requests \ {r}, NEW e \in Devices, Asked(q, e, "refresh") PROVE WaitsFor(e, q)'
    <3>1. WaitsFor(e, q) /\ (e = d => ask[r] # "refresh")
      BY <2>3, <2>4 DEF WaitsOK
    <3>2. refreshing'[e] = refreshing[e] /\ e \notin hung'
      BY <2>1, <3>1 DEF WaitsFor
    <3> QED BY <2>1, <3>1, <3>2, WaitKept
  <2>5. ASSUME NEW e \in hung' PROVE refreshing'[e] # 0
    <3>1. CASE e = d /\ ask[r] = "refresh"
      <4>1. d \notin hung /\ refreshing[d] # 0
        BY <2>3, <3>1 DEF WaitsFor
      <4> QED BY <2>1, <2>5, <3>1, <4>1
    <3>2. CASE ~(e = d /\ ask[r] = "refresh")
      <4>1. e \in hung /\ e \in Devices
        BY <1>0, <2>1, <2>5, <3>2
      <4> QED BY <2>1, <3>2, <4>1 DEF WaitsOK
    <3> QED BY <3>1, <3>2
  <2> QED BY <2>2, <2>4, <2>5 DEF WaitsOK
<1> QED BY <1>1, <1>2

\* Every step.
LEMMA WaitsStep == ASSUME ServedInv, [SessionsNext]_sessionVars PROVE WaitsOK'
<1> USE DEF ServedInv
<1>1. ASSUME UNCHANGED <<refreshing, hung>>,
             \A q \in Requests, e \in Devices : Asked(q, e, "refresh")' =>
               /\ Asked(q, e, "refresh") /\ step'[q] = step[q]
               /\ tok'[q] = tok[q] /\ got'[q] = got[q]
      PROVE  WaitsOK'
  <2>1. ASSUME NEW q \in Requests, NEW e \in Devices, Asked(q, e, "refresh")' PROVE WaitsFor(e, q)'
    <3>1. WaitsFor(e, q) /\ e \notin hung'
      BY <1>1, <2>1 DEF WaitsOK, WaitsFor
    <3> QED BY <1>1, <2>1, <3>1, WaitKept
  <2> QED BY <1>1, <2>1 DEF WaitsOK
<1>2. ASSUME NEW d \in Devices, Replay(d) PROVE WaitsOK'
  BY <1>1, <1>2, ReplayEffect DEF Asked
<1>3. CASE Forgot \/ Evict \/ UNCHANGED sessionVars
  <2>1. UNCHANGED <<handler, device, hung>>
    BY <1>3 DEF Forgot, Evict, DeleteKey, Record, sessionVars, history
  <2> QED BY <1>1, <2>1 DEF handler, device, Asked
<1>4. ASSUME NEW r \in Requests, Done(r) PROVE WaitsOK'
  BY <1>1, <1>4, DoneEffect, SessionsAssumption DEF Asked
<1> QED BY <1>2, <1>3, <1>4, WaitsHandler, WaitsDevice DEF SessionsNext
-----------------------------------------------------------------------------
\* A blacklisted pair is out of the hands of every device that does not log out.
LEMMA BlockedHandler ==
  ASSUME ServedInv, [SessionsNext]_sessionVars, NEW r \in Requests,
         Handle(r) \/ SetStatus(r) \/ Reset(r), ~Done(r)
  PROVE  BlockedOK'
<1> USE DEF ServedInv
<1>1. /\ UNCHANGED <<held, ask, by, tok>>
      /\ \A q \in Requests \ {r} : step'[q] = step[q] /\ got'[q] = got[q]
      /\ step[r] # "answer"
  BY HandlerEffect
<1>2. /\ blocked \subseteq 1 .. issued /\ issued \in Nat
      /\ \A q \in Requests : tok[q] \in 0 .. issued /\ \A d \in Devices : held[d] \in 0 .. issued
  BY DEF SessionInv, TypeParts, ServerOK, HandlerOK, DeviceOK
<1>3. step'[r] = "answer" /\ got'[r] # 0 => got'[r] = issued + 1 /\ blocked' = blocked
  <2>1. (Login(r) /\ active) \/ Rotate(r) => got'[r] = issued + 1 /\ blocked' = blocked
    BY DEF Login, Rotate, StorePair, Say, SessionInv, TypeParts, HandlerOK
  <2>2. step'[r] = "answer" /\ Carried(r)' # 0 => (Login(r) /\ active) \/ Rotate(r)
    BY HandlerEffect
  <2> QED BY <2>1, <2>2 DEF Carried
<1>4. blocked' = blocked \/ (step[r] = "unlog" /\ blocked' = blocked \cup {tok[r]})
  BY DEF Handle, Login, Check, LoadUser, Revoke, Rotate, Logout, Deactivate,
    CommitStatus, Count, DropCode, EndByReset, SetStatus, Reset, server
<1>5. ASSUME NEW q \in Requests, step'[q] = "answer", got'[q] # 0 PROVE FreshPair(got[q])'
  <2>1. CASE q = r
    <3>1. got'[r] = issued + 1 /\ blocked' = blocked
      BY <1>3, <1>5, <2>1
    <3>2. got'[r] \notin blocked /\ \A p \in Requests : tok[p] # got'[r] /\ \A d \in Devices : held[d] # got'[r]
      BY <1>2, <3>1
    <3> QED BY <1>1, <2>1, <3>1, <3>2 DEF FreshPair
  <2>2. CASE q # r
    BY <1>1, <1>4, <1>5, <2>2 DEF BlockedOK, FreshPair
  <2> QED BY <2>1, <2>2
<1>6. step'[r] = "unlog" => step[r] = "unlog"
  BY DEF Handle, Login, Check, LoadUser, Revoke, Rotate, Logout, Deactivate, CommitStatus,
    Count, DropCode, EndByReset, SetStatus, Reset, Say, StorePair, Go, SessionInv, TypeParts, HandlerOK
<1>7. ASSUME NEW q \in Requests, NEW d \in Devices, step'[q] = "unlog", tok'[q] = held'[d] PROVE by'[q] = d
  BY <1>1, <1>6, <1>7 DEF BlockedOK
<1>8. ASSUME NEW d \in Devices, held'[d] \in blocked' PROVE \E q \in Requests : Asked(q, d, "logout")'
  <2>1. CASE held[d] \in blocked
    BY <1>1, <2>1 DEF BlockedOK, Asked
  <2>2. CASE step[r] = "unlog" /\ held[d] = tok[r]
    BY <1>1, <2>2 DEF BlockedOK, KindOK, Asked
  <2> QED BY <1>1, <1>4, <1>8, <2>1, <2>2
<1> QED BY <1>5, <1>7, <1>8 DEF BlockedOK

\* The requests of the devices.
LEMMA BlockedAsk ==
  ASSUME ServedInv, NEW r \in Requests, NEW d \in Devices, Ask(r, d) PROVE BlockedOK'
<1> USE DEF ServedInv
<1>1. /\ UNCHANGED <<blocked, held, got>> /\ step[r] = "idle" /\ by'[r] = d /\ tok'[r] = held[d]
      /\ \A q \in Requests \ {r} :
           step'[q] = step[q] /\ ask'[q] = ask[q] /\ by'[q] = by[q] /\ tok'[q] = tok[q]
      /\ step'[r] # "answer" /\ (step'[r] = "unlog" => held[d] # 0)
  BY AskEffect
<1>2. ASSUME NEW q \in Requests, step'[q] = "answer", got'[q] # 0 PROVE FreshPair(got[q])'
  BY <1>1, <1>2 DEF BlockedOK, FreshPair
<1>3. ASSUME NEW q \in Requests, NEW e \in Devices, step'[q] = "unlog", tok'[q] = held'[e] PROVE by'[q] = e
  <2>1. CASE q = r
    <3>1. held[d] = held[e] /\ held[d] \in 1 .. issued
      BY <1>1, <1>3, <2>1 DEF SessionInv, TypeParts, DeviceOK, ServerOK
    <3>2. On(d) # 0 /\ On(d) = On(e)
      BY <3>1 DEF On, LoginOf, SessionInv, TypeParts, LineageOK, ServerOK
    <3> QED BY <1>1, <2>1, <3>2 DEF HandsOK
  <2>2. CASE q # r
    BY <1>1, <1>3, <2>2 DEF BlockedOK
  <2> QED BY <2>1, <2>2
<1>4. ASSUME NEW e \in Devices, held'[e] \in blocked' PROVE \E q \in Requests : Asked(q, e, "logout")'
  <2>1. PICK q \in Requests : Asked(q, e, "logout")
    BY <1>1, <1>4 DEF BlockedOK
  <2>2. q # r
    BY <1>1, <2>1 DEF KindOK, Asked
  <2> QED BY <1>1, <2>1, <2>2 DEF Asked
<1> QED BY <1>2, <1>3, <1>4 DEF BlockedOK

\* Their answers.
LEMMA BlockedDeliver ==
  ASSUME ServedInv, NEW r \in Requests, NEW d \in Devices, Deliver(r, d) PROVE BlockedOK'
<1> USE DEF ServedInv
<1>1. /\ UNCHANGED blocked /\ by[r] = d /\ by'[r] = NoDevice
      /\ \A q \in Requests \ {r} : /\ step'[q] = step[q] /\ ask'[q] = ask[q] /\ by'[q] = by[q]
                                   /\ tok'[q] = tok[q] /\ got'[q] = got[q]
      /\ \/ step'[r] = "idle" /\ tok'[r] = 0
         \/ step'[r] = step[r] /\ tok'[r] = tok[r] /\ got'[r] = got[r] /\ ~Answer(r, d)
      /\ \A e \in Devices \ {d} : held'[e] = held[e]
      /\ Answer(r, d) => step[r] = "answer"
      /\ held'[d] \in {0, held[d]} \/ (Answer(r, d) /\ held'[d] = got[r])
      /\ ask[r] = "logout" => held'[d] = 0
  BY DeliverEffect
<1>2. /\ 0 \notin blocked
      /\ Answer(r, d) => \A q \in Requests \ {r} : step[q] = "answer" /\ got[q] # 0 => got[q] # got[r]
  <2>1. 0 \notin blocked
    BY DEF SessionInv, TypeParts, ServerOK
  <2>2. ASSUME Answer(r, d), NEW q \in Requests, step[q] = "answer", got[q] # 0, got[q] = got[r] PROVE q = r
    <3>1. step[r] = "answer"
      BY <1>1, <2>2
    <3>2. Carried(q) = got[q] /\ Carried(r) = got[q] /\ got[q] \in 1 .. issued
      BY <2>2, <3>1 DEF Carried, SessionInv, TypeParts, HandlerOK, ServerOK
    <3>3. LoginAt(q) = LoginAt(r) /\ LoginAt(q) # 0
      BY <3>2 DEF LoginAt, LoginOf, SessionInv, TypeParts, LineageOK, ServerOK
    <3> QED BY <3>3 DEF HandsOK
  <2> QED BY <2>1, <2>2
<1>3. ASSUME NEW q \in Requests, step'[q] = "answer", got'[q] # 0 PROVE FreshPair(got[q])'
  <2>1. step[q] = "answer" /\ got'[q] = got[q] /\ FreshPair(got[q]) /\ (q = r => ~Answer(r, d))
    BY <1>1, <1>3 DEF BlockedOK
  <2>2. \A p \in Requests : tok'[p] # got[q]
    BY <1>1, <1>3, <2>1 DEF FreshPair
  <2>3. \A e \in Devices : held'[e] # got[q]
    BY <1>1, <1>2, <1>3, <2>1 DEF FreshPair
  <2> QED BY <1>1, <2>1, <2>2, <2>3 DEF FreshPair
<1>4. ASSUME NEW q \in Requests, NEW e \in Devices, step'[q] = "unlog", tok'[q] = held'[e] PROVE by'[q] = e
  <2>1. step[q] = "unlog" /\ tok'[q] = tok[q] /\ tok[q] # 0 /\ ask[q] = "logout" /\ ~Answer(q, d)
    BY <1>1, <1>4 DEF SessionInv, Sent, KindOK, Answer
  <2>2. held'[e] = held[e]
    <3>1. CASE e = d /\ Answer(r, d) /\ held'[d] = got[r]
      <4>1. FreshPair(got[r])
        BY <1>1, <1>4, <2>1, <3>1 DEF BlockedOK
      <4> QED BY <1>4, <2>1, <3>1, <4>1 DEF FreshPair
    <3> QED BY <1>1, <1>4, <2>1, <3>1
  <2>3. by[q] = e
    BY <1>4, <2>1, <2>2 DEF BlockedOK
  <2>4. q # r
    BY <1>1, <1>4, <2>1, <2>3
  <2> QED BY <1>1, <2>3, <2>4
<1>5. ASSUME NEW e \in Devices, held'[e] \in blocked' PROVE \E q \in Requests : Asked(q, e, "logout")'
  <2>1. held'[e] = held[e]
    <3>1. CASE e = d /\ Answer(r, d) /\ held'[d] = got[r]
      <4>1. got[r] # 0 /\ step[r] = "answer"
        BY <1>1, <1>2, <1>5, <3>1
      <4>2. FreshPair(got[r])
        BY <4>1 DEF BlockedOK
      <4> QED BY <1>1, <1>5, <3>1, <4>2 DEF FreshPair
    <3> QED BY <1>1, <1>2, <1>5, <3>1
  <2>2. PICK q \in Requests : Asked(q, e, "logout")
    BY <1>1, <1>5, <2>1 DEF BlockedOK
  <2>3. q # r
    BY <1>1, <1>2, <1>5, <2>2 DEF Asked
  <2> QED BY <1>1, <2>2, <2>3 DEF Asked
<1> QED BY <1>3, <1>4, <1>5 DEF BlockedOK

\* Every step.
LEMMA BlockedStep == ASSUME ServedInv, [SessionsNext]_sessionVars PROVE BlockedOK'
<1> USE DEF ServedInv
<1>1. 0 \notin blocked
  BY DEF SessionInv, TypeParts, ServerOK
<1>2. ASSUME NEW d \in Devices, Replay(d) PROVE BlockedOK'
  <2>1. /\ UNCHANGED <<blocked, step, ask, by, tok, got>> /\ \A e \in Devices : held'[e] \in {0, held[e]}
    BY <1>2, ReplayEffect
  <2>2. \A q \in Requests : step[q] = "unlog" => tok[q] # 0
    BY DEF SessionInv, Sent
  <2> QED BY <1>1, <2>1, <2>2 DEF BlockedOK, FreshPair, Asked
<1>3. CASE Forgot \/ Evict \/ UNCHANGED sessionVars
  <2>1. UNCHANGED <<blocked, handler, device>>
    BY <1>3 DEF Forgot, Evict, sessionVars, server
  <2> QED BY <2>1 DEF BlockedOK, FreshPair, Asked, handler, device
<1>4. ASSUME NEW r \in Requests, Done(r) PROVE BlockedOK'
  <2>1. /\ UNCHANGED <<blocked, held>> /\ step'[r] = "idle" /\ tok'[r] = 0 /\ by[r] = NoDevice
        /\ \A q \in Requests \ {r} : /\ step'[q] = step[q] /\ ask'[q] = ask[q] /\ by'[q] = by[q]
                                     /\ tok'[q] = tok[q] /\ got'[q] = got[q]
    BY <1>4, DoneEffect
  <2>2. \A q \in Requests, e \in Devices : Asked(q, e, "logout") => Asked(q, e, "logout")'
    BY <2>1, SessionsAssumption DEF Asked
  <2> QED BY <2>1, <2>2 DEF BlockedOK, FreshPair
<1> QED BY <1>2, <1>3, <1>4, BlockedHandler, BlockedAsk, BlockedDeliver DEF SessionsNext
-----------------------------------------------------------------------------
\* A step that leaves the key alone, in which no pair comes from elsewhere and
\* no answer is taken away from a device that still holds its pair.
LEMMA FreshKept ==
  ASSUME SessionInv, [SessionsNext]_sessionVars, FreshOK, fp' = fp, closed' = closed,
         \A q \in Requests : step'[q] \in {"check", "answer"} /\ Carried(q)' # 0
             => step[q] \in {"check", "answer"} /\ Carried(q)' = Carried(q),
         \A d \in Devices : held'[d] # 0
             => held'[d] = held[d] /\ (Answered(d) \/ d \in hung => Answered(d)' \/ d \in hung')
  PROVE  FreshOK'
<1>1. ASSUME NEW q \in Requests, step'[q] \in {"check", "answer"}, Carried(q)' # 0
      PROVE  LoginAt(q)' \in closed' \/ Carried(q)' = fp'
  BY <1>1, SameLogin DEF FreshOK
<1>2. ASSUME NEW d \in Devices, held'[d] # 0
      PROVE  On(d)' \in closed' \/ fp' = held'[d] \/ Answered(d)' \/ d \in hung'
  BY <1>2, SameLogin DEF FreshOK
<1> QED BY <1>1, <1>2 DEF FreshOK

\* When the key is gone, every login is closed.
LEMMA FreshDeleted ==
  ASSUME ServedInv, [SessionsNext]_sessionVars, fp' = 0 PROVE FreshOK'
<1>1. SessionInv' /\ CurrentOK'
  BY SessionInvStep, CurrentStep DEF ServedInv
<1>2. \A n \in 1 .. issued' : lineage'[n] \in closed'
  BY <1>1 DEF CurrentOK
<1>3. /\ \A q \in Requests : Carried(q)' \in 0 .. issued' /\ \A d \in Devices : held'[d] \in 0 .. issued'
      /\ issued' \in Nat
  BY <1>1 DEF SessionInv, TypeParts, HandlerOK, DeviceOK, ServerOK, Carried
<1>4. ASSUME NEW q \in Requests, Carried(q)' # 0 PROVE LoginAt(q)' \in closed'
  <2>1. Carried(q)' \in 1 .. issued'
    BY <1>3, <1>4
  <2> QED BY <1>2, <1>4, <2>1 DEF LoginAt, LoginOf
<1>5. ASSUME NEW d \in Devices, held'[d] # 0 PROVE On(d)' \in closed'
  <2>1. held'[d] \in 1 .. issued'
    BY <1>1, <1>5 DEF SessionInv, TypeParts, DeviceOK, ServerOK
  <2> QED BY <1>2, <1>5, <2>1 DEF On, LoginOf
<1> QED BY <1>4, <1>5 DEF FreshOK

\* When a pair is stored, every login but its own is closed, and its own is in
\* the hands of the handler that stored it and of the device that waits.
LEMMA FreshStored ==
  ASSUME ServedInv, [SessionsNext]_sessionVars, NEW r \in Requests,
         (Login(r) /\ active) \/ Rotate(r)
  PROVE  FreshOK'
<1>1. SessionInv' /\ CurrentOK' /\ HandsOK'
  BY SessionInvStep, CurrentStep, HandsStep DEF ServedInv
<1>2. /\ step'[r] = "answer" /\ got'[r] = issued + 1 /\ fp' = issued + 1 /\ fp' # 0
  BY DEF Login, Rotate, StorePair, Say, Go, ServedInv, SessionInv, TypeParts, HandlerOK, ServerOK
<1>3. Carried(r)' = fp' /\ LoginAt(r)' = lineage'[fp'] /\ LoginAt(r)' # 0
  <2>1. Carried(r)' = fp' /\ LoginAt(r)' = lineage'[fp']
    BY <1>2 DEF Carried, LoginAt, LoginOf
  <2>2. fp' \in 1 .. issued'
    BY <1>1, <1>2 DEF SessionInv, TypeParts, ServerOK
  <2> QED BY <1>1, <2>1, <2>2 DEF SessionInv, TypeParts, ServerOK, LineageOK
<1>4. ASSUME NEW q \in Requests, Carried(q)' # 0 PROVE LoginAt(q)' \in closed' \/ Carried(q)' = fp'
  <2>1. Carried(q)' \in 1 .. issued' /\ LoginAt(q)' = lineage'[Carried(q)']
    BY <1>1, <1>4 DEF LoginAt, LoginOf, SessionInv, TypeParts, HandlerOK, ServerOK, Carried
  <2>2. LoginAt(q)' \in closed' \/ LoginAt(q)' = LoginAt(r)'
    BY <1>1, <1>3, <2>1 DEF CurrentOK
  <2> QED BY <1>1, <1>3, <2>2 DEF HandsOK
<1>5. ASSUME NEW d \in Devices, held'[d] # 0 PROVE On(d)' \in closed' \/ Answered(d)' \/ d \in hung'
  <2>1. held'[d] \in 1 .. issued' /\ On(d)' = lineage'[held'[d]]
    BY <1>1, <1>5 DEF On, LoginOf, SessionInv, TypeParts, DeviceOK, ServerOK
  <2>2. On(d)' \in closed' \/ On(d)' = LoginAt(r)'
    BY <1>1, <1>3, <2>1 DEF CurrentOK
  <2> QED BY <1>1, <1>2, <1>3, <2>2 DEF HandsOK, Answered
<1> QED BY <1>4, <1>5 DEF FreshOK

\* The steps of the handlers.
LEMMA FreshHandler ==
  ASSUME ServedInv, [SessionsNext]_sessionVars, NEW r \in Requests,
         Handle(r) \/ SetStatus(r) \/ Reset(r)
  PROVE  FreshOK'
<1> USE DEF ServedInv
<1>1. CASE Done(r)
  <2>1. /\ UNCHANGED <<fp, closed, held, hung>> /\ by[r] = NoDevice /\ step'[r] = "idle"
        /\ \A q \in Requests \ {r} : /\ by'[q] = by[q] /\ step'[q] = step[q] /\ ask'[q] = ask[q]
                                     /\ Carried(q)' = Carried(q)
    BY <1>1, DoneEffect DEF Carried
  <2>2. \A d \in Devices : Answered(d) => Answered(d)'
    BY <2>1, SessionsAssumption DEF Answered, Asked
  <2> QED BY <2>1, <2>2, FreshKept
<1>2. CASE (Login(r) /\ active) \/ Rotate(r)
  BY <1>2, FreshStored
<1>3. CASE ~Done(r) /\ ~(Login(r) /\ active) /\ ~Rotate(r)
  <2>1. /\ UNCHANGED <<held, ask, by, tok, hung>>
        /\ \A q \in Requests \ {r} : step'[q] = step[q] /\ got'[q] = got[q]
        /\ step[r] # "answer" /\ step'[r] # "check"
        /\ step'[r] = "answer" => Carried(r)' = 0
    BY <1>3, HandlerEffect
  <2>2. \A q \in Requests \ {r} : Carried(q)' = Carried(q)
    BY <2>1 DEF Carried
  <2>3. \A d \in Devices : Answered(d) => Answered(d)'
    BY <2>1 DEF Answered, Asked
  <2>4. fp' = 0 \/ (fp' = fp /\ closed' = closed)
    BY <1>3 DEF Handle, Login, Check, LoadUser, Revoke, Logout, Deactivate, CommitStatus, Count,
      DropCode, EndByReset, SetStatus, Reset, DeleteKey, server, history
  <2>5. CASE fp' = 0
    BY <2>5, FreshDeleted
  <2>6. CASE fp' = fp /\ closed' = closed
    BY <2>1, <2>2, <2>3, <2>6, FreshKept
  <2> QED BY <2>4, <2>5, <2>6
<1> QED BY <1>1, <1>2, <1>3

\* The requests of the devices, and their answers.
LEMMA FreshDevice ==
  ASSUME ServedInv, [SessionsNext]_sessionVars, NEW r \in Requests, NEW d \in Devices,
         Ask(r, d) \/ Deliver(r, d)
  PROVE  FreshOK'
<1> USE DEF ServedInv
<1>1. CASE Ask(r, d)
  <2>1. /\ UNCHANGED <<fp, closed, held, got, hung>> /\ step[r] = "idle" /\ tok'[r] = held[d]
        /\ \A q \in Requests \ {r} :
             step'[q] = step[q] /\ ask'[q] = ask[q] /\ by'[q] = by[q] /\ tok'[q] = tok[q]
        /\ step'[r] \in {"login", "unlog"} \/ (step'[r] = "check" /\ refreshing[d] = 0)
    BY <1>1, AskEffect
  <2>2. \A e \in Devices : Answered(e) => Answered(e)'
    BY <2>1 DEF Answered, Asked
  <2>3. ASSUME NEW q \in Requests, step'[q] \in {"check", "answer"}, Carried(q)' # 0
        PROVE  LoginAt(q)' \in closed' \/ Carried(q)' = fp'
    <3>1. CASE q = r
      <4>1. Carried(r)' = held[d] /\ LoginAt(r)' = On(d)
        BY <2>1, <2>3, <3>1, SameLogin DEF Carried
      <4>2. d \notin hung /\ ~Answered(d)
        BY <2>1, <2>3, <3>1, NoneFlying DEF Answered
      <4> QED BY <2>1, <2>3, <3>1, <4>1, <4>2 DEF FreshOK
    <3>2. CASE q # r
      <4>1. Carried(q)' = Carried(q) /\ step'[q] = step[q]
        BY <2>1, <3>2 DEF Carried
      <4> QED BY <2>1, <2>3, <4>1, SameLogin DEF FreshOK
    <3> QED BY <3>1, <3>2
  <2>4. ASSUME NEW e \in Devices, held'[e] # 0
        PROVE  On(e)' \in closed' \/ fp' = held'[e] \/ Answered(e)' \/ e \in hung'
    BY <2>1, <2>2, <2>4, SameLogin DEF FreshOK
  <2> QED BY <2>3, <2>4 DEF FreshOK
<1>2. CASE Deliver(r, d)
  <2>1. /\ UNCHANGED <<fp, closed>> /\ by[r] = d /\ hung \subseteq hung'
        /\ \A q \in Requests \ {r} : /\ step'[q] = step[q] /\ ask'[q] = ask[q] /\ by'[q] = by[q]
                                     /\ tok'[q] = tok[q] /\ got'[q] = got[q]
        /\ step'[r] = "idle" \/ (step'[r] = step[r] /\ Carried(r)' = Carried(r))
        /\ \A e \in Devices \ {d} : held'[e] = held[e]
        /\ \/ held'[d] = 0 \/ (Answer(r, d) /\ held'[d] = got[r])
           \/ held'[d] = held[d] /\ (ask[r] # "refresh" \/ d \in hung')
    BY <1>2, DeliverEffect DEF Carried
  <2>2. \A q \in Requests \ {r} : Carried(q)' = Carried(q)
    BY <2>1 DEF Carried
  <2>3. ASSUME NEW q \in Requests, step'[q] \in {"check", "answer"}, Carried(q)' # 0
        PROVE  LoginAt(q)' \in closed' \/ Carried(q)' = fp'
    BY <2>1, <2>2, <2>3, SameLogin DEF FreshOK
  <2>4. ASSUME NEW e \in Devices, held'[e] # 0
        PROVE  On(e)' \in closed' \/ fp' = held'[e] \/ Answered(e)' \/ e \in hung'
    <3>1. CASE held'[e] = held[e] /\ (Answered(e) \/ e \in hung => Answered(e)' \/ e \in hung')
      BY <2>1, <2>4, <3>1, SameLogin DEF FreshOK
    <3>2. CASE e # d
      BY <2>1, <3>1, <3>2 DEF Answered, Asked
    <3>3. CASE e = d /\ held'[d] = held[d] /\ (ask[r] # "refresh" \/ d \in hung')
      BY <2>1, <3>1, <3>3 DEF Answered, Asked
    <3>4. CASE e = d /\ Answer(r, d) /\ held'[d] = got[r]
      <4>1. step[r] = "answer" /\ Carried(r) = held'[d] /\ On(d)' = LoginAt(r)
        BY <1>2, <3>4, DeliverEffect, SameLogin DEF Carried
      <4> QED BY <2>1, <2>4, <3>4, <4>1 DEF FreshOK
    <3> QED BY <2>1, <2>4, <3>2, <3>3, <3>4
  <2> QED BY <2>3, <2>4 DEF FreshOK
<1> QED BY <1>1, <1>2

\* Every step.
LEMMA FreshStep == ASSUME ServedInv, [SessionsNext]_sessionVars PROVE FreshOK'
<1> USE DEF ServedInv
<1>1. ASSUME NEW d \in Devices, Replay(d) PROVE FreshOK'
  <2>1. /\ UNCHANGED <<fp, closed, hung, step, ask, by, tok, got>>
        /\ \A e \in Devices : held'[e] \in {0, held[e]}
    BY <1>1, ReplayEffect
  <2>2. (\A q \in Requests : Carried(q)' = Carried(q)) /\ \A e \in Devices : Answered(e)' = Answered(e)
    BY <2>1 DEF Carried, Answered, Asked
  <2> QED BY <2>1, <2>2, FreshKept
<1>2. CASE Forgot \/ UNCHANGED sessionVars
  <2>1. UNCHANGED <<fp, closed, hung, step, ask, by, tok, got, held>>
    BY <1>2 DEF Forgot, sessionVars, server, handler, device, history
  <2>2. (\A q \in Requests : Carried(q)' = Carried(q)) /\ \A e \in Devices : Answered(e)' = Answered(e)
    BY <2>1 DEF Carried, Answered, Asked
  <2> QED BY <2>1, <2>2, FreshKept
<1>3. CASE Evict
  BY <1>3, FreshDeleted DEF Evict, DeleteKey
<1> QED BY <1>1, <1>2, <1>3, FreshHandler, FreshDevice DEF SessionsNext
-----------------------------------------------------------------------------
\* A step takes the tokens of a device for a cause, and finds an old one for one.
LEMMA CauseStep ==
  ASSUME ServedInv, SessionsNext
  PROVE  /\ \A d \in Devices : (held[d] # 0 /\ held'[d] = 0) =>
              \/ \E r \in Requests : by[r] = d /\ ask[r] = "logout"
              \/ rare' # rare \/ ~active \/ lineage[held[d]] \in closed
              \/ refreshing[d] # 0 /\ lineage[refreshing[d]] \in closed
         /\ \A r \in Requests : (step[r] = "check" /\ step'[r] = "revoke") =>
              lineage[tok[r]] \in closed
<1> USE DEF ServedInv
<1>1. ASSUME NEW d \in Devices, held[d] # 0, held'[d] = 0
      PROVE  \/ \E r \in Requests : by[r] = d /\ ask[r] = "logout"
             \/ rare' # rare \/ ~active
             \/ refreshing[d] # 0 /\ lineage[refreshing[d]] \in closed
  <2>1. ASSUME NEW r \in Requests, Deliver(r, d), rare' = rare
        PROVE  \/ by[r] = d /\ ask[r] = "logout"
               \/ refreshing[d] # 0 /\ lineage[refreshing[d]] \in closed
    <3>1. Answer(r, d) /\ by[r] = d /\ step[r] = "answer" /\ ask[r] \in {"logout", "refresh"}
          /\ (ask[r] = "refresh" => got[r] = 0)
      BY <1>1, <2>1, DeliverEffect
    <3>2. CASE ask[r] = "refresh"
      <4>1. WaitsFor(d, r)
        BY <3>1, <3>2 DEF WaitsOK, Asked
      <4> QED BY <3>1, <3>2, <4>1 DEF WaitsFor
    <3> QED BY <3>1, <3>2
  <2>2. ASSUME Replay(d) PROVE ~active \/ \E r \in Requests : by[r] = d /\ ask[r] = "logout"
    BY <1>1, <2>2, ReplayEffect DEF Accepted, BlockedOK, Asked
  <2>3. ASSUME NEW e \in Devices, e # d, Replay(e) \/ \E r \in Requests : Deliver(r, e) PROVE FALSE
    BY <1>1, <2>3, ReplayEffect, DeliverEffect
  <2>4. ASSUME NEW r \in Requests, NEW e \in Devices, Ask(r, e) PROVE FALSE
    BY <1>1, <2>4, AskEffect
  <2>5. ASSUME NEW r \in Requests, Handle(r) \/ SetStatus(r) \/ Reset(r) PROVE FALSE
    BY <1>1, <2>5, HandlerEffect, DoneEffect
  <2>6. ~Forgot /\ ~Evict
    BY <1>1 DEF Forgot, Evict, device
  <2> QED BY <2>1, <2>2, <2>3, <2>4, <2>5, <2>6 DEF SessionsNext
<1>2. ASSUME NEW r \in Requests, step[r] = "check", step'[r] = "revoke"
      PROVE  lineage[tok[r]] \in closed
  <2>1. ASSUME NEW q \in Requests, NEW d \in Devices, Ask(q, d) \/ Deliver(q, d) PROVE FALSE
    BY <1>2, <2>1, AskEffect, DeliverEffect
  <2>2. (\A d \in Devices : ~Replay(d)) /\ ~Forgot /\ ~Evict
    BY <1>2 DEF Replay, Forgot, Evict, handler
  <2>3. PICK q \in Requests : Handle(q) \/ SetStatus(q) \/ Reset(q)
    BY <2>1, <2>2 DEF SessionsNext
  <2>4. ~Done(q) /\ q = r
    BY <1>2, <2>3, HandlerEffect, DoneEffect
  <2>5. Check(r)
    BY <1>2, <2>3, <2>4 DEF Handle, Login, LoadUser, Revoke, Rotate, Logout, Deactivate,
      CommitStatus, Count, DropCode, EndByReset, SetStatus, Reset
  <2>6. fp # tok[r]
    BY <1>2, <2>5 DEF Check, CheckPassed, Say, Go, SessionInv, TypeParts, HandlerOK
  <2>7. Carried(r) = tok[r] /\ tok[r] # 0
    BY <1>2 DEF Carried, Sent, SessionInv
  <2> QED BY <1>2, <2>6, <2>7 DEF FreshOK, LoginAt, LoginOf
<1> QED BY <1>1, <1>2

\* ServedInv holds in every state.
THEOREM ServedInvariant == SessionsSpec => []ServedInv
<1>1. SessionsInit => ServedInv
  <2> SUFFICES ASSUME SessionsInit PROVE ServedInv
    OBVIOUS
  <2>1. SessionInv
    BY SessionInvInit
  <2>2. /\ \A r \in Requests : step[r] = "idle" /\ by[r] = NoDevice /\ Carried(r) = 0 /\ LoginAt(r) = 0
        /\ \A d \in Devices : held[d] = 0 /\ On(d) = 0
        /\ issued = 0 /\ blocked = {}
    BY DEF SessionsInit, Carried, LoginAt, On, LoginOf
  <2>3. HandsOK /\ KindOK /\ WaitsOK /\ BlockedOK /\ FreshOK
    BY <2>2, SessionsAssumption DEF HandsOK, KindOK, WaitsOK, BlockedOK, FreshOK, Asked, SessionsInit
  <2>4. CurrentOK
    BY <2>2 DEF CurrentOK
  <2> QED BY <2>1, <2>3, <2>4 DEF ServedInv
<1>2. ServedInv /\ [SessionsNext]_sessionVars => ServedInv'
  BY SessionInvStep, HandsStep, KindStep, WaitsStep, BlockedStep, CurrentStep, FreshStep DEF ServedInv
<1> QED BY <1>1, <1>2, PTL DEF SessionsSpec

\* A device loses its tokens for a cause outside it only -- or for the refresh
\* of a login that was ended before, answered after the next login -- and a
\* refresh token is taken for an old one only when its login had been ended: one
\* refresh at a time serves every request that meets a 401 (refreshSession, api_client.dart;
\* auth_service.py:106-149).
THEOREM SignedOutOnlyForCause == SessionsSpec => SignedOutForCause
<1>1. ServedInv /\ [SessionsNext]_sessionVars =>
        [ /\ \A d \in Devices : (held[d] # 0 /\ held'[d] = 0) =>
               \/ \E r \in Requests : by[r] = d /\ ask[r] = "logout"
               \/ rare' # rare \/ ~active \/ lineage[held[d]] \in closed
               \/ refreshing[d] # 0 /\ lineage[refreshing[d]] \in closed
          /\ \A r \in Requests : (step[r] = "check" /\ step'[r] = "revoke") =>
               lineage[tok[r]] \in closed ]_sessionVars
  BY CauseStep
<1> QED BY <1>1, ServedInvariant, PTL DEF SessionsSpec, SignedOutForCause

-----------------------------------------------------------------------------
(* Staff.  No handler locks what it has read; the invariant says what a    *)
(* check still means at the commit, and whose overlap takes it away.       *)

\* Users that a handler is about.
UsersAreKnown ==
  /\ \A a \in Admins : /\ duty[a] \in Joining \cup {"leave"} => user[a] \in Staffers
                       /\ duty[a] = "role" => user[a] \in hired
  /\ \A u \in Staffers : memberOf[u] # NoTeam => u \in hired

\* Teams that a deletion is about exist.
DeletesATeam == \A a \in Admins : duty[a] = "delete" =>
                  team[a] \in Teams /\ teamState[team[a]] # "none"

\* A join and a deletion of one team at once are recorded.
MeetingsAreCrossed ==
  \A a, b \in Admins : (duty[a] \in Joining /\ duty[b] = "delete" /\ team[a] = team[b])
                         => team[a] \in crossed

\* A join that has passed its check is to a team that is live, or was crossed.
JoinsAreChecked ==
  \A a \in Admins : (duty[a] \in Joining /\ "team" \notin checks[a] /\ team[a] # NoTeam)
                      => teamState[team[a]] = "live" \/ team[a] \in crossed

\* A deletion that has read the members has read them all.
CrewIsAll ==
  \A a \in Admins : (duty[a] = "delete" /\ "crew" \notin checks[a] /\ team[a] \notin crossed)
                      => \A u \in Staffers : memberOf[u] = team[a] => u \in crew[a]

\* Without a race there is one writer of names, and what it checked holds.
OneWriter == ~namesRaced =>
  \A a, b \in Admins : (duty[a] \in Naming /\ duty[b] \in Naming) => a = b
NamesAreChecked == ~namesRaced =>
  \A a \in Admins : (duty[a] \in Naming /\ "name" \notin checks[a]) => NameFree(a)

MemberInv == /\ UsersAreKnown /\ DeletesATeam /\ MeetingsAreCrossed
             /\ JoinsAreChecked /\ CrewIsAll /\ NobodyInDeletedTeam
NameInv == OneWriter /\ NamesAreChecked /\ NamesDiffer
StaffInv == StaffTypeOK /\ MemberInv /\ NameInv
-----------------------------------------------------------------------------
Duties == Naming \cup Joining \cup {"lead", "delete", "leave", "role"}
Checks == {"name", "team", "leader", "crew"}

\* What a handler that begins is about, and the checks it will make.
BeginsAs(a, d, t, u, n, todo) ==
  /\ Begin(a, d, t, u, n, todo)
  /\ d \in Joining \cup {"leave"} => u \in Staffers
  /\ d = "role" => u \in hired
  /\ d \in Joining /\ t # NoTeam => "team" \in todo
  /\ d = "delete" => t \in Teams /\ Live(t) /\ "crew" \in todo
  /\ d \in Naming /\ "name" \notin todo => t \in Teams /\ Live(t) /\ Fold[n] = Fold[nameOf[t]]

Begins(a) ==
  \E d \in Duties, t \in Teams \cup {NoTeam}, u \in Staffers \cup {Nobody}, n \in Names, todo \in SUBSET Checks :
    BeginsAs(a, d, t, u, n, todo)

\* The witness is given by name: the handlers below begin with one each.
LEMMA BeginsSo ==
  ASSUME NEW a \in Admins, NEW d \in Duties, NEW t \in Teams \cup {NoTeam},
         NEW u \in Staffers \cup {Nobody}, NEW n \in Names, NEW todo \in SUBSET Checks,
         BeginsAs(a, d, t, u, n, todo)
  PROVE  Begins(a)
BY DEF Begins

\* The placeholder is a name.
LEMMA AnyNameIsOne == AnyName \in Names
  BY StaffAssumption DEF AnyName

\* The handlers that begin with a team, a member or a leader begin like that.
LEMMA BeginsTeam ==
  ASSUME StaffTypeOK, NEW a \in Admins, NEW t \in Teams,
         DeleteTeam(a, t) \/ \E n \in Names : RenameTeam(a, t, n)
  PROVE  Begins(a)
<1> USE AnyNameIsOne DEF Duties, Checks, Naming, Joining
<1>1. CASE DeleteTeam(a, t)
  <2>1. BeginsAs(a, "delete", t, Nobody, AnyName, {"crew"})
    BY <1>1 DEF DeleteTeam, BeginsAs
  <2> QED BY <2>1, BeginsSo
<1>2. ASSUME NEW n \in Names, RenameTeam(a, t, n) PROVE Begins(a)
  <2>1. CASE Fold[n] = Fold[nameOf[t]]
    <3>1. BeginsAs(a, "rename", t, Nobody, n, {})
      BY <1>2, <2>1 DEF RenameTeam, BeginsAs
    <3> QED BY <3>1, BeginsSo
  <2>2. CASE Fold[n] # Fold[nameOf[t]]
    <3>1. BeginsAs(a, "rename", t, Nobody, n, {"name"})
      BY <1>2, <2>2 DEF RenameTeam, BeginsAs
    <3> QED BY <3>1, BeginsSo
  <2> QED BY <2>1, <2>2
<1> QED BY <1>1, <1>2

\* A change of a member, or of a role.
LEMMA BeginsMember ==
  ASSUME StaffTypeOK, NEW a \in Admins, NEW u \in Staffers,
         \/ ChangeRole(a, u) \/ \E t \in Teams : Join(a, t, u) \/ LeaveTeam(a, t, u)
         \/ \E t \in Teams \cup {NoTeam} : Hire(a, t, u)
  PROVE  Begins(a)
<1> USE AnyNameIsOne DEF Duties, Checks, Naming, Joining
<1>1. CASE ChangeRole(a, u)
  <2>1. BeginsAs(a, "role", NoTeam, u, AnyName, {})
    BY <1>1 DEF ChangeRole, BeginsAs
  <2> QED BY <2>1, BeginsSo
<1>2. ASSUME NEW t \in Teams, Join(a, t, u) PROVE Begins(a)
  <2>1. BeginsAs(a, "join", t, u, AnyName, {"team"})
    BY <1>2 DEF Join, BeginsAs
  <2> QED BY <2>1, BeginsSo
<1>3. ASSUME NEW t \in Teams, LeaveTeam(a, t, u) PROVE Begins(a)
  <2>1. BeginsAs(a, "leave", t, u, AnyName, {})
    BY <1>3 DEF LeaveTeam, BeginsAs
  <2> QED BY <2>1, BeginsSo
<1>4. ASSUME NEW t \in Teams \cup {NoTeam}, Hire(a, t, u) PROVE Begins(a)
  <2>1. CASE t = NoTeam
    <3>1. BeginsAs(a, "hire", t, u, AnyName, {})
      BY <1>4, <2>1 DEF Hire, BeginsAs
    <3> QED BY <3>1, BeginsSo
  <2>2. CASE t # NoTeam
    <3>1. BeginsAs(a, "hire", t, u, AnyName, {"team"})
      BY <1>4, <2>2 DEF Hire, BeginsAs
    <3> QED BY <3>1, BeginsSo
  <2> QED BY <2>1, <2>2
<1> QED BY <1>1, <1>2, <1>3, <1>4

\* A new leader, and a new team.
LEMMA BeginsLeader ==
  ASSUME StaffTypeOK, NEW a \in Admins, NEW t \in Teams, NEW u \in Staffers \cup {Nobody},
         AssignLeader(a, t, u) \/ \E n \in Names : CreateTeam(a, t, u, n)
  PROVE  Begins(a)
<1> USE AnyNameIsOne DEF Duties, Checks, Naming, Joining
<1>1. CASE AssignLeader(a, t, u)
  <2>1. PICK todo \in SUBSET {"leader"} : Begin(a, "lead", t, u, AnyName, todo)
    BY <1>1 DEF AssignLeader
  <2>2. BeginsAs(a, "lead", t, u, AnyName, todo)
    BY <2>1 DEF BeginsAs
  <2> QED BY <2>2, BeginsSo
<1>2. ASSUME NEW n \in Names, CreateTeam(a, t, u, n) PROVE Begins(a)
  <2>1. PICK todo \in SUBSET {"name", "leader"} : "name" \in todo /\ Begin(a, "create", t, u, n, todo)
    BY <1>2 DEF CreateTeam
  <2>2. BeginsAs(a, "create", t, u, n, todo)
    BY <2>1 DEF BeginsAs
  <2> QED BY <2>2, BeginsSo
<1> QED BY <1>1, <1>2

\* The cases of a step.
LEMMA StaffCases ==
  ASSUME StaffTypeOK, [StaffNext]_staffVars
  PROVE  \/ \E a \in Admins : Begins(a)
         \/ \E a \in Admins, c \in Checks : CheckRow(a, c)
         \/ \E a \in Admins : \/ CommitName(a) \/ CommitLeader(a) \/ CommitDelete(a)
                              \/ CommitMember(a) \/ CommitRole(a)
         \/ UNCHANGED staffVars
  BY BeginsTeam, BeginsMember, BeginsLeader DEF StaffNext, Serve, Checks
-----------------------------------------------------------------------------
\* What a step leaves alone of the handlers but a.
Leaves(a) ==
  \A x \in Admins \ {a} : /\ duty'[x] = duty[x] /\ checks'[x] = checks[x] /\ team'[x] = team[x]
                          /\ user'[x] = user[x] /\ wanted'[x] = wanted[x] /\ crew'[x] = crew[x]

\* The handlers are of their types.
HandlersOK ==
  /\ duty \in [Admins -> Duties \cup {"none"}] /\ checks \in [Admins -> SUBSET Checks]
  /\ team \in [Admins -> Teams \cup {NoTeam}] /\ user \in [Admins -> Staffers \cup {Nobody}]
  /\ wanted \in [Admins -> Names] /\ crew \in [Admins -> SUBSET Staffers]

\* A request that ends leaves nothing behind.
LEMMA EndFacts ==
  ASSUME HandlersOK, NEW a \in Admins, EndRequest(a)
  PROVE  HandlersOK' /\ Leaves(a) /\ duty'[a] = "none"
  BY AnyNameIsOne DEF HandlersOK, EndRequest, Leaves

\* A request that begins is as Begins says.
LEMMA BeginFacts ==
  ASSUME HandlersOK, NEW a \in Admins, NEW d \in Duties, NEW t \in Teams \cup {NoTeam},
         NEW u \in Staffers \cup {Nobody}, NEW n \in Names, NEW todo \in SUBSET Checks,
         Begin(a, d, t, u, n, todo)
  PROVE  /\ HandlersOK' /\ Leaves(a)
         /\ duty'[a] = d /\ checks'[a] = todo /\ team'[a] = t /\ user'[a] = u /\ wanted'[a] = n
  BY DEF HandlersOK, Begin, Leaves

\* A check that passes is made.
LEMMA PassFacts ==
  ASSUME HandlersOK, hired \subseteq Staffers, NEW a \in Admins, NEW c \in Checks, CheckRow(a, c), ~EndRequest(a)
  PROVE  /\ HandlersOK' /\ Leaves(a) /\ Passes(a, c)
         /\ duty' = duty /\ team' = team /\ user' = user /\ wanted' = wanted
         /\ checks'[a] = checks[a] \ {c}
         /\ crew'[a] = IF c = "crew" THEN {u \in hired : memberOf[u] = team[a]} ELSE crew[a]
<1>1. /\ checks' = [checks EXCEPT ![a] = @ \ {c}] /\ Passes(a, c)
      /\ UNCHANGED <<duty, team, user, wanted>>
      /\ crew' = [crew EXCEPT ![a] = IF c = "crew" THEN {u \in hired : memberOf[u] = team[a]} ELSE @]
  BY DEF CheckRow
<1>2. {u \in hired : memberOf[u] = team[a]} \subseteq Staffers
  OBVIOUS
<1> DEFINE C == {u \in hired : memberOf[u] = team[a]}
<1>3. C \in SUBSET Staffers
  BY <1>2
<1> HIDE DEF C
<1>4. crew' \in [Admins -> SUBSET Staffers] /\ \A x \in Admins \ {a} : crew'[x] = crew[x]
  BY <1>1, <1>3 DEF HandlersOK, C
<1>5. crew'[a] = IF c = "crew" THEN {u \in hired : memberOf[u] = team[a]} ELSE crew[a]
  BY <1>1 DEF HandlersOK
<1>6. checks' \in [Admins -> SUBSET Checks] /\ checks'[a] = checks[a] \ {c}
      /\ \A x \in Admins \ {a} : checks'[x] = checks[x]
  BY <1>1 DEF HandlersOK
<1> QED BY <1>1, <1>4, <1>5, <1>6 DEF HandlersOK, Leaves
-----------------------------------------------------------------------------
\* The tables and the history are of their types.
TablesOK ==
  /\ teamState \in [Teams -> {"none", "live", "deleted"}]
  /\ nameOf \in [Teams -> Names] /\ leader \in [Teams -> Staffers \cup {Nobody}]
  /\ hired \subseteq Staffers /\ memberOf \in [Staffers -> Teams \cup {NoTeam}]
  /\ canLead \subseteq hired
RacesOK == crossed \subseteq Teams /\ namesRaced \in BOOLEAN /\ begun \in Nat

\* The type invariant, in parts.
LEMMA StaffParts == StaffTypeOK <=> TablesOK /\ HandlersOK /\ RacesOK
  BY DEF StaffTypeOK, TablesOK, HandlersOK, RacesOK, Duties, Checks

\* A request that begins keeps the invariant.
LEMMA BeginKeeps ==
  ASSUME StaffInv, NEW a \in Admins, Begins(a)
  PROVE  StaffInv'
<1>0. TablesOK /\ HandlersOK /\ RacesOK /\ MemberInv /\ NameInv
  BY StaffParts DEF StaffInv
<1>1. PICK d \in Duties, t \in Teams \cup {NoTeam}, u \in Staffers \cup {Nobody},
           n \in Names, todo \in SUBSET Checks :
        /\ Begin(a, d, t, u, n, todo)
        /\ d \in Joining \cup {"leave"} => u \in Staffers
        /\ d = "role" => u \in hired
        /\ d \in Joining /\ t # NoTeam => "team" \in todo
        /\ d = "delete" => t \in Teams /\ Live(t) /\ "crew" \in todo
        /\ d \in Naming /\ "name" \notin todo => t \in Teams /\ Live(t) /\ Fold[n] = Fold[nameOf[t]]
  BY DEF Begins, BeginsAs
<1>2. /\ HandlersOK' /\ Leaves(a)
      /\ duty'[a] = d /\ checks'[a] = todo /\ team'[a] = t /\ user'[a] = u /\ wanted'[a] = n
  BY <1>0, <1>1, BeginFacts
<1>3. /\ UNCHANGED <<tables, crew>> /\ duty[a] = "none" /\ begun' = begun + 1
      /\ crossed \subseteq crossed' /\ crossed' \subseteq crossed \cup {t}
      /\ (d \in Joining /\ Busy(a, {"delete"}, t)) \/ (d = "delete" /\ Busy(a, Joining, t)) => t \in crossed'
      /\ crossed' # crossed => (d \in Joining /\ Busy(a, {"delete"}, t)) \/ d = "delete"
  BY <1>1 DEF Begin
<1>4. UNCHANGED <<teamState, nameOf, leader, hired, memberOf, canLead, crew>>
  BY <1>3 DEF tables
<1>5. TablesOK'
  BY <1>0, <1>4 DEF TablesOK
<1>6. DeletesATeam'
  BY <1>0, <1>1, <1>2, <1>4 DEF MemberInv, DeletesATeam, Leaves, Live
<1>7. RacesOK'
  <2>1. crossed' \subseteq Teams
    <3>1. CASE crossed' # crossed
      <4>1. t \in Teams
        BY <1>0, <1>1, <1>3, <3>1 DEF Busy, Others, MemberInv, DeletesATeam
      <4> QED BY <1>0, <1>3, <4>1 DEF RacesOK
    <3> QED BY <1>0, <3>1 DEF RacesOK
  <2>2. namesRaced' \in BOOLEAN
    <3>1. namesRaced' = (namesRaced \/ (d \in Naming /\ \E b \in Others(a) : duty[b] \in Naming))
      BY <1>1 DEF Begin
    <3> QED BY <3>1, Zenon
  <2>3. begun' \in Nat
    BY <1>0, <1>3 DEF RacesOK
  <2> QED BY <2>1, <2>2, <2>3 DEF RacesOK
<1>8. UsersAreKnown'
  BY <1>0, <1>1, <1>2, <1>4 DEF MemberInv, UsersAreKnown, Leaves, Joining
<1>9. MeetingsAreCrossed'
  <2> SUFFICES ASSUME NEW x \in Admins, NEW y \in Admins, duty'[x] \in Joining, duty'[y] = "delete",
                      team'[x] = team'[y]
               PROVE  team'[x] \in crossed'
    BY DEF MeetingsAreCrossed
  <2>1. x # y
    BY DEF Joining
  <2>2. CASE x = a
    BY <1>2, <1>3, <2>1, <2>2 DEF Leaves, Busy, Others
  <2>3. CASE y = a
    BY <1>2, <1>3, <2>1, <2>3 DEF Leaves, Busy, Others
  <2>4. CASE x # a /\ y # a
    BY <1>0, <1>2, <1>3, <2>4 DEF Leaves, MemberInv, MeetingsAreCrossed
  <2> QED BY <2>2, <2>3, <2>4
<1>10. JoinsAreChecked'
  BY <1>0, <1>1, <1>2, <1>3, <1>4 DEF MemberInv, JoinsAreChecked, Leaves
<1>11. CrewIsAll'
  BY <1>0, <1>1, <1>2, <1>3, <1>4 DEF MemberInv, CrewIsAll, Leaves
<1>12. NobodyInDeletedTeam'
  BY <1>0, <1>3, <1>4 DEF MemberInv, NobodyInDeletedTeam
<1>13. NameInv'
  <2>1. namesRaced' <=> (namesRaced \/ (d \in Naming /\ \E b \in Others(a) : duty[b] \in Naming))
    BY <1>1 DEF Begin
  <2>2. NamesDiffer'
    BY <1>0, <1>4, <2>1 DEF NameInv, NamesDiffer
  <2>3. OneWriter'
    BY <1>0, <1>2, <2>1 DEF NameInv, OneWriter, Leaves, Others
  <2>4. NamesAreChecked'
    <3> SUFFICES ASSUME ~namesRaced', NEW x \in Admins, duty'[x] \in Naming, "name" \notin checks'[x]
                 PROVE  NameFree(x)'
      BY DEF NamesAreChecked
    <3>1. CASE x = a
      <4>1. t \in Teams /\ teamState[t] # "none" /\ Fold[n] = Fold[nameOf[t]]
        BY <1>1, <1>2, <3>1 DEF Live
      <4>2. \A s \in Teams \ {t} : teamState[s] = "none" \/ Fold[nameOf[s]] # Fold[n]
        BY <1>0, <2>1, <4>1 DEF NameInv, NamesDiffer
      <4> QED BY <1>2, <1>4, <3>1, <4>2 DEF NameFree
    <3>2. CASE x # a
      <4>1. NameFree(x)
        BY <1>0, <1>2, <2>1, <3>2 DEF NameInv, NamesAreChecked, Leaves
      <4> QED BY <1>2, <1>4, <3>2, <4>1 DEF NameFree, Leaves
    <3> QED BY <3>1, <3>2
  <2> QED BY <2>2, <2>3, <2>4 DEF NameInv
<1>14. MemberInv'
  BY <1>6, <1>8, <1>9, <1>10, <1>11, <1>12 DEF MemberInv
<1> QED BY <1>2, <1>5, <1>7, <1>13, <1>14 DEF StaffInv, StaffTypeOK, TablesOK, HandlersOK, RacesOK, Duties, Checks
-----------------------------------------------------------------------------
\* A request that ends without touching teams and members keeps what holds.
LEMMA EndKeeps ==
  ASSUME HandlersOK, MemberInv, NameInv, NEW a \in Admins, EndRequest(a),
         UNCHANGED <<teamState, nameOf, hired, memberOf, crossed, namesRaced>>
  PROVE  MemberInv' /\ NameInv'
<1>1. Leaves(a) /\ duty'[a] = "none" /\ "none" \notin Naming \cup Joining \cup {"leave", "role", "delete"}
  BY EndFacts DEF Naming, Joining
<1>2. \A x \in Admins : duty'[x] # "none" => x # a /\ duty'[x] = duty[x]
  BY <1>1 DEF Leaves
<1>3. UsersAreKnown' /\ DeletesATeam'
  BY <1>1, <1>2 DEF MemberInv, UsersAreKnown, DeletesATeam, Leaves
<1>4. MeetingsAreCrossed'
  BY <1>1, <1>2 DEF MemberInv, MeetingsAreCrossed, Leaves
<1>5. JoinsAreChecked' /\ CrewIsAll' /\ NobodyInDeletedTeam'
  BY <1>1, <1>2 DEF MemberInv, JoinsAreChecked, CrewIsAll, NobodyInDeletedTeam, Leaves
<1>6. OneWriter' /\ NamesDiffer'
  BY <1>1, <1>2 DEF NameInv, OneWriter, NamesDiffer, Leaves
<1>7. NamesAreChecked'
  BY <1>1, <1>2 DEF NameInv, NamesAreChecked, NameFree, Leaves
<1> QED BY <1>3, <1>4, <1>5, <1>6, <1>7 DEF MemberInv, NameInv

\* A check keeps the invariant, whether it passes or not.
LEMMA CheckKeeps ==
  ASSUME StaffInv, NEW a \in Admins, NEW c \in Checks, CheckRow(a, c)
  PROVE  StaffInv'
<1>1. TablesOK /\ HandlersOK /\ RacesOK /\ MemberInv /\ NameInv
  BY StaffParts DEF StaffInv
<1>2. UNCHANGED <<teamState, nameOf, leader, hired, memberOf, canLead, begun, crossed, namesRaced>>
  BY DEF CheckRow, tables, races
<1>3. TablesOK' /\ RacesOK'
  BY <1>1, <1>2 DEF TablesOK, RacesOK
<1>4. HandlersOK' /\ MemberInv' /\ NameInv'
  <2>1. CASE EndRequest(a)
    BY <1>1, <1>2, <2>1, EndKeeps, EndFacts
  <2>2. CASE ~EndRequest(a)
    <3>1. /\ HandlersOK' /\ Leaves(a) /\ Passes(a, c)
          /\ duty' = duty /\ team' = team /\ user' = user /\ wanted' = wanted
          /\ checks'[a] = checks[a] \ {c}
          /\ crew'[a] = IF c = "crew" THEN {u \in hired : memberOf[u] = team[a]} ELSE crew[a]
      BY <1>1, <2>2, PassFacts DEF TablesOK
    <3>2. UsersAreKnown' /\ DeletesATeam' /\ MeetingsAreCrossed' /\ NobodyInDeletedTeam'
      BY <1>1, <1>2, <3>1 DEF MemberInv, UsersAreKnown, DeletesATeam, MeetingsAreCrossed, NobodyInDeletedTeam
    <3>3. JoinsAreChecked'
      <4> SUFFICES ASSUME NEW x \in Admins, duty[x] \in Joining, "team" \notin checks'[x], team[x] # NoTeam
                   PROVE  teamState[team[x]] = "live" \/ team[x] \in crossed
        BY <1>2, <3>1 DEF JoinsAreChecked
      <4>1. CASE x = a /\ c = "team"
        BY <3>1, <4>1 DEF Passes, TeamUsable, Live
      <4>2. CASE ~(x = a /\ c = "team")
        BY <1>1, <3>1, <4>2 DEF MemberInv, JoinsAreChecked, Leaves
      <4> QED BY <4>1, <4>2
    <3>4. CrewIsAll'
      <4> SUFFICES ASSUME NEW x \in Admins, duty[x] = "delete", "crew" \notin checks'[x],
                          team[x] \notin crossed, NEW u \in Staffers, memberOf[u] = team[x]
                   PROVE  u \in crew'[x]
        BY <1>2, <3>1 DEF CrewIsAll
      <4>1. CASE x = a /\ c = "crew"
        <5>1. team[x] # NoTeam
          BY <1>1, StaffAssumption DEF MemberInv, DeletesATeam
        <5>2. u \in hired
          BY <1>1, <5>1 DEF MemberInv, UsersAreKnown
        <5> QED BY <3>1, <4>1, <5>2
      <4>2. CASE ~(x = a /\ c = "crew")
        BY <1>1, <3>1, <4>2 DEF MemberInv, CrewIsAll, Leaves
      <4> QED BY <4>1, <4>2
    <3>5. OneWriter' /\ NamesDiffer'
      BY <1>1, <1>2, <3>1 DEF NameInv, OneWriter, NamesDiffer
    <3>6. NamesAreChecked'
      <4> SUFFICES ASSUME ~namesRaced, NEW x \in Admins, duty[x] \in Naming, "name" \notin checks'[x]
                   PROVE  NameFree(x)
        BY <1>2, <3>1 DEF NamesAreChecked, NameFree
      <4>1. CASE x = a /\ c = "name"
        BY <3>1, <4>1 DEF Passes
      <4>2. CASE ~(x = a /\ c = "name")
        BY <1>1, <3>1, <4>2 DEF NameInv, NamesAreChecked, Leaves
      <4> QED BY <4>1, <4>2
    <3> QED BY <3>1, <3>2, <3>3, <3>4, <3>5, <3>6 DEF MemberInv, NameInv
  <2> QED BY <2>1, <2>2
<1> QED BY <1>3, <1>4 DEF StaffInv, StaffTypeOK, TablesOK, HandlersOK, RacesOK, Duties, Checks
-----------------------------------------------------------------------------
\* A name that is written keeps the invariant.
LEMMA CommitNameKeeps ==
  ASSUME StaffInv, NEW a \in Admins, CommitName(a)
  PROVE  StaffInv'
<1>1. TablesOK /\ HandlersOK /\ RacesOK /\ MemberInv /\ NameInv
  BY StaffParts DEF StaffInv
<1>2. /\ EndRequest(a) /\ duty[a] \in Naming /\ checks[a] = {}
      /\ UNCHANGED <<hired, memberOf, canLead, begun, crossed, namesRaced>>
  BY DEF CommitName, Ready, races
<1>3. HandlersOK' /\ Leaves(a) /\ duty'[a] = "none"
  BY <1>1, <1>2, EndFacts
<1>4. RacesOK'
  BY <1>1, <1>2 DEF RacesOK
<1>5. CASE UNCHANGED <<teamState, nameOf, leader>>
  <2>1. MemberInv' /\ NameInv'
    BY <1>1, <1>2, <1>5, EndKeeps
  <2>2. TablesOK'
    BY <1>1, <1>2, <1>5 DEF TablesOK
  <2> QED BY <1>3, <1>4, <2>1, <2>2 DEF StaffInv, StaffTypeOK, TablesOK, HandlersOK, RacesOK, Duties, Checks
<1>6. CASE ~UNCHANGED <<teamState, nameOf, leader>>
  <2>1. /\ nameOf' = [nameOf EXCEPT ![team[a]] = wanted[a]]
        /\ \/ teamState' = [teamState EXCEPT ![team[a]] = "live"] /\ leader' = [leader EXCEPT ![team[a]] = user[a]]
           \/ UNCHANGED <<teamState, leader>>
    BY <1>6 DEF CommitName
  <2>2. wanted[a] \in Names /\ user[a] \in Staffers \cup {Nobody}
    BY <1>1 DEF HandlersOK
  <2>3. TablesOK'
    <3>1. nameOf' \in [Teams -> Names]
      BY <1>1, <2>1, <2>2 DEF TablesOK
    <3>2. teamState' \in [Teams -> {"none", "live", "deleted"}]
      BY <1>1, <2>1 DEF TablesOK
    <3>3. leader' \in [Teams -> Staffers \cup {Nobody}]
      BY <1>1, <2>1, <2>2 DEF TablesOK
    <3> QED BY <1>1, <1>2, <3>1, <3>2, <3>3 DEF TablesOK
  <2>4. \A t \in Teams : teamState'[t] = teamState[t] \/ teamState'[t] = "live"
    BY <1>1, <2>1 DEF TablesOK
  <2>5. \A t \in Teams \ {team[a]} : teamState'[t] = teamState[t] /\ nameOf'[t] = nameOf[t]
    BY <1>1, <2>1 DEF TablesOK
  <2>6. team[a] \in Teams => nameOf'[team[a]] = wanted[a]
    BY <1>1, <2>1 DEF TablesOK
  <2>7. UsersAreKnown'
    BY <1>1, <1>2, <1>3 DEF MemberInv, UsersAreKnown, Leaves, Joining
  <2>8. DeletesATeam'
    BY <1>1, <1>3, <2>4 DEF MemberInv, DeletesATeam, Leaves
  <2>9. MeetingsAreCrossed'
    BY <1>1, <1>2, <1>3 DEF MemberInv, MeetingsAreCrossed, Leaves, Joining
  <2>10. JoinsAreChecked'
    <3> SUFFICES ASSUME NEW x \in Admins, duty'[x] \in Joining, "team" \notin checks'[x], team'[x] # NoTeam
                 PROVE  teamState'[team'[x]] = "live" \/ team'[x] \in crossed'
      BY DEF JoinsAreChecked
    <3>1. x # a /\ duty'[x] = duty[x] /\ checks'[x] = checks[x] /\ team'[x] = team[x]
      BY <1>3 DEF Leaves, Joining
    <3>2. team[x] \in Teams
      BY <1>1, <3>1 DEF HandlersOK
    <3> QED BY <1>1, <1>2, <2>4, <3>1, <3>2 DEF MemberInv, JoinsAreChecked
  <2>11. CrewIsAll'
    BY <1>1, <1>2, <1>3 DEF MemberInv, CrewIsAll, Leaves
  <2>12. NobodyInDeletedTeam'
    <3> SUFFICES ASSUME NEW u \in Staffers, memberOf[u] # NoTeam, teamState'[memberOf[u]] = "deleted"
                 PROVE  memberOf[u] \in crossed
      BY <1>2 DEF NobodyInDeletedTeam
    <3>1. memberOf[u] \in Teams
      BY <1>1 DEF TablesOK
    <3> QED BY <1>1, <2>4, <3>1 DEF MemberInv, NobodyInDeletedTeam
  <2>13. NameInv'
    <3>1. CASE namesRaced
      BY <1>2, <3>1 DEF NameInv, OneWriter, NamesAreChecked, NamesDiffer
    <3>2. CASE ~namesRaced
      <4>1. \A x \in Admins : duty'[x] \notin Naming
        BY <1>1, <1>2, <1>3, <3>2 DEF NameInv, OneWriter, Leaves, Naming
      <4>2. NameFree(a)
        BY <1>1, <1>2, <3>2 DEF NameInv, NamesAreChecked
      <4>3. \A t \in Teams \ {team[a]} : teamState'[t] = "none" \/ Fold[nameOf'[t]] # Fold[wanted[a]]
        BY <2>5, <4>2 DEF NameFree
      <4>4. NamesDiffer'
        <5> SUFFICES ASSUME NEW s \in Teams, NEW t \in Teams, s # t, teamState'[s] # "none",
                            teamState'[t] # "none", Fold[nameOf'[s]] = Fold[nameOf'[t]]
                     PROVE  FALSE
          BY <1>2 DEF NamesDiffer
        <5>1. CASE s = team[a]
          BY <2>6, <4>3, <5>1
        <5>2. CASE t = team[a]
          BY <2>6, <4>3, <5>2
        <5>3. CASE s # team[a] /\ t # team[a]
          BY <1>1, <2>5, <3>2, <5>3 DEF NameInv, NamesDiffer
        <5> QED BY <5>1, <5>2, <5>3
      <4> QED BY <4>1, <4>4 DEF NameInv, OneWriter, NamesAreChecked
    <3> QED BY <3>1, <3>2
  <2>14. MemberInv'
    BY <2>7, <2>8, <2>9, <2>10, <2>11, <2>12 DEF MemberInv
  <2> QED BY <1>3, <1>4, <2>3, <2>13, <2>14 DEF StaffInv, StaffTypeOK, TablesOK, HandlersOK, RacesOK, Duties, Checks
<1> QED BY <1>5, <1>6

\* A new leader, or a new role, keeps the invariant.
LEMMA CommitOtherKeeps ==
  ASSUME StaffInv, NEW a \in Admins, CommitLeader(a) \/ CommitRole(a)
  PROVE  StaffInv'
<1>1. TablesOK /\ HandlersOK /\ RacesOK /\ MemberInv /\ NameInv
  BY StaffParts DEF StaffInv
<1>2. /\ EndRequest(a)
      /\ UNCHANGED <<teamState, nameOf, hired, memberOf, begun, crossed, namesRaced>>
  BY DEF CommitLeader, CommitRole, Ready, races
<1>3. HandlersOK' /\ MemberInv' /\ NameInv' /\ RacesOK'
  BY <1>1, <1>2, EndKeeps, EndFacts DEF RacesOK
<1>4. CASE CommitLeader(a)
  <2>1. user[a] \in Staffers \cup {Nobody} /\ leader' = [leader EXCEPT ![team[a]] = user[a]] /\ canLead' = canLead
    BY <1>1, <1>4 DEF HandlersOK, CommitLeader
  <2>2. TablesOK'
    BY <1>1, <1>2, <2>1 DEF TablesOK
  <2> QED BY <1>3, <2>2 DEF StaffInv, StaffTypeOK, TablesOK, HandlersOK, RacesOK, Duties, Checks
<1>5. CASE CommitRole(a)
  <2>1. user[a] \in hired /\ leader' = leader /\ (canLead' = canLead \cup {user[a]} \/ canLead' = canLead \ {user[a]})
    BY <1>1, <1>5 DEF MemberInv, UsersAreKnown, CommitRole, Ready
  <2>2. TablesOK'
    BY <1>1, <1>2, <2>1 DEF TablesOK
  <2> QED BY <1>3, <2>2 DEF StaffInv, StaffTypeOK, TablesOK, HandlersOK, RacesOK, Duties, Checks
<1> QED BY <1>4, <1>5
\* A deletion keeps the invariant: who joined meanwhile has crossed it.
LEMMA CommitDeleteKeeps ==
  ASSUME StaffInv, NEW a \in Admins, CommitDelete(a)
  PROVE  StaffInv'
<1>1. TablesOK /\ HandlersOK /\ RacesOK /\ MemberInv /\ NameInv
  BY StaffParts DEF StaffInv
<1>2. /\ EndRequest(a) /\ duty[a] = "delete" /\ checks[a] = {}
      /\ teamState' = [teamState EXCEPT ![team[a]] = "deleted"]
      /\ memberOf' = [u \in Staffers |-> IF u \in crew[a] THEN NoTeam ELSE memberOf[u]]
      /\ UNCHANGED <<nameOf, leader, hired, canLead, begun, crossed, namesRaced>>
  BY DEF CommitDelete, Ready, races
<1>3. HandlersOK' /\ Leaves(a) /\ duty'[a] = "none"
  BY <1>1, <1>2, EndFacts
<1>4. TablesOK' /\ RacesOK'
  <2>1. teamState' \in [Teams -> {"none", "live", "deleted"}]
    BY <1>1, <1>2 DEF TablesOK
  <2>2. memberOf' \in [Staffers -> Teams \cup {NoTeam}]
    BY <1>1, <1>2 DEF TablesOK
  <2> QED BY <1>1, <1>2, <2>1, <2>2 DEF TablesOK, RacesOK
<1>5. team[a] \in Teams /\ teamState[team[a]] # "none" /\ team[a] # NoTeam
  BY <1>1, <1>2, StaffAssumption DEF MemberInv, DeletesATeam
<1>6. \A t \in Teams : /\ teamState'[t] = "none" <=> teamState[t] = "none"
                       /\ t # team[a] => teamState'[t] = teamState[t]
  BY <1>1, <1>2, <1>5 DEF TablesOK
<1>7. \A u \in Staffers : memberOf'[u] # NoTeam => u \notin crew[a] /\ memberOf'[u] = memberOf[u]
  BY <1>2
<1>8. UsersAreKnown'
  BY <1>1, <1>2, <1>3, <1>7 DEF MemberInv, UsersAreKnown, Leaves, Joining
<1>9. DeletesATeam'
  BY <1>1, <1>3, <1>6 DEF MemberInv, DeletesATeam, Leaves
<1>10. MeetingsAreCrossed'
  BY <1>1, <1>2, <1>3 DEF MemberInv, MeetingsAreCrossed, Leaves, Joining
<1>11. JoinsAreChecked'
  <2> SUFFICES ASSUME NEW x \in Admins, duty'[x] \in Joining, "team" \notin checks'[x], team'[x] # NoTeam
               PROVE  teamState'[team'[x]] = "live" \/ team'[x] \in crossed'
    BY DEF JoinsAreChecked
  <2>1. x # a /\ duty'[x] = duty[x] /\ checks'[x] = checks[x] /\ team'[x] = team[x]
    BY <1>3 DEF Leaves, Joining
  <2>2. CASE team[x] = team[a]
    BY <1>1, <1>2, <2>1, <2>2 DEF MemberInv, MeetingsAreCrossed
  <2>3. CASE team[x] # team[a]
    <3>1. team[x] \in Teams
      BY <1>1, <2>1 DEF HandlersOK
    <3> QED BY <1>1, <1>2, <1>6, <2>1, <2>3, <3>1 DEF MemberInv, JoinsAreChecked
  <2> QED BY <2>2, <2>3
<1>12. CrewIsAll'
  <2> SUFFICES ASSUME NEW x \in Admins, duty'[x] = "delete", "crew" \notin checks'[x],
                      team'[x] \notin crossed', NEW u \in Staffers, memberOf'[u] = team'[x]
               PROVE  u \in crew'[x]
    BY DEF CrewIsAll
  <2>1. x # a /\ duty[x] = "delete" /\ checks'[x] = checks[x] /\ team'[x] = team[x] /\ crew'[x] = crew[x]
    BY <1>3 DEF Leaves
  <2>2. team[x] # NoTeam
    BY <1>1, <2>1, StaffAssumption DEF MemberInv, DeletesATeam
  <2> QED BY <1>1, <1>2, <1>7, <2>1, <2>2 DEF MemberInv, CrewIsAll
<1>13. NobodyInDeletedTeam'
  <2> SUFFICES ASSUME NEW u \in Staffers, memberOf'[u] # NoTeam, teamState'[memberOf'[u]] = "deleted"
               PROVE  memberOf'[u] \in crossed
    BY <1>2 DEF NobodyInDeletedTeam
  <2>1. u \notin crew[a] /\ memberOf'[u] = memberOf[u] /\ memberOf[u] \in Teams
    BY <1>1, <1>7 DEF TablesOK
  <2>2. CASE memberOf[u] = team[a]
    BY <1>1, <1>2, <2>1, <2>2 DEF MemberInv, CrewIsAll
  <2>3. CASE memberOf[u] # team[a]
    BY <1>1, <1>6, <2>1, <2>3 DEF MemberInv, NobodyInDeletedTeam
  <2> QED BY <2>2, <2>3
<1>14. OneWriter' /\ NamesDiffer'
  BY <1>1, <1>2, <1>3, <1>6 DEF NameInv, OneWriter, NamesDiffer, Leaves, Naming
<1>15. NamesAreChecked'
  <2> SUFFICES ASSUME ~namesRaced, NEW x \in Admins, duty'[x] \in Naming, "name" \notin checks'[x]
               PROVE  NameFree(x)'
    BY <1>2 DEF NamesAreChecked
  <2>1. x # a /\ duty'[x] = duty[x] /\ checks'[x] = checks[x] /\ team'[x] = team[x] /\ wanted'[x] = wanted[x]
    BY <1>3 DEF Leaves, Naming
  <2>2. NameFree(x)
    BY <1>1, <2>1 DEF NameInv, NamesAreChecked
  <2> QED BY <1>2, <1>6, <2>1, <2>2 DEF NameFree
<1>16. MemberInv' /\ NameInv'
  BY <1>8, <1>9, <1>10, <1>11, <1>12, <1>13, <1>14, <1>15 DEF MemberInv, NameInv
<1> QED BY <1>3, <1>4, <1>16 DEF StaffInv, StaffTypeOK, TablesOK, HandlersOK, RacesOK, Duties, Checks

\* A change of a member keeps the invariant: the team is live, or was crossed.
LEMMA CommitMemberKeeps ==
  ASSUME StaffInv, NEW a \in Admins, CommitMember(a)
  PROVE  StaffInv'
<1>1. TablesOK /\ HandlersOK /\ RacesOK /\ MemberInv /\ NameInv
  BY StaffParts DEF StaffInv
<1>2. /\ EndRequest(a) /\ duty[a] \in Joining \cup {"leave"} /\ checks[a] = {}
      /\ memberOf' = [memberOf EXCEPT ![user[a]] = IF duty[a] = "leave" THEN NoTeam ELSE team[a]]
      /\ hired' = hired \cup {user[a]}
      /\ UNCHANGED <<teamState, nameOf, leader, canLead, begun, crossed, namesRaced>>
  BY DEF CommitMember, Ready, races
<1>3. HandlersOK' /\ Leaves(a) /\ duty'[a] = "none"
  BY <1>1, <1>2, EndFacts
<1>4. user[a] \in Staffers /\ team[a] \in Teams \cup {NoTeam}
  BY <1>1, <1>2 DEF MemberInv, UsersAreKnown, HandlersOK
<1>5. TablesOK' /\ RacesOK'
  <2>1. memberOf' \in [Staffers -> Teams \cup {NoTeam}]
    BY <1>1, <1>2, <1>4 DEF TablesOK
  <2>2. hired' \subseteq Staffers /\ canLead' \subseteq hired'
    BY <1>1, <1>2, <1>4 DEF TablesOK
  <2> QED BY <1>1, <1>2, <2>1, <2>2 DEF TablesOK, RacesOK
<1>6. \A u \in Staffers : \/ u # user[a] /\ memberOf'[u] = memberOf[u]
                          \/ u = user[a] /\ duty[a] = "leave" /\ memberOf'[u] = NoTeam
                          \/ u = user[a] /\ duty[a] \in Joining /\ memberOf'[u] = team[a]
  BY <1>1, <1>2, <1>4 DEF TablesOK, Joining
<1>7. UsersAreKnown'
  <2>1. \A u \in Staffers : memberOf'[u] # NoTeam => u \in hired'
    BY <1>1, <1>2, <1>6 DEF MemberInv, UsersAreKnown
  <2>2. \A x \in Admins : /\ duty'[x] \in Joining \cup {"leave"} => user'[x] \in Staffers
                          /\ duty'[x] = "role" => user'[x] \in hired'
    BY <1>1, <1>2, <1>3 DEF MemberInv, UsersAreKnown, Leaves, Joining
  <2> QED BY <2>1, <2>2 DEF UsersAreKnown
<1>8. DeletesATeam' /\ MeetingsAreCrossed' /\ JoinsAreChecked'
  BY <1>1, <1>2, <1>3 DEF MemberInv, DeletesATeam, MeetingsAreCrossed, JoinsAreChecked, Leaves, Joining
<1>9. CrewIsAll'
  <2> SUFFICES ASSUME NEW x \in Admins, duty'[x] = "delete", "crew" \notin checks'[x],
                      team'[x] \notin crossed, NEW u \in Staffers, memberOf'[u] = team'[x]
               PROVE  u \in crew'[x]
    BY <1>2 DEF CrewIsAll
  <2>1. x # a /\ duty[x] = "delete" /\ checks'[x] = checks[x] /\ team'[x] = team[x] /\ crew'[x] = crew[x]
    BY <1>3 DEF Leaves
  <2>2. team[x] # NoTeam
    BY <1>1, <2>1, StaffAssumption DEF MemberInv, DeletesATeam
  <2>3. ~(duty[a] \in Joining /\ team[a] = team[x])
    BY <1>1, <2>1 DEF MemberInv, MeetingsAreCrossed
  <2>4. memberOf[u] = team[x]
    BY <1>6, <2>1, <2>2, <2>3
  <2> QED BY <1>1, <2>1, <2>4 DEF MemberInv, CrewIsAll
<1>10. NobodyInDeletedTeam'
  <2> SUFFICES ASSUME NEW u \in Staffers, memberOf'[u] # NoTeam, teamState[memberOf'[u]] = "deleted"
               PROVE  memberOf'[u] \in crossed
    BY <1>2 DEF NobodyInDeletedTeam
  <2>1. CASE memberOf'[u] = memberOf[u]
    BY <1>1, <2>1 DEF MemberInv, NobodyInDeletedTeam
  <2>2. CASE duty[a] \in Joining /\ memberOf'[u] = team[a]
    BY <1>1, <1>2, <2>2 DEF MemberInv, JoinsAreChecked
  <2> QED BY <1>6, <2>1, <2>2
<1>11. NameInv'
  BY <1>1, <1>2, <1>3 DEF NameInv, OneWriter, NamesDiffer, NamesAreChecked, NameFree, Leaves, Naming
<1>12. MemberInv'
  BY <1>7, <1>8, <1>9, <1>10 DEF MemberInv
<1> QED BY <1>3, <1>5, <1>11, <1>12 DEF StaffInv, StaffTypeOK, TablesOK, HandlersOK, RacesOK, Duties, Checks
-----------------------------------------------------------------------------
\* Nobody works when the program starts.
LEMMA StaffInvInit == StaffInit => StaffInv
<1> SUFFICES ASSUME StaffInit PROVE StaffInv
  OBVIOUS
<1> USE AnyNameIsOne, StaffAssumption DEF StaffInit
<1>1. TablesOK
  BY DEF TablesOK
<1>2. HandlersOK
  BY DEF HandlersOK
<1>3. RacesOK
  <2>1. namesRaced \in BOOLEAN
    BY Zenon
  <2> QED BY <2>1 DEF RacesOK
<1>4. MemberInv
  BY DEF MemberInv, UsersAreKnown, DeletesATeam, MeetingsAreCrossed, JoinsAreChecked, CrewIsAll,
         NobodyInDeletedTeam, Joining
<1>5. NameInv
  BY DEF NameInv, OneWriter, NamesAreChecked, NamesDiffer, Naming
<1> QED BY <1>1, <1>2, <1>3, <1>4, <1>5, StaffParts DEF StaffInv

\* Every step keeps the invariant.
LEMMA StaffInvStep == StaffInv /\ [StaffNext]_staffVars => StaffInv'
<1> SUFFICES ASSUME StaffInv, [StaffNext]_staffVars PROVE StaffInv'
  OBVIOUS
<1>1. ASSUME NEW a \in Admins, Begins(a) PROVE StaffInv'
  BY <1>1, BeginKeeps
<1>2. ASSUME NEW a \in Admins, NEW c \in Checks, CheckRow(a, c) PROVE StaffInv'
  BY <1>2, CheckKeeps
<1>3. ASSUME NEW a \in Admins, \/ CommitName(a) \/ CommitLeader(a) \/ CommitDelete(a)
                               \/ CommitMember(a) \/ CommitRole(a)
      PROVE  StaffInv'
  BY <1>3, CommitNameKeeps, CommitOtherKeeps, CommitDeleteKeeps, CommitMemberKeeps
<1>4. CASE UNCHANGED staffVars
  <2>1. UNCHANGED <<teamState, nameOf, leader, hired, memberOf, canLead, duty, checks, team, user,
                    wanted, crew, begun, crossed, namesRaced>>
    BY <1>4 DEF staffVars, tables, requests, races
  <2>2. StaffTypeOK'
    BY <2>1 DEF StaffInv, StaffTypeOK
  <2>3. MemberInv'
    BY <2>1 DEF StaffInv, MemberInv, UsersAreKnown, DeletesATeam, MeetingsAreCrossed, JoinsAreChecked,
                CrewIsAll, NobodyInDeletedTeam
  <2>4. NameInv'
    BY <2>1 DEF StaffInv, NameInv, OneWriter, NamesAreChecked, NamesDiffer, NameFree
  <2> QED BY <2>2, <2>3, <2>4 DEF StaffInv
<1>5. StaffTypeOK
  BY DEF StaffInv
<1> QED BY <1>1, <1>2, <1>3, <1>4, <1>5, StaffCases

\* StaffInv holds in every state.
THEOREM StaffInvariant == StaffSpec => []StaffInv
<1> QED BY StaffInvInit, StaffInvStep, PTL DEF StaffSpec

\* Nobody is in a deleted team that no join met while it was being deleted,
\* for any number of teams, users and handlers (team_service.py:185-229).
THEOREM DeletedTeamsAreEmpty == StaffSpec => []NobodyInDeletedTeam
<1>1. StaffInv => NobodyInDeletedTeam
  BY DEF StaffInv, MemberInv
<1> QED BY <1>1, StaffInvariant, PTL

\* Without two writers at once no two teams have names that differ by case
\* alone (team_repository.py:125-129).
THEOREM NamesDifferByMoreThanCase == StaffSpec => []NamesDiffer
<1>1. StaffInv => NamesDiffer
  BY DEF StaffInv, NameInv
<1> QED BY <1>1, StaffInvariant, PTL
=============================================================================
