----------------------------- MODULE Attendance -----------------------------
(***************************************************************************)
(* One employee's attendance on the server: AttendanceService, its rows    *)
(* and sessions in Postgres and the state it keeps in Redis.  Every query  *)
(* and key of the service is scoped to one user, so one employee is enough;*)
(* what interferes are the REQUESTS: taps (START, BREAK, RESUME, END) and  *)
(* an administrator's manual sessions, each handled as its own asyncio     *)
(* task in one of several worker processes, each with its own transaction. *)
(*                                                                         *)
(* A request is a slot of Requests.  Its transaction is READ COMMITTED: it *)
(* sees what others committed before each of its statements, and its own   *)
(* writes stay private until Commit.  What the request has read and        *)
(* computed is in req, loaded and total; pc says at which await it waits.  *)
(***************************************************************************)
EXTENDS WorkLog, FiniteSets

CONSTANTS
  Requests,     \* the request slots: how many handlers may overlap
  MaxDay,       \* the days 0..MaxDay
  MaxTaps,      \* bound: taps received
  MaxManual,    \* bound: manual sessions requested
  MaxFailures   \* bound: requests cut short

ASSUME BoundsAssumption ==
  /\ MaxDay \in Nat
  /\ MaxTaps \in Nat
  /\ MaxManual \in Nat
  /\ MaxFailures \in Nat

VARIABLES
  clock,     \* the instant the server last read
  today,     \* the UTC day
  rows,      \* days with a committed attendance row
  log,       \* log[d]: committed sessions of day d, in the order of commit
  minutes,   \* minutes[d]: committed total_duration_minutes
  summary,   \* summary[d]: whether the committed row has a work_summary
  cache,     \* the Redis hash fieldtrack:attendance:state:{user}
  pc,        \* pc[r]: the await request r is suspended at
  req,       \* req[r]: what request r was asked and has read
  loaded,    \* loaded[r]: total_duration_minutes as request r read it
  total,     \* total[r]: total_duration_minutes as request r computed it
  reply,     \* reply[r]: the answer of the last request of slot r
  taps, manuals, failures   \* how much of the bounds is used

db     == <<rows, log, minutes, summary>>
time   == <<clock, today>>
work   == <<req, loaded, total>>
budget == <<taps, manuals, failures>>
vars   == <<time, db, cache, pc, work, reply, budget>>

Days == 0 .. MaxDay

(***************************************************************************)
(* A Redis key that does not exist reads as state NULL.  ttl is the day at *)
(* whose end the key expires; NoExpiry is a key without TTL.               *)
(***************************************************************************)
NoExpiry == MaxDay + 1
NoKey    == [state |-> "NULL", day |-> 0, ttl |-> NoExpiry]

NoRequest ==
  [by |-> "tap", type |-> "START", day |-> 0, hadRow |-> FALSE, view |-> <<>>,
   ts |-> 0]

Init ==
  /\ clock = 0
  /\ today = 0
  /\ rows = {}
  /\ log = [d \in Days |-> <<>>]
  /\ minutes = [d \in Days |-> 0]
  /\ summary = [d \in Days |-> FALSE]
  /\ cache = NoKey
  /\ pc = [r \in Requests |-> "idle"]
  /\ req = [r \in Requests |-> NoRequest]
  /\ loaded = [r \in Requests |-> 0]
  /\ total = [r \in Requests |-> 0]
  /\ reply = [r \in Requests |-> "none"]
  /\ taps = 0 /\ manuals = 0 /\ failures = 0
-----------------------------------------------------------------------------
Goto(r, label) == pc' = [pc EXCEPT ![r] = label]

Finish(r, answer) ==
  /\ pc' = [pc EXCEPT ![r] = "idle"]
  /\ reply' = [reply EXCEPT ![r] = answer]

\* The session request r inserts.
Own(r) == [type |-> req[r].type, ts |-> req[r].ts, by |-> req[r].by]

IsTap(r, type) == req[r].by = "tap" /\ req[r].type = type

(***************************************************************************)
(* transition_state, in the order of its awaits.                           *)
(***************************************************************************)

\* The day is fixed and today's row and sessions are read.
Tap(r, type) ==
  /\ pc[r] = "idle"
  /\ taps < MaxTaps
  /\ taps' = taps + 1
  /\ req' = [req EXCEPT ![r] =
               [by |-> "tap", type |-> type, day |-> today,
                hadRow |-> today \in rows, view |-> log[today], ts |-> 0]]
  /\ loaded' = [loaded EXCEPT ![r] = minutes[today]]
  /\ reply' = [reply EXCEPT ![r] = "none"]
  /\ Goto(r, "check")
  /\ UNCHANGED <<time, db, cache, total, manuals, failures>>

\* Bug form of SeenState: the cached state is trusted even when the row is there.
BugSeenCache(r) == IF cache.state # "NULL" THEN cache.state ELSE StateOf(req[r].view)

\* _current_state: the row's last session, or Redis when there is no row.
SeenState(r) == IF req[r].hadRow THEN StateOf(req[r].view) ELSE cache.state

\* Bug form of Permitted: no check that today's row exists.
BugPermittedWithoutRow(r) == SeenState(r) \in AllowedFrom[req[r].type]

Permitted(r) ==
  /\ SeenState(r) \in AllowedFrom[req[r].type]
  /\ req[r].type # "START" => req[r].hadRow

\* The 409 of an illegal transition, or of a tap without a row to update.
Reject(r) ==
  /\ pc[r] = "check"
  /\ ~Permitted(r)
  /\ Finish(r, "conflict")
  /\ UNCHANGED <<time, db, cache, work, budget>>

\* The tap is legal: its instant is read.  Taps take the even instants.
Accept(r) ==
  /\ pc[r] = "check"
  /\ Permitted(r)
  /\ clock' = clock + 2
  /\ req' = [req EXCEPT ![r].ts = clock + 2]
  /\ Goto(r, "insert")
  /\ UNCHANGED <<today, db, cache, loaded, total, reply, budget>>

\* Another transaction has inserted the day's row and not committed yet.
InsertPending(d) ==
  \E q \in Requests : /\ IsTap(q, "START")
                      /\ req[q].day = d
                      /\ pc[q] \in {"hset", "expire", "commit"}

\* Bug form of InsertRow: no UNIQUE(user_id, date).
BugInsertNotUnique(r) ==
  /\ pc[r] = "insert"
  /\ IsTap(r, "START")
  /\ req' = [req EXCEPT ![r].view = <<Own(r)>>]
  /\ Goto(r, "hset")
  /\ UNCHANGED <<time, db, cache, loaded, total, reply, budget>>

\* _do_start: the INSERT waits for a pending one of the same (user, date).
InsertRow(r) ==
  /\ pc[r] = "insert"
  /\ IsTap(r, "START")
  /\ ~InsertPending(req[r].day)
  /\ req[r].day \notin rows
  /\ req' = [req EXCEPT ![r].view = <<Own(r)>>]
  /\ Goto(r, "hset")
  /\ UNCHANGED <<time, db, cache, loaded, total, reply, budget>>

\* The flush of the INSERT violates UNIQUE(user_id, date).  It is outside the
\* try around commit, so the IntegrityError leaves the handler: a 500.
LoseStartRace(r) ==
  /\ pc[r] = "insert"
  /\ IsTap(r, "START")
  /\ ~InsertPending(req[r].day)
  /\ req[r].day \in rows
  /\ Finish(r, "error")
  /\ UNCHANGED <<time, db, cache, work, budget>>

\* Bug form of AppendSession: the collection is not refreshed after the flush.
BugAppendStale(r) ==
  /\ pc[r] = "insert"
  /\ ~IsTap(r, "START")
  /\ LET view == req[r].view
     IN /\ req' = [req EXCEPT ![r].view = view]
        /\ total' = [total EXCEPT ![r] = CalculateDuration(view)]
  /\ Goto(r, IF IsTap(r, "END") THEN "rollup" ELSE "hset")
  /\ UNCHANGED <<time, db, cache, loaded, reply, budget>>

\* _append_session, and the same two statements of add_manual_session: the
\* session is inserted and the sessions read again, then the duration is
\* computed from what that read returned.
AppendSession(r) ==
  /\ pc[r] = "insert"
  /\ ~IsTap(r, "START")
  /\ LET view == Append(log[req[r].day], Own(r))
     IN /\ req' = [req EXCEPT ![r].view = view]
        /\ total' = [total EXCEPT ![r] = CalculateDuration(view)]
  /\ Goto(r, IF IsTap(r, "END") THEN "rollup" ELSE "hset")
  /\ UNCHANGED <<time, db, cache, loaded, reply, budget>>

\* An END that has written its row keeps the row lock until it ends.
RowLocked(d) ==
  \E q \in Requests : /\ IsTap(q, "END")
                      /\ req[q].day = d
                      /\ pc[q] \in {"hset", "expire", "commit"}

\* Bug form of RowIsFree: to total it up undisturbed the row is read again with
\* with_for_update() once the session is in.  FOR UPDATE also waits for the key
\* share lock that the foreign key of everybody else's new session has taken.
BugReadForUpdate(r) ==
  ~ \E q \in Requests \ {r} :
      /\ ~IsTap(q, "START")
      /\ req[q].day = req[r].day
      /\ pc[q] \in {"rollup", "hset", "expire", "commit"}

\* What the UPDATE of request r's row waits for: another UPDATE of it.  It sets
\* no key column, so the new sessions of others do not stand in its way.
RowIsFree(r) == ~RowLocked(req[r].day)

\* END: the distance query flushes the UPDATE of the row first.
UpdateRollup(r) ==
  /\ pc[r] = "rollup"
  /\ RowIsFree(r)
  /\ Goto(r, "hset")
  /\ UNCHANGED <<time, db, cache, work, reply, budget>>
-----------------------------------------------------------------------------
(***************************************************************************)
(* add_manual_session: an existing row, any type, an instant the           *)
(* administrator gives.  Manual sessions take the odd instants, so they    *)
(* fall before, between and after the taps.                                *)
(***************************************************************************)
ManualInstants == {2 * i + 1 : i \in 0 .. MaxTaps}

Used(ts) ==
  \/ \E d \in Days : \E i \in DOMAIN log[d] : log[d][i].ts = ts
  \/ \E q \in Requests : req[q].ts = ts

Manual(r, d, type, ts) ==
  /\ pc[r] = "idle"
  /\ manuals < MaxManual
  /\ d \in rows
  /\ ~Used(ts)
  /\ manuals' = manuals + 1
  /\ req' = [req EXCEPT ![r] =
               [by |-> "manual", type |-> type, day |-> d, hadRow |-> TRUE,
                view |-> <<>>, ts |-> ts]]
  /\ loaded' = [loaded EXCEPT ![r] = minutes[d]]
  /\ reply' = [reply EXCEPT ![r] = "none"]
  /\ Goto(r, "insert")
  /\ UNCHANGED <<time, db, cache, total, taps, failures>>
-----------------------------------------------------------------------------
(***************************************************************************)
(* _write_redis_state: HSET, which keeps the TTL of an existing key and    *)
(* gives a new one none, then EXPIRE to the next midnight.                 *)
(***************************************************************************)
NewState(r) == StateOf(req[r].view)

\* Bug form of StateToCache: the type of a correction, not the latest session.
BugCacheCorrectionType(r) == StateForType[req[r].type]

\* Bug form of StateToCache: the session type instead of the state's name.
BugCacheRawType(r) == req[r].type

StateToCache(r) ==
  IF req[r].by = "tap" THEN StateForType[req[r].type] ELSE NewState(r)

HsetState(r) ==
  /\ pc[r] = "hset"
  /\ cache' = [state |-> StateToCache(r), day |-> req[r].day, ttl |-> cache.ttl]
  /\ Goto(r, "expire")
  /\ UNCHANGED <<time, db, work, reply, budget>>

SetExpiry(r) ==
  /\ pc[r] = "expire"
  /\ cache' = IF cache.state = "NULL" THEN cache ELSE [cache EXCEPT !.ttl = today]
  /\ Goto(r, "commit")
  /\ UNCHANGED <<time, db, work, reply, budget>>

\* SQLAlchemy writes total_duration_minutes only if it differs from the value
\* the request loaded.
ChangesMinutes(r) ==
  /\ IsTap(r, "END") \/ req[r].by = "manual"
  /\ total[r] # loaded[r]

\* Bug form of Commit: the sessions collection is written back as a whole.
BugCommitCollection(r) ==
  LET d == req[r].day IN
  /\ pc[r] = "commit"
  /\ req[r].by = "manual" /\ ChangesMinutes(r) => RowIsFree(r)
  /\ rows' = rows \cup {d}
  /\ log' = [log EXCEPT ![d] = req[r].view]
  /\ minutes' = [minutes EXCEPT ![d] = IF ChangesMinutes(r) THEN total[r] ELSE @]
  /\ summary' = [summary EXCEPT ![d] = @ \/ IsTap(r, "END")]
  /\ Goto(r, "answer")
  /\ UNCHANGED <<time, cache, work, reply, budget>>

\* COMMIT makes the session, the row and the rollup visible together.  A
\* manual session's UPDATE goes out with the commit and waits for the row.
Commit(r) ==
  LET d == req[r].day IN
  /\ pc[r] = "commit"
  /\ req[r].by = "manual" /\ ChangesMinutes(r) => RowIsFree(r)
  /\ rows' = rows \cup {d}
  /\ log' = [log EXCEPT ![d] = Append(@, Own(r))]
  /\ minutes' = [minutes EXCEPT ![d] = IF ChangesMinutes(r) THEN total[r] ELSE @]
  /\ summary' = [summary EXCEPT ![d] = @ \/ IsTap(r, "END")]
  /\ Goto(r, "answer")
  /\ UNCHANGED <<time, cache, work, reply, budget>>

\* The row is read back and returned.
Answer(r) ==
  /\ pc[r] = "answer"
  /\ Finish(r, "ok")
  /\ UNCHANGED <<time, db, cache, work, budget>>
-----------------------------------------------------------------------------
\* A worker dies, a connection drops or a statement fails: what is not yet
\* committed is rolled back, what is in Redis stays, the client gets no 2xx.
Fail(r) ==
  /\ pc[r] # "idle"
  /\ failures < MaxFailures
  /\ failures' = failures + 1
  /\ Finish(r, "error")
  /\ UNCHANGED <<time, db, cache, work, taps, manuals>>

\* UTC midnight: keys whose TTL is the end of this day expire.
Midnight ==
  /\ today < MaxDay
  /\ today' = today + 1
  /\ cache' = IF cache.ttl = today THEN NoKey ELSE cache
  /\ UNCHANGED <<clock, db, pc, work, reply, budget>>

\* volatile-lru evicts only keys that have a TTL.
Evict ==
  /\ cache.ttl # NoExpiry
  /\ cache' = NoKey
  /\ UNCHANGED <<time, db, pc, work, reply, budget>>

Step(r) ==
  \/ Reject(r) \/ Accept(r) \/ InsertRow(r) \/ LoseStartRace(r)
  \/ AppendSession(r) \/ UpdateRollup(r) \/ HsetState(r) \/ SetExpiry(r)
  \/ Commit(r) \/ Answer(r)

Receive(r) ==
  \/ \E type \in SessionTypes : Tap(r, type)
  \/ \E d \in Days, type \in SessionTypes, ts \in ManualInstants : Manual(r, d, type, ts)

Next ==
  \/ \E r \in Requests : Receive(r) \/ Step(r) \/ Fail(r)
  \/ Midnight
  \/ Evict

Spec == Init /\ [][Next]_vars

\* Every handler that can take its next step does: the event loop schedules
\* it, and Postgres and Redis answer it or fail it.
FairSpec == Spec /\ \A r \in Requests : WF_vars(Step(r))
-----------------------------------------------------------------------------
Session == [type : SessionTypes, ts : Nat, by : {"tap", "manual"}]

Labels == {"idle", "check", "insert", "rollup", "hset", "expire", "commit", "answer"}

RequestRecord ==
  [by : {"tap", "manual"}, type : SessionTypes, day : Days, hadRow : BOOLEAN,
   view : Seq(Session), ts : Nat]

\* Types of the committed rows, the cached state and the requests; the totals
\* (minutes, loaded, total) are what RollupMatchesLog is about.
TypeOK ==
  /\ clock \in Nat
  /\ today \in Days
  /\ rows \subseteq Days
  /\ log \in [Days -> Seq(Session)]
  /\ summary \in [Days -> BOOLEAN]
  /\ cache \in [state : DayStates, day : Days, ttl : 0 .. NoExpiry]
  /\ pc \in [Requests -> Labels]
  /\ req \in [Requests -> RequestRecord]
  /\ reply \in [Requests -> {"none", "ok", "conflict", "error"}]
  /\ taps \in 0 .. MaxTaps /\ manuals \in 0 .. MaxManual /\ failures \in 0 .. MaxFailures

\* No request is being handled.
Quiet == \A r \in Requests : pc[r] = "idle"

Taps(d) == {i \in DOMAIN log[d] : log[d][i].by = "tap"}

(***************************************************************************)
(* Safety, whatever overlaps and whatever fails.                           *)
(***************************************************************************)

\* Of all the STARTs that overlap on a day one creates the row, and its session
\* is the first the row ever has and earlier than every other tap: nothing is
\* ever logged under a day nobody started (transition_state and _do_start with
\* the UNIQUE(user_id, date) backstop, attendance_service.py:16-17).
StartOpensDay ==
  \A d \in Days :
    /\ d \in rows <=> log[d] # <<>>
    /\ \A i \in Taps(d) :
         IF i = 1 THEN log[d][i].type = "START"
         ELSE log[d][i].type # "START" /\ log[d][1].ts < log[d][i].ts
    /\ d \in rows => 1 \in Taps(d)

\* Every tap in the log obeyed the transition table for some earlier content of
\* the log: the check of transition_state may use a stale snapshot, but never
\* the cached state or one that was never committed (attendance_service.py:168-172).
EveryTapWasLegal ==
  \A d \in Days : \A i \in Taps(d) :
    \E k \in 0 .. i - 1 :
      StateOf(SubSeq(log[d], 1, k)) \in AllowedFrom[log[d][i].type]

\* A request that was answered with success has its session in the log for
\* good, whatever later and overlapping requests do (commit before the reply,
\* attendance_service.py:210-218 and 428-430).
AckedIsDurable ==
  \A r \in Requests :
    reply[r] = "ok" => \E i \in DOMAIN log[req[r].day] : log[req[r].day][i] = Own(r)

(***************************************************************************)
(* What the three hold because of: the inductive part.                     *)
(***************************************************************************)
Writing == {"insert", "rollup", "hset", "expire", "commit"}
InTransaction == {"hset", "expire", "commit"}

\* An instant the server has not read yet is in no tap.
TapsNotLater == \A d \in Days : \A i \in Taps(d) : log[d][i].ts <= clock

\* A request still has, of what it found when it was checked: a row that stays,
\* a prefix of the log that allowed its tap, and an instant after the START.
CheckedOK(r) ==
  LET d == req[r].day IN
  /\ pc[r] = "check" =>
       /\ req[r].by = "tap"
       /\ req[r].hadRow =>
            d \in rows /\ \E k \in 0 .. Len(log[d]) : req[r].view = SubSeq(log[d], 1, k)
  /\ pc[r] = "rollup" => IsTap(r, "END")
  /\ pc[r] \in Writing /\ ~IsTap(r, "START") => d \in rows
  /\ pc[r] \in Writing /\ req[r].by = "tap" => req[r].ts <= clock
  /\ pc[r] \in Writing /\ req[r].by = "tap" /\ req[r].type # "START" =>
       /\ log[d][1].ts < req[r].ts
       /\ \E k \in 0 .. Len(log[d]) :
            StateOf(SubSeq(log[d], 1, k)) \in AllowedFrom[req[r].type]

\* Of the STARTs of one day at most one has inserted the row.
OneInsert ==
  \A r \in Requests :
    pc[r] \in InTransaction /\ IsTap(r, "START") =>
      /\ req[r].day \notin rows
      /\ \A q \in Requests :
           pc[q] \in InTransaction /\ IsTap(q, "START") /\ req[q].day = req[r].day
             => q = r

\* No answer before the end, and a success only for a session that is there.
CommittedOK(r) ==
  /\ pc[r] # "idle" => reply[r] = "none"
  /\ pc[r] = "answer" => \E i \in DOMAIN log[req[r].day] : log[req[r].day][i] = Own(r)

InFlightOK ==
  /\ TapsNotLater
  /\ OneInsert
  /\ \A r \in Requests : CheckedOK(r) /\ CommittedOK(r)

IInv == TypeOK /\ StartOpensDay /\ EveryTapWasLegal /\ AckedIsDurable /\ InFlightOK

(***************************************************************************)
(* The promise to the client and to the reader of the rollup.              *)
(***************************************************************************)

\* get_today: what the app shows before it offers a button.
GetToday == IF today \in rows THEN StateOf(log[today]) ELSE "NULL"

\* When get_today says the day has not begun and no handler is running, START
\* is not refused: no cached state of an unsaved or other day stands in the way
\* (_current_state, attendance_service.py:126-139).
StartNotLockedOut ==
  Quiet /\ GetToday = "NULL" => cache.state \in AllowedFrom["START"]

\* Once nothing is in flight, the total of an ended day is the worked time of
\* the sessions the day has (attendance_service.py:190-194 and 409-410).
RollupMatchesLog ==
  Quiet => \A d \in rows :
    StateOf(log[d]) = "ENDED" => minutes[d] = CalculateDuration(log[d])

\* The cached state, when there is one and nothing is in flight, is the state of
\* the row it names ("Postgres is the source of truth ... Redis caches the
\* current state", attendance_service.py:11-13).  Corrections dated in the
\* future are set aside: a later tap caches its own type, not theirs.
CacheMirrorsSessions ==
  /\ Quiet
  /\ cache.state # "NULL"
  /\ \A i \in DOMAIN log[cache.day] : log[cache.day][i].ts <= clock
  => cache.state = StateOf(log[cache.day])

\* An ended day stays ended ("NULL -> START -> (BREAK <-> RESUME)* -> END",
\* attendance_service.py:5).
EndedIsFinal ==
  [][ \A d \in Days : StateOf(log[d]) = "ENDED" => StateOf(log'[d]) = "ENDED" ]_vars

\* Every request is answered.  Requests wait for each other's INSERT of the day
\* and for each other's UPDATE of its row, while their own new session keeps a
\* lock on that row for its foreign key; still no two ever wait for each other
\* (transition_state writes the session first and the row last, and nothing but
\* that one row, attendance_service.py:189-197 and 395-408).
EveryRequestIsAnswered == \A r \in Requests : pc[r] # "idle" ~> pc[r] = "idle"

(***************************************************************************)
(* One request at a time is the abstract day.                              *)
(***************************************************************************)
Day == INSTANCE WorkDay WITH state <- [d \in Days |-> StateOf(log[d])]

\* With one slot, whatever fails, expires or is evicted, and across midnight,
\* every day's log moves only along NULL, START, (BREAK, RESUME)*, END.
ImplementsWorkDay == Day!Spec
=============================================================================
