------------------------------ MODULE DayLogs ------------------------------
(***************************************************************************)
(* Every log of at most MaxSessions sessions at distinct instants of       *)
(* 1..MaxTime, in every order of insertion and with every type: what taps, *)
(* manual corrections and offline replays can leave in a day.  The track   *)
(* of the day is labelled with its states (location_service.py).           *)
(***************************************************************************)
EXTENDS WorkLog, FiniteSets

CONSTANTS MaxTime, MaxSessions

ASSUME DayLogsAssumption == MaxTime \in Nat /\ MaxSessions \in Nat

VARIABLE dayLog

DayLogsInit == dayLog = <<>>

AppendSession(type, ts) ==
  /\ Len(dayLog) < MaxSessions
  /\ \A i \in DOMAIN dayLog : dayLog[i].ts # ts
  /\ dayLog' = Append(dayLog, [type |-> type, ts |-> ts])

DayLogsNext == \E type \in SessionTypes, ts \in 1 .. MaxTime : AppendSession(type, ts)
DayLogsSpec == DayLogsInit /\ [][DayLogsNext]_dayLog

\* _state_transitions and _state_at: the last transition at or before t in a
\* scan of the sorted sessions; tracking has no state after an END.
BugTransition(acc, s, t) == IF s.ts < t THEN s.type ELSE acc
Transition(acc, s, t) == IF s.ts <= t THEN s.type ELSE acc
StateAt(t) ==
  LET type == FoldLeft(LAMBDA acc, s : Transition(acc, s, t), "END", InOrder(dayLog)) IN
    IF type = "END" THEN "NULL" ELSE StateForType[type]
-----------------------------------------------------------------------------
\* The sessions up to instant t, and those after it.
SessionsTo(t)    == Restrict(dayLog, {i \in DOMAIN dayLog : dayLog[i].ts <= t})
SessionsAfter(t) == Restrict(dayLog, {i \in DOMAIN dayLog : dayLog[i].ts > t})

Worked(t) ==
  /\ StateOf(SessionsTo(t)) \in {"STARTED", "RESUMED"}
  /\ \E i \in DOMAIN SessionsAfter(t) :
       /\ \A j \in DOMAIN SessionsAfter(t) : SessionsAfter(t)[i].ts <= SessionsAfter(t)[j].ts
       /\ SessionsAfter(t)[i].type \in Closing

\* Whoever reads a log sees the same day, whatever the order of insertion and
\* however irregular it is.  calculate_duration counts an instant exactly when
\* the tap in force opened work and the next tap closes it ("Break gaps are
\* excluded", attendance_service.py): breaks, trailing openings and repeated
\* closings add nothing.  A point of the replayed track is drawn with the state
\* the day was in when it was recorded.
LogReadersAgree ==
  /\ CalculateDuration(dayLog) = Cardinality({t \in 0 .. MaxTime : Worked(t)})
  /\ \A t \in 0 .. MaxTime :
       LET state == StateOf(SessionsTo(t)) IN
         StateAt(t) = IF state = "ENDED" THEN "NULL" ELSE state
=============================================================================
