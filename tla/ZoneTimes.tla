----------------------------- MODULE ZoneTimes -----------------------------
(***************************************************************************)
(* The time an employee spent in one zone on one day, from its ENTER and   *)
(* EXIT events.  Four places account for it, each in its own way: the      *)
(* LEAD() pairing of the presence and visits queries                       *)
(* (geofence_repository.py), the compliance and the zone time reports      *)
(* (report_service.py), and the dwell an exit notification tells           *)
(* (geofence_service.py).  An event carries the server's clock as its      *)
(* handler read it, and is inserted later: handlers that overlap may       *)
(* insert events out of order.  The unit is the instant: rounding to       *)
(* minutes is left out.                                                    *)
(***************************************************************************)
EXTENDS Integers, Sequences, SequencesExt, FiniteSetsExt

CONSTANTS
  MaxInstant,   \* events are at instants 1 .. MaxInstant
  MaxEvents     \* bound on the events of a day

ASSUME ZoneTimesAssumption == MaxInstant \in Nat /\ MaxEvents \in Nat

VARIABLES
  events,   \* the rows of geofence_events, as they were inserted
  told      \* the dwell told at each of them, 0 for none

zoneVars == <<events, told>>

ZoneTimesInit == events = <<>> /\ told = <<>>

\* The k-th in the order of the instants has k events up to it.
Timeline ==
  [k \in DOMAIN events |->
     events[CHOOSE i \in DOMAIN events :
              Cardinality({j \in DOMAIN events : events[j].ts <= events[i].ts}) = k]]
Enters == {i \in DOMAIN Timeline : Timeline[i].type = "ENTER"}
-----------------------------------------------------------------------------
(* _dwell_minutes: since the latest ENTER before the exit                  *)

LastEnter(ts) == {events[i].ts : i \in {j \in DOMAIN events :
                                          events[j].type = "ENTER" /\ events[j].ts < ts}}
DwellMinutes(ts) == IF LastEnter(ts) = {} THEN 0 ELSE ts - Max(LastEnter(ts))

InsertEvent(type, ts) ==
  /\ Len(events) < MaxEvents /\ \A i \in DOMAIN events : events[i].ts # ts
  /\ events' = Append(events, [type |-> type, ts |-> ts])
  /\ told' = Append(told, IF type = "EXIT" THEN DwellMinutes(ts) ELSE 0)

ZoneTimesNext == \E type \in {"ENTER", "EXIT"}, ts \in 1 .. MaxInstant : InsertEvent(type, ts)
ZoneTimesSpec == ZoneTimesInit /\ [][ZoneTimesNext]_zoneVars
-----------------------------------------------------------------------------
(* presence, employee_visits and currently_inside                          *)

\* LEAD(event_type) = 'EXIT'.
Paired(i) == i < Len(Timeline) /\ Timeline[i + 1].type = "EXIT"

Duration(i) == IF Paired(i) THEN Timeline[i + 1].ts - Timeline[i].ts ELSE 0
PresenceMinutes == SumFunction([i \in Enters |-> Duration(i)])
EmployeeVisits == [visits |-> Cardinality(Enters), minutes |-> PresenceMinutes]
CurrentlyInside == events # <<>> /\ Last(Timeline).type = "ENTER"
-----------------------------------------------------------------------------
(* _zone_day_compliance and _zone_durations: a pass that remembers the     *)
(* latest ENTER; 0 stands for none.                                        *)

BugPass(acc, e) ==
  IF e.type = "ENTER" THEN [acc EXCEPT !.visits = @ + 1, !.open = e.ts]
  ELSE IF acc.open = 0 THEN acc
  ELSE [acc EXCEPT !.dwell = @ + (e.ts - acc.open)]
Pass(acc, e) ==
  IF e.type = "ENTER" THEN [acc EXCEPT !.visits = @ + 1, !.open = e.ts]
  ELSE IF acc.open = 0 THEN acc
  ELSE [acc EXCEPT !.dwell = @ + (e.ts - acc.open), !.open = 0]

ZoneDayCompliance == FoldLeft(Pass, [visits |-> 0, open |-> 0, dwell |-> 0], Timeline)

\* An ENTER nothing closed is closed by the END of the attendance, if there is
\* one (0: none) and it is later.
ClosedAtEnd(acc, end) == IF acc.open # 0 /\ end > acc.open THEN end - acc.open ELSE 0
ZoneDurations(end) == ZoneDayCompliance.dwell + ClosedAtEnd(ZoneDayCompliance, end)
-----------------------------------------------------------------------------
\* The event in force at instant t, and the first one after it.
UpTo(t)   == {i \in DOMAIN Timeline : Timeline[i].ts <= t}
Beyond(t) == {i \in DOMAIN Timeline : Timeline[i].ts > t}
WasInside(t) == UpTo(t) # {} /\ Timeline[Max(UpTo(t))].type = "ENTER"
Stayed(t) == WasInside(t) /\ Beyond(t) # {} /\ Timeline[Min(Beyond(t))].type = "EXIT"

ZoneTimesTypeOK ==
  /\ \A i \in DOMAIN events : events[i].type \in {"ENTER", "EXIT"} /\ events[i].ts \in 1 .. MaxInstant
  /\ Len(told) = Len(events) /\ \A i \in DOMAIN told : told[i] \in 0 .. MaxInstant

Regular == \A i \in DOMAIN events : /\ i > 1 => events[i - 1].ts < events[i].ts
                                    /\ events[i].type = IF i % 2 = 1 THEN "ENTER" ELSE "EXIT"

\* The presence screen, the visits and the two reports say the same time, that
\* of the instants inside that an exit follows, however irregular the events
\* are (an EXIT or ENTER twice, one without the other) and in whatever order
\* they came; an open visit counts up to the END of the day, in one report only.
\* What the exit notifications told adds up to it if the events came regularly.
AccountsAgree ==
  LET inside == Cardinality({t \in 1 .. MaxInstant : Stayed(t)}) IN
  /\ PresenceMinutes = inside
  /\ ZoneDayCompliance.dwell = inside /\ ZoneDayCompliance.visits = EmployeeVisits.visits
  /\ \A end \in 0 .. MaxInstant + 1 :
       ZoneDurations(end) =
         inside + IF CurrentlyInside THEN Cardinality(Last(Timeline).ts .. end - 1) ELSE 0
  /\ Regular => SumFunction(told) = inside
=============================================================================
