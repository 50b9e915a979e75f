----------------------------- MODULE DayReports -----------------------------
(***************************************************************************)
(* What the reports say of the attendance table, and who may ask for them  *)
(* (report_service.py, report_repository.py, the monthly summary of        *)
(* employee_service.py).  Four reports add up the same rows in four ways:  *)
(* row by row, per employee in a dictionary, per run of rows of one        *)
(* employee in a scan, per member of a team.  Minutes stand for the        *)
(* distance too; formatting and rounding are left out.                     *)
(***************************************************************************)
EXTENDS Integers, Sequences, FiniteSets, SequencesExt, FiniteSetsExt

CONSTANTS
  People,      \* employees and supervisors
  NameOf,      \* the position of a person's name in the alphabet
  TeamFor,      \* the team of each of them, NoOne without one
  Supervised,  \* the teams each of them supervises
  Inactive,    \* people who were deactivated
  TeamIds, NoOne,
  Days, MaxMinutes, MaxRecords

Statuses == {"PRESENT", "HALF_DAY", "ABSENT"}

ASSUME DayReportsAssumption ==
  /\ NoOne \notin People \cup TeamIds \cup Statuses /\ IsFiniteSet(People)
  /\ (\A u \in People : NameOf[u] \in Int) /\ MaxMinutes \in Nat

VARIABLES
  attendance,   \* <<user, day>> :> [status, minutes]
  asked         \* the last report asked for: [actor, role, about]

tableVars == <<attendance, asked>>

NoReport == [actor |-> NoOne, role |-> "EMPLOYEE", about |-> {}]

DayReportsInit == attendance = [k \in {} |-> 0] /\ asked = NoReport

\* A day is opened by a tap or a replay.
OpenDay(u, d, n) ==
  /\ asked = NoReport /\ Cardinality(DOMAIN attendance) < MaxRecords /\ <<u, d>> \notin DOMAIN attendance
  /\ attendance' = [k \in DOMAIN attendance \cup {<<u, d>>} |->
                      IF k = <<u, d>> THEN [status |-> "PRESENT", minutes |-> n] ELSE attendance[k]]
  /\ UNCHANGED asked

OverrideStatus(k, s) ==
  /\ asked = NoReport
  /\ attendance' = [attendance EXCEPT ![k].status = s]
  /\ UNCHANGED asked
-----------------------------------------------------------------------------
(* attendance_in_range and its order: by name, then by date                *)

Rows(team, user, status) ==
  {k \in DOMAIN attendance : /\ team # NoOne => TeamFor[k[1]] = team
                             /\ user # NoOne => k[1] = user
                             /\ status # NoOne => attendance[k].status = status}

BugSorted(s) == \A i, j \in DOMAIN s : i < j => s[i][2] <= s[j][2]
Sorted(s) == \A i, j \in DOMAIN s : i < j =>
  \/ NameOf[s[i][1]] < NameOf[s[j][1]]
  \/ NameOf[s[i][1]] = NameOf[s[j][1]] /\ s[i][2] <= s[j][2]

\* Every order the database may give the rows of S in.
InRange(S) == {s \in SetToSeqs(S) : Sorted(s)}

Minutes(S) == SumFunctionOnSet([k \in DOMAIN attendance |-> attendance[k].minutes], S)
Of(S, u) == {k \in S : k[1] = u}
UserIds(S) == {k[1] : k \in S}
-----------------------------------------------------------------------------
(* The attendance, distance and zone reports                               *)

\* _attendance_data: one row each, and their total.
AttendanceData(S) == [records |-> Cardinality(S), employees |-> Cardinality(UserIds(S)),
                      minutes |-> Minutes(S)]

\* _distance_data: per_user, an entry for each user id met.
DistanceData(S) == [u \in UserIds(S) |-> [days |-> Cardinality(Of(S, u)), total |-> Minutes(Of(S, u))]]
TopDistance(S) == Max({0} \cup {DistanceData(S)[u].total : u \in UserIds(S)})

\* _distance_zones_data: a TOTAL row when the employee of the row changes, and
\* after the last.
NoTotal == [user |-> NoOne, days |-> 0, minutes |-> 0]
FlushTotal(acc) == IF acc.current.days = 0 THEN acc.totals ELSE Append(acc.totals, acc.current)
ZoneRow(acc, k) ==
  LET cur == IF k[1] = acc.current.user THEN acc.current ELSE [NoTotal EXCEPT !.user = k[1]] IN
    [totals  |-> IF k[1] = acc.current.user THEN acc.totals ELSE FlushTotal(acc),
     current |-> [cur EXCEPT !.days = @ + 1, !.minutes = @ + attendance[k].minutes]]
DistanceZonesData(s) == FlushTotal(FoldLeft(ZoneRow, [totals |-> <<>>, current |-> NoTotal], s))
-----------------------------------------------------------------------------
(* The team report and the monthly summary; half days count twice halved   *)

Credit(S) == 2 * Cardinality({k \in S : attendance[k].status = "PRESENT"})
             + Cardinality({k \in S : attendance[k].status = "HALF_DAY"})

\* Members are active; rows of one who was deactivated are counted all the same.
TeamMembers(t) == {u \in People : TeamFor[u] = t /\ u \notin Inactive}
Counted(t) == TeamMembers(t) \cup UserIds(Rows(t, NoOne, NoOne))
WorkingDays(t) == Cardinality({k[2] : k \in Rows(t, NoOne, NoOne)})

\* In twentieths of a per cent.
TeamRate(t) ==
  LET denom == Max({Cardinality(Counted(t)), 1}) * WorkingDays(t) IN
    IF denom = 0 THEN 0 ELSE (1000 * Credit(Rows(t, NoOne, NoOne))) \div denom
MemberRate(t, u) ==
  IF WorkingDays(t) = 0 THEN 0
  ELSE (1000 * Credit(Of(Rows(t, NoOne, NoOne), u))) \div WorkingDays(t)
DerivedAbsent(t, u) ==
  IF WorkingDays(t) = 0 THEN 0
  ELSE Max({0, WorkingDays(t) - Credit(Of(Rows(t, NoOne, NoOne), u)) \div 2})

\* employee_service.attendance_summary, over the same days.
Recorded(u, s) == Cardinality(Rows(NoOne, u, s))
AttendanceSummary(u) == [present |-> Recorded(u, "PRESENT"), half |-> Recorded(u, "HALF_DAY"),
                         absent |-> Recorded(u, "ABSENT"), minutes |-> Minutes(Rows(NoOne, u, NoOne))]
-----------------------------------------------------------------------------
(* authorize: the people a report may be about, {} when it is refused      *)

Roles == {"EMPLOYEE", "SUPERVISOR", "ADMIN"}
ReportTypes == {"ATTENDANCE", "DISTANCE", "DISTANCE_ZONES", "TEAM", "GEOFENCE_COMPLIANCE"}
TeamScope(t) == {u \in People : TeamFor[u] = t}

AuthorizeTeam(actor, role, team) ==
  IF role = "EMPLOYEE" \/ team = NoOne \/ (role = "SUPERVISOR" /\ team \notin Supervised[actor])
  THEN {} ELSE TeamScope(team)

BugSupervisorRange(actor, team, user) ==
  IF user # NoOne THEN {user}
  ELSE IF team # NoOne THEN IF team \in Supervised[actor] THEN TeamScope(team) ELSE {}
  ELSE IF Cardinality(Supervised[actor]) = 1 THEN UNION {TeamScope(t) : t \in Supervised[actor]} ELSE {}
SupervisorRange(actor, team, user) ==
  IF user # NoOne THEN {u \in {user} : TeamFor[u] \in Supervised[actor]}
  ELSE IF team # NoOne THEN IF team \in Supervised[actor] THEN TeamScope(team) ELSE {}
  ELSE IF Cardinality(Supervised[actor]) = 1 THEN UNION {TeamScope(t) : t \in Supervised[actor]} ELSE {}

Authorize(actor, role, type, team, user) ==
  IF type \in {"TEAM", "GEOFENCE_COMPLIANCE"} THEN AuthorizeTeam(actor, role, team)
  ELSE CASE role = "EMPLOYEE" -> {actor}
         [] role = "SUPERVISOR" -> SupervisorRange(actor, team, user)
         [] role = "ADMIN" -> {u \in People : (user # NoOne => u = user)
                                               /\ (team # NoOne => TeamFor[u] = team)}

\* POST /reports/generate; whom a report is about does not depend on the rows,
\* so it is asked for when there are none yet.
GenerateReport(actor, role, type, team, user) ==
  /\ attendance = [k \in {} |-> 0] /\ UNCHANGED attendance
  /\ asked' = [actor |-> actor, role |-> role, about |-> Authorize(actor, role, type, team, user)]

DayReportsNext ==
  \/ \E u \in People, d \in Days, n \in 0 .. MaxMinutes : OpenDay(u, d, n)
  \/ \E k \in DOMAIN attendance, s \in Statuses : OverrideStatus(k, s)
  \/ \E actor \in People, role \in Roles, type \in ReportTypes,
        team \in TeamIds \cup {NoOne}, user \in People \cup {NoOne} :
       GenerateReport(actor, role, type, team, user)

DayReportsSpec == DayReportsInit /\ [][DayReportsNext]_tableVars
-----------------------------------------------------------------------------
DayReportsTypeOK ==
  /\ asked.role \in Roles /\ asked.about \subseteq People
  /\ DOMAIN attendance \subseteq People \X Days
  /\ \A k \in DOMAIN attendance : /\ attendance[k].status \in Statuses
                                   /\ attendance[k].minutes \in 0 .. MaxMinutes

\* However a report groups the rows, it counts each of them once: the rows of
\* the attendance report, the employees of the distance report, the TOTAL rows
\* of the zone report and the summaries of the employees add up to the same
\* days and minutes, for every team and every order the database may choose.
\* "A TOTAL row after each employee" (report_service.py:402) is one each, but
\* for two employees of one name: their rows interleave by date.
ReportsAgree ==
  \A team \in TeamIds \cup {NoOne} :
    LET S == Rows(team, NoOne, NoOne)
        per == DistanceData(S)
        Own(u) == AttendanceSummary(u) IN
    /\ AttendanceData(S).records = SumFunction([u \in UserIds(S) |-> per[u].days])
    /\ AttendanceData(S).minutes = SumFunction([u \in UserIds(S) |-> per[u].total])
    /\ \A u \in UserIds(S) : /\ Own(u).minutes = per[u].total
                              /\ Own(u).present + Own(u).half + Own(u).absent = per[u].days
    /\ \A s \in InRange(S) :
         LET totals == DistanceZonesData(s) IN
           /\ AttendanceData(S).records = SumFunction([i \in DOMAIN totals |-> totals[i].days])
           /\ AttendanceData(S).minutes = SumFunction([i \in DOMAIN totals |-> totals[i].minutes])
           /\ (\A u, v \in UserIds(S) : NameOf[u] = NameOf[v] => u = v) =>
                /\ Len(totals) = Cardinality(UserIds(S))
                /\ \A i \in DOMAIN totals :
                     per[totals[i].user] = [days |-> totals[i].days, total |-> totals[i].minutes]

\* "Clamp the request to what actor may export" (report_service.py:110): an
\* employee's report is about them, a supervisor's about people of the teams
\* they lead, whatever filters the client sends; and the rates of a team stay
\* within 100 %, with people who left and half days.
TeamReportsHold ==
  /\ asked.role = "EMPLOYEE" => asked.about \subseteq {asked.actor}
  /\ asked.role = "SUPERVISOR" =>
       asked.about \subseteq UNION {TeamScope(t) : t \in Supervised[asked.actor]}
  /\ \A t \in TeamIds : /\ TeamRate(t) <= 2000
                        /\ \A u \in Counted(t) : /\ MemberRate(t, u) <= 2000
                                                  /\ DerivedAbsent(t, u) <= WorkingDays(t)
=============================================================================
