------------------------------ MODULE Geofence ------------------------------
(***************************************************************************)
(* The zones of GeofenceService and what one employee's pings make of      *)
(* them: the zone rows an administrator creates, redraws, re-scopes and    *)
(* deletes, the employee's team, and the ENTER and EXIT events recorded.   *)
(* Geometry is the set of points a zone contains.                          *)
(***************************************************************************)
EXTENDS Integers, Sequences, FiniteSets

CONSTANTS
  Zones,         \* zone ids
  Teams,         \* team ids
  NoTeam,        \* the NULL team
  Points,        \* places a ping can be at
  InitialZones,  \* the zones there are at the start: [Zones -> ZoneRow]
  MaxZoneOps     \* bound: operations on zones and on the employee's team

ZoneRow ==
  [status : {"absent", "active", "deleted"}, scope : {"UNIVERSAL", "TEAM"},
   team : Teams \cup {NoTeam}, area : SUBSET Points]

ASSUME GeofenceAssumption ==
  /\ NoTeam \notin Teams
  /\ InitialZones \in [Zones -> ZoneRow]
  /\ MaxZoneOps \in Nat

VARIABLES
  zone,     \* zone[z]: the row of zone z
  team,     \* the employee's team_id
  events,   \* events[z]: types of the employee's events of zone z, oldest first
  zoneOps   \* how much of MaxZoneOps is used

zoneVars == <<zone, team, zoneOps>>

GeofenceInit ==
  /\ zone = InitialZones
  /\ team \in Teams \cup {NoTeam}
  /\ events = [z \in Zones |-> <<>>]
  /\ zoneOps = 0

\* Bug form of Containing: zones of other teams count.
BugContainingAnyTeam(p, t) == {z \in Zones : zone[z].status = "active" /\ p \in zone[z].area}

\* geofences_containing_for_team.  SQL's team_id = NULL holds for no zone.
Containing(p, t) ==
  {z \in Zones : /\ zone[z].status = "active"
                 /\ p \in zone[z].area
                 /\ \/ zone[z].scope = "UNIVERSAL"
                    \/ zone[z].scope = "TEAM" /\ t # NoTeam /\ zone[z].team = t}

\* Bug form of Recorded: a ping inside is an entry, whether or not the one
\* before was inside too.
BugRecordedEveryPing(now, was) ==
  [z \in Zones |->
     IF z \in now THEN Append(events[z], "ENTER")
     ELSE IF z \in was \ now THEN Append(events[z], "EXIT")
     ELSE events[z]]

\* check_geofence_events: the events after a ping inside the zones now that
\* follows a ping inside the zones was.
Recorded(now, was) ==
  [z \in Zones |->
     IF z \in now \ was THEN Append(events[z], "ENTER")
     ELSE IF z \in was \ now THEN Append(events[z], "EXIT")
     ELSE events[z]]
-----------------------------------------------------------------------------
ZoneOp ==
  /\ zoneOps < MaxZoneOps
  /\ zoneOps' = zoneOps + 1
  /\ UNCHANGED events

\* The scopes a zone can be given: TEAM requires a team, UNIVERSAL clears it.
ScopedTo == [scope : {"TEAM"}, team : Teams] \cup [scope : {"UNIVERSAL"}, team : {NoTeam}]

CreateZone(z, s, area) ==
  /\ ZoneOp
  /\ zone[z].status = "absent"
  /\ zone' = [zone EXCEPT ![z] = [status |-> "active", scope |-> s.scope, team |-> s.team,
                                  area |-> area]]
  /\ UNCHANGED team

\* update: one PATCH may redraw the zone, re-scope it, or both.
UpdateZone(z, s, area) ==
  /\ ZoneOp
  /\ zone[z].status = "active"
  /\ zone' = [zone EXCEPT ![z].scope = s.scope, ![z].team = s.team, ![z].area = area]
  /\ UNCHANGED team

SoftDelete(z) ==
  /\ ZoneOp
  /\ zone[z].status = "active"
  /\ zone' = [zone EXCEPT ![z].status = "deleted"]
  /\ UNCHANGED team

\* TeamService and EmployeeService move the employee.
MoveEmployee(t) ==
  /\ ZoneOp
  /\ team # t
  /\ team' = t
  /\ UNCHANGED zone

ZoneStep ==
  \/ \E z \in Zones, s \in ScopedTo, area \in SUBSET Points :
       CreateZone(z, s, area) \/ UpdateZone(z, s, area)
  \/ \E z \in Zones : SoftDelete(z)
  \/ \E t \in Teams \cup {NoTeam} : MoveEmployee(t)
-----------------------------------------------------------------------------
\* currently_inside and presence: the last event of the zone is an ENTER.
StillInside(z) == events[z] # <<>> /\ events[z][Len(events[z])] = "ENTER"
=============================================================================
