----------------------------- MODULE MCServices -----------------------------
(***************************************************************************)
(* The services of the server that share no state with each other, side by *)
(* side: a behaviour picks one of them, and that one runs while the others *)
(* stay as they began.  The state space is the sum of theirs.              *)
(***************************************************************************)
EXTENDS Sessions, Notifications, Pages, Staff, ReportJobs, Housekeeping,
        OfflineReplay, ZoneTimes, DayReports, LiveFeed, Trail, DayLogs, TLC

CONSTANTS u1, u2, u3, k1, k2, t1, t2

MCTeamOf == (u1 :> k1) @@ (u2 :> k1)
MCSupervisorOf == k1 :> u2
MCBound == (t1 :> u1) @@ (t2 :> u2)
MCRegistered == {MCBound, (t1 :> u1) @@ (t2 :> NoUser)}
MCFold == [n \in Names |-> "a"]
MCRecords == << [type |-> "START", ts |-> 2, named |-> FALSE],
                [type |-> "BREAK", ts |-> 3, named |-> TRUE],
                [type |-> "BREAK", ts |-> 4, named |-> FALSE],
                [type |-> "RESUME", ts |-> 5, named |-> FALSE] >>
\* u1 and u2 have the same name; u3 was deactivated.
MCNameOf == (u1 :> 1) @@ (u2 :> 1) @@ (u3 :> 2)
MCTeamFor == (u1 :> k1) @@ (u2 :> k2) @@ (u3 :> k1)
MCSupervised == (u1 :> {k1}) @@ (u2 :> {}) @@ (u3 :> {k1, k2})

Parts == {"sessions", "notifications", "pages", "staff", "reports", "archive", "keys",
          "limits", "replay", "zones", "tables", "feed", "trail", "logs"}

VARIABLE part

\* The variables of the services before and behind one in this order.
upToPages == <<sessionVars, notificationVars, pageVars>>
upToReports == <<upToPages, staffVars, reportVars>>
upToReplay == <<upToReports, housekeepingVars, replayVars>>
fromFeed == <<feedVars, trailVars, dayLog>>
fromZones == <<zoneVars, tableVars, fromFeed>>
fromHousekeeping == <<housekeepingVars, replayVars, fromZones>>

vars == <<part, upToReports, fromHousekeeping>>

Init ==
  /\ part \in Parts
  /\ SessionsInit /\ NotificationsInit /\ PagesInit /\ StaffInit /\ ReportJobsInit
  /\ IF part = "archive" THEN HousekeepingInit ELSE HousekeepingStart([r \in Old |-> {}])
  /\ ReplayInit /\ ZoneTimesInit /\ DayReportsInit /\ LiveFeedInit /\ DayLogsInit
  /\ part # "notifications" => owner = MCBound
  /\ part # "pages" => ~newest
  /\ part # "replay" => row = "none"
  /\ IF part = "trail" THEN TrailInit
     ELSE stack = {} /\ keep = Track /\ mock = {} /\ dist = [p \in Inner |-> 0]

Next ==
  \/ part = "sessions" /\ SessionsNext /\ UNCHANGED <<part, notificationVars, pageVars, staffVars, reportVars, fromHousekeeping>>
  \/ part = "notifications" /\ NotificationsNext /\ UNCHANGED <<part, sessionVars, pageVars, staffVars, reportVars, fromHousekeeping>>
  \/ part = "pages" /\ PagesNext /\ UNCHANGED <<part, sessionVars, notificationVars, staffVars, reportVars, fromHousekeeping>>
  \/ part = "staff" /\ StaffNext /\ UNCHANGED <<part, upToPages, reportVars, fromHousekeeping>>
  \/ part = "reports" /\ ReportJobsNext /\ UNCHANGED <<part, upToPages, staffVars, fromHousekeeping>>
  \/ part = "archive" /\ ArchiveNext /\ UNCHANGED <<part, upToReports, replayVars, fromZones>>
  \/ part = "keys" /\ KeysNext /\ UNCHANGED <<part, upToReports, replayVars, fromZones>>
  \/ part = "limits" /\ LimitsNext /\ UNCHANGED <<part, upToReports, replayVars, fromZones>>
  \/ part = "replay" /\ ReplayNext /\ UNCHANGED <<part, upToReports, housekeepingVars, fromZones>>
  \/ part = "zones" /\ ZoneTimesNext /\ UNCHANGED <<part, upToReplay, tableVars, fromFeed>>
  \/ part = "tables" /\ DayReportsNext /\ UNCHANGED <<part, upToReplay, zoneVars, fromFeed>>
  \/ part = "feed" /\ LiveFeedNext /\ UNCHANGED <<part, upToReplay, zoneVars, tableVars, trailVars, dayLog>>
  \/ part = "trail" /\ TrailNext /\ UNCHANGED <<part, upToReplay, zoneVars, tableVars, feedVars, dayLog>>
  \/ part = "logs" /\ DayLogsNext /\ UNCHANGED <<part, upToReplay, zoneVars, tableVars, feedVars, trailVars>>

(***************************************************************************)
(* Fairness, for the service that runs.  Handlers, background jobs and the *)
(* loops of the devices take their steps: the event loops schedule them,   *)
(* PostgreSQL and Redis answer.  Schedulers fire, keys expire, files age.  *)
(* Nobody has to log in, tap, crash or connect.                            *)
(***************************************************************************)
DevicesRun ==
  /\ \A r \in Requests :
       /\ WF_sessionVars(part = "sessions" /\ Handle(r))
       /\ WF_sessionVars(part = "sessions" /\ \E d \in Devices : Answer(r, d))
  /\ \A d \in Devices : WF_sessionVars(part = "sessions" /\ Replay(d))
JobsRun ==
  /\ \A w \in Workers : WF_notificationVars(part = "notifications" /\ Work(w))
  /\ \A g \in Registrars : WF_notificationVars(part = "notifications" /\ RegisterDevice(g))
  /\ \A i \in Reports : /\ WF_reportVars(part = "reports" /\ RunReportJob(i))
                         /\ WF_reportVars(part = "reports" /\ KeyExpires(i))
                         /\ WF_reportVars(part = "reports" /\ FileAges(i))
FeedRuns == WF_feedVars(part = "feed" /\ AdminLive)

Fairness == DevicesRun /\ JobsRun /\ FeedRuns

Spec == Init /\ [][Next]_vars /\ Fairness
-----------------------------------------------------------------------------
\* Every service keeps its variables within their types.
ServicesTypeOK ==
  /\ SessionsTypeOK /\ NotificationsTypeOK /\ PagesTypeOK /\ StaffTypeOK
  /\ ReportJobsTypeOK /\ HousekeepingTypeOK /\ ReplayTypeOK /\ ZoneTimesTypeOK
  /\ DayReportsTypeOK /\ LiveFeedTypeOK /\ TrailTypeOK
=============================================================================
