--------------------------- MODULE ServiceProofs ---------------------------
(***************************************************************************)
(* The services side by side (MCServices).  Each of them runs as it does   *)
(* alone, so what was proved of each holds of the whole: every invariant   *)
(* the run checks, for every value of the constants.  The types that the   *)
(* other proof modules had no need of are proved here.                     *)
(***************************************************************************)
EXTENDS MCServices, AccountProofs, JobProofs, ViewProofs
-----------------------------------------------------------------------------
(* Side by side                                                            *)

\* The housekeeping of a behaviour begins with any old rows; the simplification with its first segment
\* or, where another service runs, with nothing left to do.
HousekeepingStarts == \E f \in [Old -> SUBSET Marks] : HousekeepingStart(f)
TrailStarts == TrailInit \/ (stack = {} /\ keep = Track /\ mock = {} /\ dist = [p \in Inner |-> 0])

\* What each service does alone.
Alone ==
  /\ SessionsSpec /\ NotificationsSpec /\ PagesSpec /\ StaffSpec /\ ReportJobsSpec
  /\ HousekeepingStarts /\ [][HousekeepingNext]_housekeepingVars
  /\ ReplaySpec /\ ZoneTimesSpec /\ DayReportsSpec /\ LiveFeedSpec
  /\ TrailStarts /\ [][TrailNext]_trailVars
  /\ DayLogsSpec

\* A step of one service leaves the others as they are.
LEMMA OneServiceSteps ==
  [Next]_vars =>
    /\ [SessionsNext]_sessionVars /\ [NotificationsNext]_notificationVars /\ [PagesNext]_pageVars
    /\ [StaffNext]_staffVars /\ [ReportJobsNext]_reportVars
    /\ [HousekeepingNext]_housekeepingVars /\ [ReplayNext]_replayVars
    /\ [ZoneTimesNext]_zoneVars /\ [DayReportsNext]_tableVars /\ [LiveFeedNext]_feedVars
    /\ [TrailNext]_trailVars /\ [DayLogsNext]_dayLog
BY DEF Next, vars, upToReports, upToPages, upToReplay, fromHousekeeping, fromZones, fromFeed,
  HousekeepingNext

\* The services side by side do what each of them does alone.
LEMMA EachRunsAlone == Spec => Alone
<1>1. Init => /\ SessionsInit /\ NotificationsInit /\ PagesInit /\ StaffInit /\ ReportJobsInit
              /\ HousekeepingStarts /\ ReplayInit /\ ZoneTimesInit /\ DayReportsInit
              /\ LiveFeedInit /\ TrailStarts /\ DayLogsInit
  <2>1. [r \in Old |-> {}] \in [Old -> SUBSET Marks]
    OBVIOUS
  <2> QED BY <2>1 DEF Init, HousekeepingInit, HousekeepingStarts, TrailStarts
<1> QED BY <1>1, OneServiceSteps, PTL DEF Spec, Alone, SessionsSpec, NotificationsSpec, PagesSpec,
      StaffSpec, ReportJobsSpec, ReplaySpec, ZoneTimesSpec, DayReportsSpec, LiveFeedSpec,
      DayLogsSpec
-----------------------------------------------------------------------------
(* Types: notifications.  Only a reminder is claimed.                      *)

OnlyRemindersAreClaimed == \A w \in Workers : at[w] = "claim" => kind[w] \in Reminders
NotificationTypes == NotificationsTypeOK /\ OnlyRemindersAreClaimed

\* An announcement goes to users, and a reminder too.
LEMMA UsersAreTold ==
  /\ \A S \in Audiences : S \subseteq Users
  /\ NotificationsTypeOK => \A k : Population(k) \subseteq Users
<1>1. \A u \in Users : SupervisorFor(u) \subseteq Users
  <2> SUFFICES ASSUME NEW u \in Users PROVE SupervisorFor(u) \subseteq Users
    OBVIOUS
  <2>1. SupervisorOf[TeamOf[u]] \in Users \cup {NoUser}
    BY NotificationsAssumption
  <2> QED BY <2>1 DEF SupervisorFor
<1>2. \A S \in Audiences : S \subseteq Users
  BY <1>1 DEF Audiences
<1> QED BY <1>2 DEF NotificationsTypeOK, Population

\* A step of a job keeps the types.
LEMMA JobTypes ==
  ASSUME NotificationTypes, NEW w \in Workers,
         Work(w) \/ ClaimFailsOpen(w) \/ Cut(w) \/ (\E k \in Reminders : Fire(w, k))
           \/ (\E S \in Audiences : SendBulk(w, S))
  PROVE  NotificationTypes'
<1> USE DEF NotificationTypes, OnlyRemindersAreClaimed, NotificationsTypeOK, Kinds, Goes, JobStates,
  registrations
<1>1. CASE Claim(w) \/ ClaimFailsOpen(w)
  BY <1>1 DEF Claim, ClaimFailsOpen, Mishap, world
<1>2. CASE Query(w)
  BY <1>2, UsersAreTold DEF Query, world
<1>3. CASE Commit(w)
  <2>1. rows' \in [Kinds -> [Users -> Nat]]
    BY <1>3 DEF Commit
  <2>2. owner' \in [Tokens -> Users \cup {NoUser}]
    BY <1>3 DEF Commit
  <2>3. lookup' \in [Registrars -> {"none", "own", "other", "lost"}]
    BY <1>3 DEF Commit, LostTo
  <2> QED BY <1>3, <2>1, <2>2, <2>3 DEF Commit, EndJob, world
<1>4. ASSUME NEW u \in Users, SendFcm(w, u) PROVE NotificationTypes'
  BY <1>4 DEF SendFcm, TokensFor, world
<1>5. ASSUME NEW t \in Tokens, NEW answered \in BOOLEAN, Push(w, t, answered) PROVE NotificationTypes'
  <2>1. dead'[w] = dead[w] \/ dead'[w] = dead[w] \cup {t}
    BY <1>5 DEF Push
  <2>2. dead' = [dead EXCEPT ![w] = dead'[w]]
    BY <1>5 DEF Push
  <2>3. dead' \in [Workers -> SUBSET Tokens]
    BY <2>1, <2>2
  <2> QED BY <1>5, <2>3 DEF Push, world
<1>6. CASE Cut(w)
  BY <1>6 DEF Cut, Mishap, EndJob, world
<1>7. ASSUME NEW k \in Reminders, Fire(w, k) PROVE NotificationTypes'
  BY <1>7 DEF Fire, MayFire, Launches, world
<1>8. ASSUME NEW S \in Audiences, SendBulk(w, S) PROVE NotificationTypes'
  BY <1>8, UsersAreTold DEF SendBulk, MayFire, Launches, TokensFor, world
<1> QED BY <1>1, <1>2, <1>3, <1>4, <1>5, <1>6, <1>7, <1>8 DEF Work

\* A step of a registration keeps the types.
LEMMA VisitTypes ==
  ASSUME NotificationTypes, NEW g \in Registrars,
         RegisterDevice(g) \/ CutDevice(g) \/ \E u \in Users, t \in Tokens : FindDevice(g, u, t)
  PROVE  NotificationTypes'
<1> USE DEF NotificationTypes, OnlyRemindersAreClaimed, NotificationsTypeOK, world, jobs
<1>1. EndVisit(g) => /\ visit' \in [Registrars -> {"idle", "found", "bound", "reap"}]
                     /\ caller' \in [Registrars -> Users \cup {NoUser}]
                     /\ phone' \in [Registrars -> Tokens \cup {NoUser}]
                     /\ others' \in [Registrars -> SUBSET Tokens]
                     /\ reaped' \in [Registrars -> SUBSET Tokens]
  BY DEF EndVisit
<1>2. CASE BindDevice(g)
  BY <1>1, <1>2 DEF BindDevice
<1>3. CASE SelectOthers(g)
  BY <1>3 DEF SelectOthers
<1>4. CASE CommitDevice(g)
  <2>1. LostTo(reaped[g]) \in [Registrars -> {"none", "own", "other", "lost"}]
    BY DEF LostTo
  <2>2. owner' \in [Tokens -> Users \cup {NoUser}]
    BY <1>4 DEF CommitDevice
  <2>3. lookup' \in [Registrars -> {"none", "own", "other", "lost"}]
    BY <1>4, <2>1 DEF CommitDevice
  <2> QED BY <1>1, <1>4, <2>2, <2>3 DEF CommitDevice
<1>5. ASSUME NEW t \in Tokens, ReapOther(g, t) PROVE NotificationTypes'
  BY <1>5 DEF ReapOther
<1>6. ASSUME RollBackDevice(g), mishaps' \in Nat PROVE NotificationTypes'
  BY <1>1, <1>6 DEF RollBackDevice
<1>7. CASE CutDevice(g)
  <2>1. RollBackDevice(g) /\ mishaps' \in Nat
    BY <1>7 DEF CutDevice, Mishap
  <2> QED BY <1>6, <2>1
<1>8. ASSUME NEW u \in Users, NEW t \in Tokens, FindDevice(g, u, t) PROVE NotificationTypes'
  <2>1. (CASE owner[t] = NoUser -> "none" [] owner[t] = u -> "own" [] OTHER -> "other")
          \in {"none", "own", "other"}
    OBVIOUS
  <2>2. lookup' \in [Registrars -> {"none", "own", "other", "lost"}]
    BY <1>8, <2>1 DEF FindDevice
  <2>3. /\ visit' \in [Registrars -> {"idle", "found", "bound", "reap"}] /\ launched' \in Nat
        /\ caller' \in [Registrars -> Users \cup {NoUser}]
        /\ phone' \in [Registrars -> Tokens \cup {NoUser}]
    BY <1>8 DEF FindDevice, Launches
  <2> QED BY <1>8, <2>2, <2>3 DEF FindDevice
<1> QED BY <1>2, <1>3, <1>4, <1>5, <1>6, <1>7, <1>8 DEF RegisterDevice

\* Every step of the notifications does.
LEMMA NotificationStepTypes ==
  ASSUME NotificationTypes, [NotificationsNext]_notificationVars PROVE NotificationTypes'
<1>1. ASSUME NEW w \in Workers,
             Work(w) \/ ClaimFailsOpen(w) \/ Cut(w) \/ (\E k \in Reminders : Fire(w, k))
               \/ (\E S \in Audiences : SendBulk(w, S))
      PROVE  NotificationTypes'
  BY <1>1, JobTypes
<1> USE DEF NotificationTypes, OnlyRemindersAreClaimed, NotificationsTypeOK, world, jobs, registrations
<1>2. ASSUME NEW k \in Reminders, ExpireLock(k) PROVE NotificationTypes'
  BY <1>2 DEF ExpireLock, Mishap
<1>3. ASSUME NEW u \in Users, Tap(u) PROVE NotificationTypes'
  BY <1>3 DEF Tap, Change
<1>4. ASSUME NEW g \in Registrars,
             RegisterDevice(g) \/ CutDevice(g) \/ \E u \in Users, t \in Tokens : FindDevice(g, u, t)
      PROVE  NotificationTypes'
  BY <1>4, VisitTypes
<1>5. ASSUME NEW t \in Tokens, Uninstall(t) PROVE NotificationTypes'
  BY <1>5 DEF Uninstall, Change
<1>6. CASE UNCHANGED notificationVars
  BY <1>6 DEF notificationVars
<1> QED BY <1>1, <1>2, <1>3, <1>4, <1>5, <1>6 DEF NotificationsNext

\* For any users, handsets and workers, rows, locks, bindings and jobs keep their types.
LEMMA NotificationsAreTyped == NotificationsSpec => []NotificationTypes
<1>1. NotificationsInit => NotificationTypes
  BY NotificationsAssumption DEF NotificationsInit, NotificationTypes, OnlyRemindersAreClaimed,
    NotificationsTypeOK, Kinds, JobStates
<1> QED BY <1>1, NotificationStepTypes, PTL DEF NotificationsSpec
-----------------------------------------------------------------------------
(* Types: housekeeping                                                     *)

\* A step of the archive keeps the types.
LEMMA ArchiveStepTypes == ASSUME HousekeepingTypeOK, ArchiveNext PROVE HousekeepingTypeOK'
<1> USE DEF HousekeepingTypeOK, Moves
<1>0. UNCHANGED <<keyVars, limitVars>>
  BY DEF ArchiveNext, RunCleanup, SelectOld, InsertArchive, DeleteOld, CommitArchive, FailArchive,
    AddOldSession, AddOldRow, CommitSession
<1>1. /\ today' \in 0 .. MaxDay /\ keyDay' \in 0 .. MaxDay /\ swept' \in -1 .. MaxDay
      /\ unswept' \in 0 .. MaxErrors
      /\ keyTtl' \in {"absent", "none", "midnight", "default"} /\ hits' \in 0 .. MaxHits + 1
  BY <1>0 DEF keyVars, limitVars
<1>2. /\ writer' \in BOOLEAN /\ sweep' \in BOOLEAN
      /\ hitTtl' \in BOOLEAN /\ hitter' \in BOOLEAN /\ stuck' \in BOOLEAN
  BY <1>0, Zenon DEF keyVars, limitVars
<1> DEFINE Typed ==
      /\ present \subseteq Old /\ archived \subseteq Old
      /\ sessionsOf \in [Old -> SUBSET Marks] /\ snapshot \in [Old -> SUBSET Marks]
      /\ known \in [Old -> SUBSET Marks] /\ late \subseteq Old \X Marks
      /\ place \in [Cleaners -> {"idle", "insert", "delete", "commit"}]
      /\ picked \in [Cleaners -> SUBSET Old] /\ doomed \in [Cleaners -> SUBSET Old]
      /\ copied \in [Cleaners -> [Old -> SUBSET Marks]] /\ errors \in Nat
<1>3. Typed
  OBVIOUS
<1> SUFFICES Typed'
  BY <1>1, <1>2
<1>4. ASSUME NEW w \in Cleaners, SelectOld(w) \/ InsertArchive(w) \/ DeleteOld(w) PROVE Typed'
  BY <1>3, <1>4 DEF SelectOld, InsertArchive, DeleteOld, OldNow
<1>5. ASSUME NEW w \in Cleaners, CommitArchive(w) PROVE Typed'
  BY <1>3, <1>5 DEF CommitArchive
<1>6. ASSUME NEW w \in Cleaners, FailArchive(w) PROVE Typed'
  BY <1>3, <1>6 DEF FailArchive, Error, Rollback
<1>7. ASSUME NEW r \in Old, NEW s \in Marks, AddOldSession(r, s) \/ AddOldRow(r, s) PROVE Typed'
  <2>1. /\ present' = present \/ present' = present \cup {r}
        /\ CommitSession(r, s)
    BY <1>7 DEF AddOldSession, AddOldRow
  <2> QED BY <1>3, <2>1 DEF CommitSession
<1> HIDE DEF Typed
<1> QED BY <1>4, <1>5, <1>6, <1>7 DEF ArchiveNext, RunCleanup

\* So does every other step of housekeeping.
LEMMA HousekeepingStepTypes ==
  ASSUME HousekeepingTypeOK, [HousekeepingNext]_housekeepingVars PROVE HousekeepingTypeOK'
<1> DEFINE Keys == /\ today \in 0 .. MaxDay /\ keyDay \in 0 .. MaxDay /\ swept \in -1 .. MaxDay
                   /\ unswept \in 0 .. MaxErrors
                   /\ keyTtl \in {"absent", "none", "midnight", "default"}
           Marked == writer \in BOOLEAN /\ sweep \in BOOLEAN
           Hits == hits \in 0 .. MaxHits + 1
           Flags == hitTtl \in BOOLEAN /\ hitter \in BOOLEAN /\ stuck \in BOOLEAN
           ArchiveStays == UNCHANGED archiveVars /\ errors' \in Nat
<1>1. Keys /\ Marked /\ Hits /\ Flags /\ errors \in Nat
  BY DEF HousekeepingTypeOK
<1>2. Keys' /\ Marked' /\ Hits' /\ Flags' /\ ArchiveStays => HousekeepingTypeOK'
  BY DEF HousekeepingTypeOK, archiveVars
<1> HIDE DEF Marked, Flags
<1>3. CASE KeysNext
  <2>1. ArchiveStays
    BY <1>1, <1>3 DEF KeysNext, WriteKey, ExpireKeyAt, CutWriter, Midnight, Sweeps, SweepLooks,
      SweepExpires, MissSweep, CutSweep, Error, archiveVars
  <2>2. Keys'
    BY <1>1, <1>3, HousekeepingAssumption DEF KeysNext, WriteKey, ExpireKeyAt, CutWriter, Midnight,
      Sweeps, SweepLooks, SweepExpires, MissSweep, CutSweep
  <2>3. Marked'
    BY <1>1, <1>3, Zenon DEF Marked, KeysNext, WriteKey, ExpireKeyAt, CutWriter, Midnight, Sweeps,
      SweepLooks, SweepExpires, NeedsTtl, MissSweep, CutSweep
  <2>4. UNCHANGED limitVars
    BY <1>3 DEF KeysNext, WriteKey, ExpireKeyAt, CutWriter, Midnight, Sweeps, SweepLooks,
      SweepExpires, MissSweep, CutSweep
  <2>5. Hits' /\ Flags'
    BY <1>1, <2>4, Zenon DEF limitVars, Flags
  <2> QED BY <1>2, <2>1, <2>2, <2>3, <2>5
<1>4. CASE LimitsNext
  <2>1. ArchiveStays
    BY <1>1, <1>4 DEF LimitsNext, Hit, ExpireHits, CutHitter, WindowEnds, Error, archiveVars
  <2>2. Hits'
    BY <1>1, <1>4, HousekeepingAssumption DEF LimitsNext, Hit, ExpireHits, CutHitter, WindowEnds
  <2>3. Flags'
    <3>1. (hits > 0) \in BOOLEAN
      OBVIOUS
    <3> QED BY <1>1, <1>4, <3>1, Zenon DEF Flags, LimitsNext, Hit, ExpireHits, CutHitter, WindowEnds,
           OpensWindow
  <2>4. UNCHANGED keyVars
    BY <1>4 DEF LimitsNext, Hit, ExpireHits, CutHitter, WindowEnds
  <2>5. Keys' /\ Marked'
    BY <1>1, <2>4, Zenon DEF keyVars, Marked
  <2> QED BY <1>2, <2>1, <2>2, <2>3, <2>5
<1>5. CASE UNCHANGED housekeepingVars
  <2>1. UNCHANGED <<keyVars, limitVars>> /\ ArchiveStays
    BY <1>1, <1>5 DEF housekeepingVars
  <2>2. Keys' /\ Marked' /\ Hits' /\ Flags'
    BY <1>1, <2>1, Zenon DEF keyVars, limitVars, Marked, Flags
  <2> QED BY <1>2, <2>1, <2>2
<1> QED BY <1>3, <1>4, <1>5, ArchiveStepTypes DEF HousekeepingNext

\* What housekeeping keeps, whatever rows it begins with.
HousekeepingInv == HousekeepingTypeOK /\ ArchiveInv /\ KeysInv /\ LimitsInv

\* It holds in every state.
LEMMA HousekeepingHolds ==
  HousekeepingStarts /\ [][HousekeepingNext]_housekeepingVars => []HousekeepingInv
<1>1. HousekeepingStarts => HousekeepingInv
  <2> SUFFICES ASSUME NEW f \in [Old -> SUBSET Marks], HousekeepingStart(f) PROVE HousekeepingInv
    BY DEF HousekeepingStarts
  <2>1. HousekeepingTypeOK
    <3>1. /\ writer \in BOOLEAN /\ sweep \in BOOLEAN
          /\ hitTtl \in BOOLEAN /\ hitter \in BOOLEAN /\ stuck \in BOOLEAN
      BY Zenon DEF HousekeepingStart
    <3>2. /\ today \in 0 .. MaxDay /\ keyDay \in 0 .. MaxDay /\ swept \in -1 .. MaxDay
          /\ unswept \in 0 .. MaxErrors /\ hits \in 0 .. MaxHits + 1 /\ errors \in Nat
      BY HousekeepingAssumption DEF HousekeepingStart
    <3>3. copied \in [Cleaners -> [Old -> SUBSET Marks]]
      BY DEF HousekeepingStart
    <3> QED BY <3>1, <3>2, <3>3 DEF HousekeepingStart, HousekeepingTypeOK
  <2> QED BY <2>1, ArchiveBegins, KeysBegin DEF HousekeepingInv
<1>2. HousekeepingInv /\ [HousekeepingNext]_housekeepingVars => HousekeepingInv'
  BY HousekeepingStepTypes, ArchiveKeeps, KeysKeep DEF HousekeepingInv
<1> QED BY <1>1, <1>2, PTL
-----------------------------------------------------------------------------
(* Types: the live map                                                     *)

FeedNumbers ==
  /\ stored \in 0 .. MaxFixes /\ hash \in 0 .. MaxFixes /\ seen \in 0 .. MaxFixes
  /\ sent \in 0 .. MaxFixes /\ cuts \in 0 .. MaxCuts
  /\ stepOf \in [Fixes -> Working \cup {"new", "done"}]
  /\ feed \in {"closed", "read", "query", "wait"}
StraysAreFixes == strays \subseteq Fixes
FeedFlags ==
  old \in BOOLEAN /\ moving \in BOOLEAN /\ ttl \in BOOLEAN /\ message \in BOOLEAN
AbsentIsBare == hash = 0 => ~ttl /\ ~old

\* The parts make the whole.
LEMMA FeedParts == LiveFeedTypeOK <=> FeedNumbers /\ StraysAreFixes /\ FeedFlags /\ AbsentIsBare
BY DEF LiveFeedTypeOK, FeedNumbers, StraysAreFixes, FeedFlags, AbsentIsBare

\* Only fixes stray.
LEMMA FeedStepStrays == ASSUME StraysAreFixes, [LiveFeedNext]_feedVars PROVE StraysAreFixes'
<1> USE DEF StraysAreFixes
<1>1. ASSUME NEW f \in Fixes, ReportFix(f) \/ CommitFix(f) \/ HsetFix(f) PROVE StraysAreFixes'
  BY <1>1 DEF ReportFix, CommitFix, HsetFix
<1>2. ASSUME NEW f \in Fixes, ExpireFix(f) \/ PublishFix(f) \/ CutFix(f) PROVE StraysAreFixes'
  BY <1>2 DEF ExpireFix, PublishFix, CutFix
<1>3. CASE FixGrowsOld \/ HashExpires \/ Connect \/ LoseMessage \/ Disconnect \/ AdminLive
  BY <1>3 DEF FixGrowsOld, HashExpires, Connect, LoseMessage, Disconnect, AdminLive, ReadHashes,
    SendSnapshot, WaitMessage
<1>4. CASE UNCHANGED feedVars
  BY <1>4 DEF feedVars
<1> QED BY <1>1, <1>2, <1>3, <1>4 DEF LiveFeedNext

\* Every step keeps the numbers in their ranges,
LEMMA FeedStepNumbers == ASSUME FeedNumbers, [LiveFeedNext]_feedVars PROVE FeedNumbers'
<1> USE LiveFeedAssumption DEF FeedNumbers, Fixes, Working, Step
<1>1. ASSUME NEW f \in Fixes, ReportFix(f) \/ CommitFix(f) \/ HsetFix(f) PROVE FeedNumbers'
  BY <1>1 DEF ReportFix, CommitFix, HsetFix
<1>2. ASSUME NEW f \in Fixes, ExpireFix(f) \/ PublishFix(f) \/ CutFix(f) PROVE FeedNumbers'
  BY <1>2 DEF ExpireFix, PublishFix, CutFix, CutShort
<1>3. CASE FixGrowsOld \/ HashExpires \/ Connect \/ LoseMessage \/ Disconnect
  BY <1>3 DEF FixGrowsOld, HashExpires, Connect, LoseMessage, Disconnect, CutShort
<1>4. CASE AdminLive
  BY <1>4 DEF AdminLive, ReadHashes, SendSnapshot, WaitMessage
<1>5. CASE UNCHANGED feedVars
  BY <1>5 DEF feedVars
<1> QED BY <1>1, <1>2, <1>3, <1>4, <1>5 DEF LiveFeedNext

\* and the flags flags.
LEMMA FeedStepFlags ==
  ASSUME FeedFlags, AbsentIsBare, [LiveFeedNext]_feedVars PROVE FeedFlags' /\ AbsentIsBare'
<1> USE DEF FeedFlags, AbsentIsBare
<1>0. (hash # 0) \in BOOLEAN /\ \A f \in Fixes : f # 0
  BY DEF Fixes
<1>1. ASSUME NEW f \in Fixes, ReportFix(f) PROVE FeedFlags' /\ AbsentIsBare'
  BY <1>1, Zenon DEF ReportFix
<1>2. ASSUME NEW f \in Fixes, CommitFix(f) PROVE FeedFlags' /\ AbsentIsBare'
  BY <1>2, Zenon DEF CommitFix
<1>3. ASSUME NEW f \in Fixes, HsetFix(f) PROVE FeedFlags' /\ AbsentIsBare'
  BY <1>0, <1>3, Zenon DEF HsetFix
<1>4. ASSUME NEW f \in Fixes, ExpireFix(f) PROVE FeedFlags' /\ AbsentIsBare'
  BY <1>0, <1>4, Zenon DEF ExpireFix
<1>5. ASSUME NEW f \in Fixes, PublishFix(f) PROVE FeedFlags' /\ AbsentIsBare'
  <2>1. message' \in BOOLEAN
    BY <1>5, Zenon DEF PublishFix
  <2> QED BY <1>5, <2>1, Zenon DEF PublishFix
<1>6. ASSUME NEW f \in Fixes, CutFix(f) PROVE FeedFlags' /\ AbsentIsBare'
  BY <1>6, Zenon DEF CutFix
<1>7. CASE FixGrowsOld \/ HashExpires
  BY <1>7, Zenon DEF FixGrowsOld, HashExpires
<1>8. CASE Connect \/ LoseMessage \/ Disconnect \/ AdminLive
  <2>1. /\ message' = message \/ message' = FALSE
        /\ hash' = hash /\ old' = old /\ moving' = moving /\ ttl' = ttl
    <3>1. CASE Connect \/ LoseMessage \/ Disconnect
      BY <3>1, Zenon DEF Connect, LoseMessage, Disconnect
    <3>2. CASE AdminLive
      BY <3>2, Zenon DEF AdminLive, ReadHashes, SendSnapshot, WaitMessage
    <3> QED BY <1>8, <3>1, <3>2
  <2> QED BY <2>1, Zenon
<1>9. CASE UNCHANGED feedVars
  <2>1. /\ hash' = hash /\ old' = old /\ moving' = moving /\ ttl' = ttl
        /\ message' = message
    BY <1>9 DEF feedVars
  <2> QED BY <2>1, Zenon
<1> QED BY <1>1, <1>2, <1>3, <1>4, <1>5, <1>6, <1>7, <1>8, <1>9 DEF LiveFeedNext

\* For any fixes and cuts, the hash, the loop and the handlers keep their types.
LEMMA FeedIsTyped == LiveFeedSpec => []LiveFeedTypeOK
<1>1. LiveFeedInit => FeedNumbers /\ StraysAreFixes /\ FeedFlags /\ AbsentIsBare
  <2> SUFFICES ASSUME LiveFeedInit PROVE FeedNumbers /\ StraysAreFixes /\ FeedFlags /\ AbsentIsBare
    OBVIOUS
  <2>1. FeedNumbers
    BY LiveFeedAssumption DEF LiveFeedInit, FeedNumbers
  <2>2. FeedFlags /\ AbsentIsBare
    BY Zenon DEF LiveFeedInit, FeedFlags, AbsentIsBare
  <2>3. StraysAreFixes
    BY DEF LiveFeedInit, StraysAreFixes
  <2> QED BY <2>1, <2>2, <2>3
<1>2. /\ FeedNumbers /\ StraysAreFixes /\ FeedFlags /\ AbsentIsBare
      /\ [LiveFeedNext]_feedVars
      => FeedNumbers' /\ StraysAreFixes' /\ FeedFlags' /\ AbsentIsBare'
  BY FeedStepNumbers, FeedStepStrays, FeedStepFlags
<1> QED BY <1>1, <1>2, FeedParts, PTL DEF LiveFeedSpec
-----------------------------------------------------------------------------
(* Types: the time in a zone, and the table of days                        *)

\* No dwell is longer than the day.
ToldIsShort == \A i \in DOMAIN told : told[i] \in 0 .. MaxInstant

\* An event is one.
LEMMA EventsAreEvents == ASSUME EventsOK PROVE \A i \in DOMAIN events : events[i] \in Events
<1>1. events \in Seq(Events) /\ DOMAIN events = 1 .. Len(events)
  BY DEF EventsOK
<1> QED BY <1>1, ElementOfSeq

\* Since the latest ENTER before it, an exit tells at most the time up to it.
LEMMA DwellIsShort ==
  ASSUME EventsOK, NEW ts \in 1 .. MaxInstant PROVE DwellMinutes(ts) \in 0 .. MaxInstant
<1>1. \A i \in DOMAIN events : events[i].ts \in 1 .. MaxInstant
  BY EventsAreEvents DEF Events
<1>2. ts \in Nat /\ LastEnter(ts) \in SUBSET (1 .. ts) /\ \A x \in LastEnter(ts) : x < ts
  BY <1>1, ZoneTimesAssumption DEF LastEnter
<1> DEFINE x == Max(LastEnter(ts))
<1>3. LastEnter(ts) # {} => x \in 1 .. ts
  BY <1>2, ExtremesExist
<1> HIDE DEF x
<1>4. LastEnter(ts) # {} => ts - x \in 0 .. MaxInstant
  BY <1>2, <1>3, ZoneTimesAssumption
<1>5. 0 \in 0 .. MaxInstant
  BY ZoneTimesAssumption
<1> QED BY <1>4, <1>5 DEF DwellMinutes, x

\* For any instants, events and what is told at them keep their types.
LEMMA ZonesAreTyped == ZoneTimesSpec => []ZoneTimesTypeOK
<1>1. ZoneTimesInit => ZoneInv /\ ToldIsShort
  BY DEF ZoneTimesInit, ZoneInv, EventsOK, ToldOK, ToldIsShort
<1>2. ZoneInv /\ ToldIsShort /\ [ZoneTimesNext]_zoneVars => ZoneInv' /\ ToldIsShort'
  <2> SUFFICES ASSUME ZoneInv, ToldIsShort, [ZoneTimesNext]_zoneVars
               PROVE  ZoneInv' /\ ToldIsShort'
    OBVIOUS
  <2>1. CASE UNCHANGED zoneVars
    BY <2>1 DEF zoneVars, ZoneInv, EventsOK, ToldOK, Regular, ToldIsShort
  <2>2. ASSUME NEW type \in {"ENTER", "EXIT"}, NEW ts \in 1 .. MaxInstant, InsertEvent(type, ts)
        PROVE  ZoneInv' /\ ToldIsShort'
    <3> DEFINE d == IF type = "EXIT" THEN DwellMinutes(ts) ELSE 0
    <3>1. d \in 0 .. MaxInstant
      BY DwellIsShort, ZoneTimesAssumption DEF ZoneInv
    <3>2. told \in Seq(Nat) /\ told' = Append(told, d)
      BY <2>2 DEF ZoneInv, EventsOK, InsertEvent
    <3> HIDE DEF d
    <3>3. ToldIsShort'
      BY <3>1, <3>2 DEF ToldIsShort
    <3> QED BY <2>2, <3>3, InsertKeeps
  <2> QED BY <2>1, <2>2 DEF ZoneTimesNext
<1>3. ZoneInv /\ ToldIsShort => ZoneTimesTypeOK
  BY EventsAreEvents DEF ZoneInv, EventsOK, Events, ToldIsShort, ZoneTimesTypeOK
<1> QED BY <1>1, <1>2, <1>3, PTL DEF ZoneTimesSpec

\* A report is about people, and an actor of a role asked for it.
AskedOK == asked.role \in Roles /\ asked.about \subseteq People

\* Whoever asks, and for whatever, the report is about people.
LEMMA AboutPeople ==
  ASSUME NEW actor \in People, NEW role \in Roles, NEW type, NEW ofTeam,
         NEW ofUser \in People \cup {NoOne}
  PROVE  Authorize(actor, role, type, ofTeam, ofUser) \subseteq People
<1>1. \A t : TeamScope(t) \subseteq People
  BY DEF TeamScope
<1>2. AuthorizeTeam(actor, role, ofTeam) \subseteq People
  BY <1>1 DEF AuthorizeTeam
<1>3. SupervisorRange(actor, ofTeam, ofUser) \subseteq People
  BY <1>1 DEF SupervisorRange
<1> QED BY <1>2, <1>3 DEF Authorize, Roles

\* For any people, teams and rows, the table and what was asked keep their types.
LEMMA TablesAreTyped == DayReportsSpec => []DayReportsTypeOK
<1>1. DayReportsInit => TableTyped /\ AskedOK
  BY FS_EmptySet DEF DayReportsInit, TableTyped, AskedOK, NoReport, Roles
<1>2. AskedOK /\ [DayReportsNext]_tableVars => AskedOK'
  <2> SUFFICES ASSUME AskedOK, [DayReportsNext]_tableVars PROVE AskedOK'
    OBVIOUS
  <2>1. ASSUME NEW actor \in People, NEW role \in Roles, NEW type \in ReportTypes,
               NEW ofTeam \in TeamIds \cup {NoOne}, NEW ofUser \in People \cup {NoOne},
               GenerateReport(actor, role, type, ofTeam, ofUser)
        PROVE  AskedOK'
    BY <2>1, AboutPeople DEF GenerateReport, AskedOK
  <2>2. UNCHANGED asked => AskedOK'
    BY DEF AskedOK
  <2> QED BY <2>1, <2>2 DEF DayReportsNext, OpenDay, OverrideStatus, tableVars
<1>3. TableTyped /\ AskedOK => DayReportsTypeOK
  BY DEF TableTyped, AskedOK, DayReportsTypeOK
<1> QED BY <1>1, <1>2, <1>3, TableStaysTyped, PTL DEF DayReportsSpec
-----------------------------------------------------------------------------
(* Worked time is never negative                                           *)

\* The key by which sorted() orders sessions: the instant, and among equal instants
\* the position.
SortKeys(l) == [i \in 1 .. Len(l) |-> [ts |-> l[i].ts * (Len(l) + 1) + i]]

\* Keys of that form order as pairs do.
LEMMA KeysOrder ==
  ASSUME NEW n \in Nat, NEW a \in Nat, NEW b \in Nat, NEW i \in 1 .. n, NEW j \in 1 .. n
  PROVE  (a < b \/ (a = b /\ i <= j)) <=> a * (n + 1) + i <= b * (n + 1) + j
<1> DEFINE m == n + 1
<1>1. m \in Nat /\ i <= n /\ j <= n /\ i > 0 /\ j > 0 /\ m = n + 1
  OBVIOUS
<1> HIDE DEF m
<1>2. ASSUME NEW x \in Nat, NEW y \in Nat, x < y PROVE x * m + m <= y * m
  <2>1. \A d \in Nat : (x + 1 + d) * m = x * m + m + d * m /\ d * m >= 0
    BY <1>1
  <2>2. y - x - 1 \in Nat /\ y = x + 1 + (y - x - 1)
    BY <1>2
  <2> QED BY <1>1, <2>1, <2>2
<1>3. a * m \in Nat /\ b * m \in Nat
  BY <1>1
<1>4. CASE a < b
  <2>1. a * m + m <= b * m
    BY <1>2, <1>4
  <2>2. a * m + i <= b * m + j
    BY <1>1, <1>3, <2>1
  <2> QED BY <1>4, <2>2 DEF m
<1>5. CASE b < a
  <2>1. b * m + m <= a * m
    BY <1>2, <1>5
  <2>2. ~(a * m + i <= b * m + j)
    BY <1>1, <1>3, <2>1
  <2> QED BY <1>5, <2>2 DEF m
<1>6. CASE a = b
  <2>1. a * m + i <= b * m + j <=> i <= j
    BY <1>1, <1>3, <1>6
  <2> QED BY <1>6, <2>1 DEF m
<1> QED BY <1>4, <1>5, <1>6

\* sorted() gives back the sessions of the log, the later ones behind.
LEMMA SortedByTime ==
  ASSUME NEW l \in Seq(Sess)
  PROVE  /\ Len(l) \in Nat /\ DOMAIN InOrder(l) = 1 .. Len(l)
         /\ \A k \in 1 .. Len(l) : InOrder(l)[k] \in Sess
         /\ \A k \in 2 .. Len(l) : InOrder(l)[k - 1].ts <= InOrder(l)[k].ts
<1> DEFINE n == Len(l)
           s == SortKeys(l)
<1>1. n \in Nat /\ DOMAIN l = 1 .. n /\ \A i \in 1 .. n : l[i] \in Sess
  BY ElementOfSeq
<1>2. \A i \in 1 .. n : l[i].ts \in Nat
  BY <1>1 DEF Sess
<1>3. DOMAIN s = 1 .. n /\ \A i \in 1 .. n : s[i].ts = l[i].ts * (n + 1) + i
  BY DEF SortKeys
<1> HIDE DEF n, s
<1>4. \A i, j \in 1 .. n :
        (l[i].ts < l[j].ts \/ (l[i].ts = l[j].ts /\ i <= j)) <=> s[i].ts <= s[j].ts
  <2> SUFFICES ASSUME NEW i \in 1 .. n, NEW j \in 1 .. n
               PROVE  (l[i].ts < l[j].ts \/ (l[i].ts = l[j].ts /\ i <= j)) <=> s[i].ts <= s[j].ts
    OBVIOUS
  <2>1. l[i].ts \in Nat /\ l[j].ts \in Nat
    BY <1>2
  <2>2. (l[i].ts < l[j].ts \/ (l[i].ts = l[j].ts /\ i <= j))
          <=> l[i].ts * (n + 1) + i <= l[j].ts * (n + 1) + j
    BY <1>1, <2>1, KeysOrder
  <2> QED BY <1>3, <2>2
<1>5. \A i \in 1 .. n : s[i].ts \in Int
  BY <1>1, <1>2, <1>3
<1>6. \A i, j \in 1 .. n : i # j => s[i].ts # s[j].ts
  <2> SUFFICES ASSUME NEW i \in 1 .. n, NEW j \in 1 .. n, s[i].ts = s[j].ts PROVE i = j
    OBVIOUS
  <2>1. s[i].ts <= s[j].ts /\ s[j].ts <= s[i].ts
    BY <1>5
  <2>2. i <= j /\ j <= i
    BY <1>2, <1>4, <2>1
  <2> QED BY <1>1, <2>2
<1>7. /\ \A k \in 1 .. n : Ranked(s, k) \in 1 .. n
      /\ \A k, m \in 1 .. n : k < m => s[Ranked(s, k)].ts < s[Ranked(s, m)].ts
  BY <1>1, <1>3, <1>5, <1>6, RankOrders
<1>8. \A i \in 1 .. n : Cardinality(UpToIt(l, i)) = Rank(s, i)
  <2> SUFFICES ASSUME NEW i \in 1 .. n PROVE Cardinality(UpToIt(l, i)) = Rank(s, i)
    OBVIOUS
  <2>1. UpToIt(l, i) = {j \in DOMAIN s : s[j].ts <= s[i].ts}
    BY <1>1, <1>3, <1>4 DEF UpToIt
  <2> QED BY <2>1 DEF Rank
<1> DEFINE c(k) == CHOOSE i \in DOMAIN l : Cardinality(UpToIt(l, i)) = k
<1>9. InOrder(l) = [k \in 1 .. n |-> l[c(k)]]
  BY <1>1 DEF InOrder
<1>10. \A k \in 1 .. n : c(k) = Ranked(s, k)
  <2> SUFFICES ASSUME NEW k \in 1 .. n
               PROVE  (CHOOSE i \in DOMAIN l : Cardinality(UpToIt(l, i)) = k) = Ranked(s, k)
    OBVIOUS
  <2>1. \A i : (i \in DOMAIN l /\ Cardinality(UpToIt(l, i)) = k) <=> (i \in DOMAIN s /\ Rank(s, i) = k)
    BY <1>1, <1>3, <1>8
  <2> QED BY <2>1 DEF Ranked
<1> HIDE DEF c
<1>11. \A k \in 1 .. n : InOrder(l)[k] = l[Ranked(s, k)]
  BY <1>9, <1>10
<1>12. \A k \in 1 .. n : InOrder(l)[k] \in Sess
  BY <1>1, <1>7, <1>11
<1>13. ASSUME NEW k \in 2 .. n PROVE InOrder(l)[k - 1].ts <= InOrder(l)[k].ts
  <2>1. k - 1 \in 1 .. n /\ k \in 1 .. n /\ k - 1 < k
    BY <1>1
  <2> DEFINE i == Ranked(s, k - 1)
             j == Ranked(s, k)
  <2>2. i \in 1 .. n /\ j \in 1 .. n /\ s[i].ts < s[j].ts
    BY <1>7, <2>1
  <2>3. InOrder(l)[k - 1] = l[i] /\ InOrder(l)[k] = l[j]
    BY <1>11, <2>1
  <2> HIDE DEF i, j
  <2>4. s[i].ts <= s[j].ts
    BY <1>5, <2>2
  <2>5. l[i].ts <= l[j].ts
    BY <1>2, <1>4, <2>2, <2>4
  <2> QED BY <2>3, <2>5
<1> QED BY <1>1, <1>9, <1>12, <1>13 DEF n

\* However irregular a log is, with equal instants too, its worked time is a natural
\* number: calculate_duration closes what is open at or after it was opened.
THEOREM WorkedTimeIsNatural == ASSUME NEW l \in Seq(Sess) PROVE CalculateDuration(l) \in Nat
<1> DEFINE n == Len(l)
           b == InOrder(l)
           base == [total |-> 0, open |-> 0]
<1>1. /\ n \in Nat /\ DOMAIN b = 1 .. n /\ (\A k \in 1 .. n : b[k] \in Sess)
      /\ \A k \in 2 .. n : b[k - 1].ts <= b[k].ts
  BY SortedByTime
<1>2. CalculateDuration(l) = FoldLeft(Account, base, b).total
  BY DEF CalculateDuration
<1> HIDE DEF n, b, base
<1>3. Accounts!ScansTo(FoldLeft(Account, base, b), base, b, n)
  BY <1>1, LogIsScanned
<1>4. PICK acc : Accounts!Scans(acc, base, b, n) /\ acc[n] = FoldLeft(Account, base, b)
  BY <1>3 DEF Accounts!ScansTo
<1> DEFINE Fine(k) == /\ acc[k].total \in Nat /\ acc[k].open \in Nat
                      /\ acc[k].open <= IF k = 0 THEN 0 ELSE b[k].ts
           P == {k \in 0 .. n : Fine(k)}
<1>5. 0 \in P
  BY <1>1, <1>4 DEF Accounts!Scans, base
<1>6. ASSUME NEW k \in 1 .. n, k - 1 \in P PROVE k \in P
  <2> DEFINE a == acc[k - 1]
             x == b[k]
  <2>1. acc[k] = Account(a, x)
    BY <1>4 DEF Accounts!Scans, AccountAt
  <2>2. x.ts \in Nat
    BY <1>1 DEF Sess
  <2>3. a.total \in Nat /\ a.open \in Nat /\ a.open <= x.ts
    <3>1. Fine(k - 1) /\ k \in Nat
      BY <1>1, <1>6
    <3>2. CASE k = 1
      BY <2>2, <3>1, <3>2
    <3>3. CASE k # 1
      <4>1. k \in 2 .. n /\ k - 1 \in 1 .. n /\ k - 1 # 0
        BY <1>1, <3>3
      <4>2. b[k - 1].ts <= x.ts /\ b[k - 1].ts \in Nat
        BY <1>1, <4>1 DEF Sess
      <4>3. a.total \in Nat /\ a.open \in Nat /\ a.open <= b[k - 1].ts
        BY <3>1, <4>1
      <4> QED BY <2>2, <4>2, <4>3
    <3> QED BY <3>2, <3>3
  <2> HIDE DEF a, x
  <2>4. CASE x.type \in Opening
    <3>1. Account(a, x) = [a EXCEPT !.open = x.ts]
      BY <2>4 DEF Account
    <3>2. acc[k].total \in Nat /\ acc[k].open \in Nat /\ acc[k].open <= x.ts
      <4>1. acc[k] = a \/ (acc[k].total = a.total /\ (acc[k].open = x.ts \/ acc[k].open = a.open))
        BY <2>1, <3>1
      <4> QED BY <2>2, <2>3, <4>1
    <3> QED BY <1>1, <3>2 DEF x
  <2>5. CASE x.type \notin Opening /\ a.open = 0
    <3>1. acc[k] = a
      BY <2>1, <2>5 DEF Account
    <3> QED BY <1>1, <2>3, <3>1 DEF x
  <2>6. CASE x.type \notin Opening /\ a.open # 0
    <3>1. acc[k] = [total |-> a.total + (x.ts - a.open), open |-> 0]
      BY <2>1, <2>6 DEF Account
    <3>2. acc[k].total \in Nat /\ acc[k].open = 0
      BY <2>2, <2>3, <3>1
    <3> QED BY <1>1, <2>2, <3>2 DEF x
  <2> QED BY <2>4, <2>5, <2>6
<1>7. 0 .. n \subseteq P
  <2> HIDE DEF P
  <2> QED BY <1>1, <1>5, <1>6, Scan!SetInduction
<1>8. n \in P
  BY <1>1, <1>7
<1> QED BY <1>2, <1>4, <1>8
-----------------------------------------------------------------------------
(* Types: the replays of a device                                          *)

ReplayCounts == row \in {"none", "named", "new"} /\ total \in Nat /\ replays \in 0 .. MaxReplays
BatchesAtWork == \A h \in Handlers : turn[h] = "idle" <=> batch[h] = <<>>
RowBeforeLog == row = "none" => log = <<>>

\* With these, the invariant of the replays says all that the types do.
ReplayTypes ==
  ReplayInv /\ ReplayCounts /\ overlaps \in BOOLEAN /\ BatchesAtWork /\ RowBeforeLog

\* An attempt is made with something to send.
LEMMA PendingIsSome ==
  ASSUME ReplayTyped, queue # {}, NEW pending \in SetToSeqs(queue) PROVE pending # <<>>
<1>1. queue \subseteq 1 .. tapped /\ tapped \in Int
  BY DEF ReplayTyped
<1>2. IsFiniteSet(queue)
  <2>1. IsFiniteSet(1 .. tapped)
    BY <1>1, FS_Interval
  <2> QED BY <1>1, <2>1, FS_Subset
<1>3. Cardinality(queue) \in Nat /\ Cardinality(queue) # 0
  BY <1>2, FS_CardinalityType, FS_EmptySet
<1>4. DOMAIN pending = 1 .. Cardinality(queue)
  BY DEF SetToSeqs
<1> QED BY <1>3, <1>4

\* Every step of a replay keeps them.
LEMMA ReplayStepTypes == ReplayTypes /\ [ReplayNext]_replayVars => ReplayTypes'
<1> SUFFICES ASSUME ReplayTypes, [ReplayNext]_replayVars PROVE ReplayTypes'
  OBVIOUS
<1>1. /\ ReplayInv' /\ ReplayTyped /\ ReplayCounts /\ BatchesAtWork /\ RowBeforeLog
      /\ log \in Seq(Sess) /\ loaded \in [Handlers -> Seq(Sess)]
      /\ turn \in [Handlers -> Turns] /\ batch \in [Handlers -> Seq(1 .. Len(Records))]
  BY NextReplay DEF ReplayTypes, ReplayInv, ReplayTyped
<1>2. overlaps' \in BOOLEAN
  <2>1. overlaps \in BOOLEAN
    BY Zenon DEF ReplayTypes
  <2>2. overlaps' = overlaps \/ overlaps' = (overlaps \/ \E g \in Handlers : turn[g] # "idle")
    <3>1. UNCHANGED replayVars => overlaps' = overlaps
      BY DEF replayVars
    <3>2. ReplayNext => overlaps' = overlaps
                        \/ overlaps' = (overlaps \/ \E g \in Handlers : turn[g] # "idle")
      BY Zenon DEF ReplayNext, TapOffline, SyncAttendanceSessions, InsertRow, CommitReplay, AnswerReplay
    <3> QED BY <3>1, <3>2, Zenon
  <2> QED BY <2>1, <2>2, Zenon
<1> SUFFICES ReplayCounts' /\ BatchesAtWork' /\ RowBeforeLog'
  BY <1>1, <1>2, Zenon DEF ReplayTypes
<1> USE DEF ReplayCounts, BatchesAtWork, RowBeforeLog
<1>3. CASE UNCHANGED replayVars
  BY <1>1, <1>3 DEF replayVars
<1>4. CASE TapOffline
  BY <1>1, <1>4 DEF TapOffline
<1>5. ASSUME NEW h \in Handlers, SyncAttendanceSessions(h)
      PROVE  ReplayCounts' /\ BatchesAtWork' /\ RowBeforeLog'
  <2>1. PICK pending \in SetToSeqs(queue) : batch' = [batch EXCEPT ![h] = pending]
    BY <1>5 DEF SyncAttendanceSessions
  <2>2. pending # <<>>
    BY <1>1, <1>5, <2>1, PendingIsSome DEF SyncAttendanceSessions
  <2>3. /\ UNCHANGED <<row, log, total>> /\ replays < MaxReplays /\ replays' = replays + 1
        /\ \E p \in {"insert", "commit"} : turn' = [turn EXCEPT ![h] = p]
    BY <1>5 DEF SyncAttendanceSessions, GoTo
  <2>4. BatchesAtWork'
    BY <1>1, <2>1, <2>2, <2>3
  <2>5. ReplayCounts'
    BY <1>1, <2>3, OfflineReplayAssumption
  <2> QED BY <1>1, <2>3, <2>4, <2>5
<1>6. ASSUME NEW h \in Handlers, InsertRow(h)
      PROVE  ReplayCounts' /\ BatchesAtWork' /\ RowBeforeLog'
  BY <1>1, <1>6 DEF InsertRow, GoTo
<1>7. ASSUME NEW h \in Handlers, CommitReplay(h)
      PROVE  ReplayCounts' /\ BatchesAtWork' /\ RowBeforeLog'
  <2>1. CalculateDuration(loaded[h]) \in Nat
    BY <1>1, WorkedTimeIsNatural
  <2>2. /\ turn[h] = "commit" /\ turn' = [turn EXCEPT ![h] = "answer"]
        /\ UNCHANGED <<batch, replays>>
        /\ \/ UNCHANGED <<row, log, total>>
           \/ total' = CalculateDuration(loaded[h]) /\ row' = IF row = "none" THEN "new" ELSE row
    BY <1>7 DEF CommitReplay, GoTo
  <2> QED BY <1>1, <2>1, <2>2
<1>8. ASSUME NEW h \in Handlers, NEW lost \in BOOLEAN, AnswerReplay(h, lost)
      PROVE  ReplayCounts' /\ BatchesAtWork' /\ RowBeforeLog'
  BY <1>1, <1>8 DEF AnswerReplay, GoTo
<1> QED BY <1>3, <1>4, <1>5, <1>6, <1>7, <1>8 DEF ReplayNext

\* For any taps, handlers and replays, the day, the queue and the handlers keep their
\* types, and the total of the day stays a natural number.
LEMMA ReplaysAreTyped == ReplaySpec => []ReplayTypeOK
<1>1. ReplayInit => ReplayTypes
  <2> SUFFICES ASSUME ReplayInit PROVE ReplayTypes
    OBVIOUS
  <2>1. ReplayCounts /\ BatchesAtWork /\ RowBeforeLog
    BY OfflineReplayAssumption DEF ReplayInit, ReplayCounts, BatchesAtWork, RowBeforeLog
  <2>2. overlaps \in BOOLEAN
    BY Zenon DEF ReplayInit
  <2> QED BY <2>1, <2>2, InitReplay, Zenon DEF ReplayTypes
<1>2. ReplayTypes => ReplayTypeOK
  <2> SUFFICES ASSUME ReplayTypes PROVE ReplayTypeOK
    OBVIOUS
  <2>1. overlaps \in BOOLEAN
    BY Zenon DEF ReplayTypes
  <2>2. /\ ReplayCounts /\ BatchesAtWork /\ RowBeforeLog
        /\ turn \in [Handlers -> {"idle", "insert", "commit", "answer"}]
        /\ tapped \in 0 .. Len(Records) /\ queue \subseteq 1 .. tapped
    BY DEF ReplayTypes, ReplayInv, ReplayTyped, Turns
  <2>3. \A h \in Handlers : (turn[h] = "idle") = (batch[h] = <<>>)
    BY <2>2 DEF BatchesAtWork
  <2> QED BY <2>1, <2>2, <2>3, Zenon DEF ReplayCounts, RowBeforeLog, ReplayTypeOK
<1> QED BY <1>1, <1>2, ReplayStepTypes, PTL DEF ReplaySpec
-----------------------------------------------------------------------------
(* What holds side by side                                                 *)

\* The simplification keeps its invariant, whether or not it has a track to simplify.
LEMMA TrailHolds == TrailStarts /\ [][TrailNext]_trailVars => []TrailInv
<1>1. TrailStarts => TrailInv
  <2>1. ASSUME stack = {}, keep = Track, mock = {}, dist = [p \in Inner |-> 0] PROVE TrailInv
    <3>1. TrailTypeOK
      BY <2>1, TrailAssumption DEF TrailTypeOK
    <3>2. EndsKept
      BY <2>1, TrailAssumption DEF EndsKept, Track
    <3>3. StackIsAdjacent /\ SettledIsNear
      BY <2>1 DEF StackIsAdjacent, SettledIsNear, Adjacent, Between
    <3> QED BY <3>1, <3>2, <3>3 DEF TrailInv
  <2> QED BY <2>1, TrailInvInit DEF TrailStarts
<1>2. TrailInv /\ [TrailNext]_trailVars => TrailInv'
  BY TrailInvStep
<1> QED BY <1>1, <1>2, PTL

\* ServicesTypeOK: every service keeps its variables within their types, for any
\* number of devices, handlers, users, rows, jobs and fixes.
THEOREM ServicesAreTyped == Spec => []ServicesTypeOK
<1>1. Alone => [](/\ SessionsTypeOK /\ NotificationTypes /\ WalkInv /\ StaffInv /\ ReportInv
                  /\ HousekeepingInv /\ ReplayTypeOK /\ ZoneTimesTypeOK /\ DayReportsTypeOK
                  /\ LiveFeedTypeOK /\ TrailInv)
  BY SessionsAreTyped, NotificationsAreTyped, WalkInvariant, StaffInvariant, ReportInvariant,
    HousekeepingHolds, ReplaysAreTyped, ZonesAreTyped, TablesAreTyped, FeedIsTyped, TrailHolds,
    PTL DEF Alone
<1>2. /\ SessionsTypeOK /\ NotificationTypes /\ WalkInv /\ StaffInv /\ ReportInv
      /\ HousekeepingInv /\ ReplayTypeOK /\ ZoneTimesTypeOK /\ DayReportsTypeOK
      /\ LiveFeedTypeOK /\ TrailInv
      => ServicesTypeOK
  BY DEF ServicesTypeOK, NotificationTypes, WalkInv, StaffInv, ReportInv, HousekeepingInv, TrailInv
<1> QED BY <1>1, <1>2, EachRunsAlone, PTL

\* Each property proved of a service holds of the services side by side, where the
\* simplification may begin without a track.
THEOREM ServicesHold ==
  Spec => []( /\ EndedStaysEnded /\ RemindedOnce /\ WalkIsExact /\ NobodyInDeletedTeam
              /\ NamesDiffer /\ StatusIsWhole /\ NothingIsLost /\ KeysLeaveInTime
              /\ SettledOnce /\ AccountsAgree /\ ReportsAgree /\ TeamReportsHold
              /\ ScreensAgree /\ DroppedAreNear /\ LogReadersAgree )
          /\ SignedOutForCause /\ TokensDropped /\ FeedNeverGoesBack
<1>1. HousekeepingInv => NothingIsLost /\ KeysLeaveInTime
  BY DEF HousekeepingInv, ArchiveInv, KeysInv, LimitsInv, KeysLeaveInTime
<1>2. TrailInv => DroppedAreNear
  BY DEF TrailInv, DroppedAreNear, EndsKept, SettledIsNear, Drawn
<1>3. Alone => []( /\ EndedStaysEnded /\ RemindedOnce /\ WalkIsExact /\ NobodyInDeletedTeam
                   /\ NamesDiffer /\ StatusIsWhole /\ HousekeepingInv
                   /\ SettledOnce /\ AccountsAgree /\ ReportsAgree /\ TeamReportsHold
                   /\ ScreensAgree /\ TrailInv /\ LogReadersAgree )
  BY EndedSessionsStayEnded, RemindersAreSingle, WalksAreExact, DeletedTeamsAreEmpty,
    NamesDifferByMoreThanCase, StatusStaysWhole, HousekeepingHolds, TapsSettleOnce,
    AccountsTellOneTime, ReportsCountOnce, ReportsStayWithinReach, ScreensGiveOneDot, TrailHolds,
    ReadersSeeOneDay, PTL DEF Alone
<1>4. Alone => SignedOutForCause /\ TokensDropped /\ FeedNeverGoesBack
  BY SignedOutOnlyForCause, TokensLeaveForCause, MapNeverGoesBack, PTL DEF Alone
<1> QED BY <1>1, <1>2, <1>3, <1>4, EachRunsAlone, PTL
=============================================================================
