----------------------------- MODULE JobProofs -----------------------------
(***************************************************************************)
(* What the work done in the background, or done again, guarantees for any *)
(* number of workers, rows, reports and taps and however often it overlaps,*)
(* fails and is cut: reports, the archive and the keys of Redis, the day's *)
(* notifications, and the taps a device replays.                           *)
(***************************************************************************)
EXTENDS ReportJobs, Housekeeping, Notifications, OfflineReplay, SequenceTheorems,
        FiniteSetTheorems, TLAPS

(***************************************************************************)
(* Reports.                                                                *)
(***************************************************************************)

\* Where the hash of a report is between its two commands, and that a job at
\* work whose hash is gone has outlived it.
JobOK(i) ==
  /\ stage[i] = "new" => ~Exists(i)
  /\ stage[i] = "created" => Exists(i) /\ i \notin expires
  /\ stage[i] \in AtWork /\ ~Exists(i) => i \in outlived
  /\ Exists(i) => i \in owned \cup outlived
  /\ Exists(i) => i \in expires \cup lapsed \/ stage[i] \in {"created", "refresh", "fail", "failttl"}

ReportInv == ReportJobsTypeOK /\ \A i \in Reports : JobOK(i)

\* Every step keeps it.
LEMMA ReportStep == ASSUME ReportInv, ReportJobsNext PROVE ReportInv'
<1> USE DEF ReportInv, JobOK, Exists, AtWork, GoesOn, ReportJobsTypeOK, SetTtl, KeepsFields
<1>1. ASSUME NEW i \in Reports, Create(i) \/ Expire(i) PROVE ReportInv'
  BY <1>1 DEF Create, Expire
<1>2. ASSUME NEW i \in Reports, PruneExpiredFiles(i) \/ BuildReport(i) \/ WriteFile(i) \/ FileAges(i)
      PROVE  ReportInv'
  BY <1>2 DEF PruneExpiredFiles, BuildReport, WriteFile, FileAges
<1>3. ASSUME NEW i \in Reports, MarkReady(i) \/ MarkFailed(i) PROVE ReportInv'
  BY <1>3 DEF MarkReady, MarkFailed, Mark
<1>4. ASSUME NEW i \in Reports, Finish(i) PROVE ReportInv'
  BY <1>4 DEF Finish, Finishes
<1>5. ASSUME NEW i \in Reports, RedisError(i) PROVE ReportInv'
  BY <1>5 DEF RedisError, Trouble, Note
<1>6. ASSUME NEW i \in Reports, KeyExpires(i) PROVE ReportInv'
  BY <1>6 DEF KeyExpires
<1>7. CASE CrashJobs
  BY <1>7 DEF CrashJobs, Trouble, Note
<1> QED BY <1>1, <1>2, <1>3, <1>4, <1>5, <1>6, <1>7 DEF ReportJobsNext, RunReportJob

\* ReportInv holds in every state.
LEMMA ReportInvariant == ReportJobsSpec => []ReportInv
<1>1. ReportJobsInit => ReportInv
  BY DEF ReportJobsInit, ReportInv, JobOK, Exists, AtWork, ReportJobsTypeOK
<1>2. ReportInv /\ [ReportJobsNext]_reportVars => ReportInv'
  <2> SUFFICES ASSUME ReportInv, [ReportJobsNext]_reportVars PROVE ReportInv'
    OBVIOUS
  <2>1. CASE UNCHANGED reportVars
    BY <2>1 DEF reportVars, ReportInv, JobOK, Exists, AtWork, ReportJobsTypeOK
  <2> QED BY <2>1, ReportStep
<1> QED BY <1>1, <1>2, PTL DEF ReportJobsSpec

\* The hash of a report has its owner and its TTL, whatever crashes, fails and
\* expires, unless its job outlived it or was cut between HSET and EXPIRE
\* (ReportStore and run_report_job, report_service.py).
THEOREM StatusStaysWhole == ReportJobsSpec => []StatusIsWhole
<1>1. ReportInv => StatusIsWhole
  BY DEF ReportInv, JobOK, StatusIsWhole
<1> QED BY <1>1, ReportInvariant, PTL
-----------------------------------------------------------------------------
(***************************************************************************)
(* The archive.  Between its statements a cleaner has picked every row     *)
(* but those born since, so what it deletes it has archived or was born    *)
(* late; and what it has not copied came late.                             *)
(***************************************************************************)

ArchiveTyped ==
  /\ present \subseteq Old /\ archived \subseteq Old
  /\ sessionsOf \in [Old -> SUBSET Marks] /\ snapshot \in [Old -> SUBSET Marks]
  /\ known \in [Old -> SUBSET Marks]
  /\ place \in [Cleaners -> {"idle", "insert", "delete", "commit"}]
  /\ picked \in [Cleaners -> SUBSET Old] /\ doomed \in [Cleaners -> SUBSET Old]
  /\ copied \in [Cleaners -> [Old -> SUBSET Marks]]

\* The sessions of row r that are not in S came between the statements of a cleaner.
LateBut(r, S) == \A s \in known[r] \ S : <<r, s>> \in late

CleanerOK(w) ==
  /\ place[w] \in {"insert", "delete"} => \A r \in present \ picked[w] : LateBut(r, {})
  /\ \A r \in doomed[w] \ picked[w] : LateBut(r, {})
  /\ \A r \in picked[w] : LateBut(r, copied[w][r])
  /\ place[w] = "commit" => picked[w] \cap present \subseteq doomed[w]
  /\ place[w] # "commit" => doomed[w] = {}
  /\ place[w] = "idle" => picked[w] = {}
  /\ \A r \in picked[w] \cup doomed[w] : known[r] # {}

ArchiveInv ==
  /\ ArchiveTyped /\ NothingIsLost
  /\ \A r \in present : sessionsOf[r] = known[r] /\ known[r] # {}
  /\ \A r \in Old \ present : sessionsOf[r] = {}
  /\ \A r \in archived : known[r] # {}
  /\ \A w \in Cleaners : CleanerOK(w)

\* What a cleaner that does not move keeps, when rows only leave attendance.
LEMMA CleanerKept ==
  ASSUME NEW v \in Cleaners, CleanerOK(v), place'[v] = place[v], picked'[v] = picked[v],
         doomed'[v] = doomed[v], copied'[v] = copied[v], present' \subseteq present,
         UNCHANGED <<known, late>>
  PROVE  CleanerOK(v)'
BY DEF CleanerOK, LateBut

\* A session, alone or with its row, is committed.
LEMMA SessionKept ==
  ASSUME ArchiveInv, NEW r \in Old, NEW s \in Marks, CommitSession(r, s),
         present' = present \cup {r}, r \notin archived,
         \/ r \in present /\ \A w \in Cleaners : r \notin doomed[w]
         \/ known[r] = {}
  PROVE  ArchiveInv'
<1> USE DEF ArchiveInv, ArchiveTyped
<1>1. /\ sessionsOf' = [sessionsOf EXCEPT ![r] = sessionsOf[r] \cup {s}]
      /\ known' = [known EXCEPT ![r] = known[r] \cup {s}]
      /\ late \subseteq late'
      /\ BetweenStatements => <<r, s>> \in late'
      /\ UNCHANGED <<archived, snapshot, place, picked, copied, doomed>>
  BY DEF CommitSession
<1>2. sessionsOf'[r] = known'[r]
  <2>1. r \notin present => sessionsOf[r] = {} /\ known[r] = {}
    OBVIOUS
  <2> QED BY <1>1, <2>1
<1>3. NothingIsLost'
  BY <1>1, <1>2 DEF NothingIsLost
<1>4. ASSUME NEW w \in Cleaners PROVE CleanerOK(w)'
  <2>1. place[w] \in {"insert", "delete"} => <<r, s>> \in late'
    BY <1>1 DEF BetweenStatements
  <2>2. r \notin doomed[w] /\ (place[w] = "commit" => r \notin picked[w])
    BY DEF CleanerOK
  <2>3. \A x \in Old, S \in SUBSET Marks : LateBut(x, S) /\ (x = r => <<r, s>> \in late') => LateBut(x, S)'
    BY <1>1 DEF LateBut
  <2>4. place[w] \in {"insert", "delete"} => \A x \in present' \ picked'[w] : LateBut(x, {})'
    <3> SUFFICES ASSUME place[w] \in {"insert", "delete"}, NEW x \in present' \ picked'[w]
                 PROVE  LateBut(x, {})'
      OBVIOUS
    <3>1. LateBut(x, {})
      BY <1>1 DEF CleanerOK, LateBut
    <3> QED BY <1>1, <2>1, <2>3, <3>1
  <2>5. \A x \in doomed'[w] \ picked'[w] : LateBut(x, {})'
    BY <1>1, <2>2, <2>3 DEF CleanerOK
  <2>6. ASSUME NEW x \in picked[w] PROVE LateBut(x, copied[w][x])'
    <3>1. place[w] = "idle" => x # r
      BY DEF CleanerOK
    <3>2. LateBut(x, copied[w][x]) /\ copied[w][x] \in SUBSET Marks
      BY DEF CleanerOK
    <3> QED BY <1>1, <2>1, <2>2, <2>3, <3>1, <3>2
  <2> QED BY <1>1, <2>2, <2>4, <2>5, <2>6 DEF CleanerOK
<1> QED BY <1>1, <1>2, <1>3, <1>4

\* Every step of the archive keeps it, and nothing else touches it.
LEMMA ArchiveStep == ASSUME ArchiveInv, ArchiveNext PROVE ArchiveInv'
<1> USE DEF ArchiveInv, ArchiveTyped, Moves
<1>1. ASSUME NEW w \in Cleaners, SelectOld(w) PROVE ArchiveInv'
  <2>1. NothingIsLost'
    BY <1>1 DEF SelectOld, NothingIsLost
  <2>2. \A v \in Cleaners : CleanerOK(v)'
    BY <1>1 DEF SelectOld, CleanerOK, LateBut
  <2> QED BY <1>1, <2>1, <2>2 DEF SelectOld
<1>2. ASSUME NEW w \in Cleaners, InsertArchive(w) PROVE ArchiveInv'
  <2>1. /\ place[w] = "insert" /\ place' = [place EXCEPT ![w] = "delete"]
        /\ picked' = [picked EXCEPT ![w] = picked[w] \ archived]
        /\ UNCHANGED <<present, sessionsOf, archived, snapshot, copied, doomed, known, late>>
    BY <1>2 DEF InsertArchive
  <2>2. NothingIsLost'
    BY <2>1 DEF NothingIsLost
  <2>3. ASSUME NEW v \in Cleaners PROVE CleanerOK(v)'
    <3>1. CASE v = w
      <4>1. present \ picked'[w] = present \ picked[w]
        BY <2>1 DEF NothingIsLost
      <4> QED BY <2>1, <3>1, <4>1 DEF CleanerOK, LateBut
    <3>2. CASE v # w
      BY <2>1, <3>2, CleanerKept
    <3> QED BY <3>1, <3>2
  <2>4. picked' \in [Cleaners -> SUBSET Old]
    BY <2>1
  <2> QED BY <2>1, <2>2, <2>3, <2>4
<1>3. ASSUME NEW w \in Cleaners, DeleteOld(w) PROVE ArchiveInv'
  <2>1. /\ place[w] = "delete" /\ place' = [place EXCEPT ![w] = "commit"]
        /\ doomed' = [doomed EXCEPT ![w] = present]
        /\ UNCHANGED <<present, sessionsOf, archived, snapshot, picked, copied, known, late>>
    BY <1>3 DEF DeleteOld, OldNow
  <2>2. NothingIsLost'
    BY <2>1 DEF NothingIsLost
  <2>3. ASSUME NEW v \in Cleaners PROVE CleanerOK(v)'
    <3>1. CASE v = w
      BY <2>1, <3>1 DEF CleanerOK, LateBut
    <3>2. CASE v # w
      BY <2>1, <3>2, CleanerKept
    <3> QED BY <3>1, <3>2
  <2> QED BY <2>1, <2>2, <2>3
<1>4. ASSUME NEW w \in Cleaners, CommitArchive(w) PROVE ArchiveInv'
  <2>1. /\ place[w] = "commit" /\ place' = [place EXCEPT ![w] = "idle"]
        /\ picked' = [picked EXCEPT ![w] = {}] /\ doomed' = [doomed EXCEPT ![w] = {}]
        /\ copied' = [copied EXCEPT ![w] = [r \in Old |-> {}]]
        /\ present' = present \ doomed[w] /\ archived' = archived \cup picked[w]
        /\ UNCHANGED <<known, late>>
    BY <1>4 DEF CommitArchive
  <2>2. /\ \A r \in Old : sessionsOf'[r] = IF r \in doomed[w] THEN {} ELSE sessionsOf[r]
        /\ \A r \in Old : snapshot'[r] = IF r \in picked[w] THEN copied[w][r] ELSE snapshot[r]
    BY <1>4 DEF CommitArchive
  <2>3. /\ picked[w] \cap present \subseteq doomed[w]
        /\ \A r \in doomed[w] \ picked[w] : LateBut(r, {})
        /\ \A r \in picked[w] : LateBut(r, copied[w][r])
    BY <2>1 DEF CleanerOK
  <2>4. ASSUME NEW r \in Old, NEW s \in known[r]
        PROVE  \/ r \in present' /\ s \in sessionsOf'[r]
               \/ r \in archived' /\ s \in snapshot'[r]
               \/ <<r, s>> \in late
    <3>1. CASE r \in picked[w]
      BY <2>1, <2>2, <2>3, <3>1 DEF LateBut
    <3>2. CASE r \in doomed[w] \ picked[w]
      BY <2>3, <3>2 DEF LateBut
    <3>3. CASE r \notin doomed[w] /\ r \notin picked[w]
      BY <2>1, <2>2, <3>3 DEF NothingIsLost
    <3> QED BY <3>1, <3>2, <3>3
  <2>5. NothingIsLost'
    BY <2>1, <2>3, <2>4 DEF NothingIsLost
  <2>6. ASSUME NEW v \in Cleaners PROVE CleanerOK(v)'
    <3>1. CASE v = w
      BY <2>1, <3>1 DEF CleanerOK
    <3>2. CASE v # w
      BY <2>1, <3>2, CleanerKept
    <3> QED BY <3>1, <3>2
  <2>7. ArchiveTyped'
    BY <1>4 DEF CommitArchive
  <2>8. \A r \in archived' : known'[r] # {}
    BY <2>1 DEF CleanerOK
  <2> QED BY <2>1, <2>2, <2>5, <2>6, <2>7, <2>8
<1>5. ASSUME NEW w \in Cleaners, FailArchive(w) PROVE ArchiveInv'
  <2>1. /\ place' = [place EXCEPT ![w] = "idle"]
        /\ picked' = [picked EXCEPT ![w] = {}] /\ doomed' = [doomed EXCEPT ![w] = {}]
        /\ copied' = [copied EXCEPT ![w] = [r \in Old |-> {}]]
        /\ UNCHANGED <<present, sessionsOf, archived, snapshot, known, late>>
    BY <1>5 DEF FailArchive, Rollback
  <2>2. NothingIsLost'
    BY <2>1 DEF NothingIsLost
  <2>3. ASSUME NEW v \in Cleaners PROVE CleanerOK(v)'
    <3>1. CASE v = w
      BY <2>1, <3>1 DEF CleanerOK
    <3>2. CASE v # w
      BY <2>1, <3>2, CleanerKept
    <3> QED BY <3>1, <3>2
  <2> QED BY <2>1, <2>2, <2>3
<1>6. ASSUME NEW r \in Old, NEW s \in Marks, AddOldSession(r, s) PROVE ArchiveInv'
  BY <1>6, SessionKept DEF AddOldSession, NothingIsLost
<1>7. ASSUME NEW r \in Old, NEW s \in Marks, AddOldRow(r, s) PROVE ArchiveInv'
  BY <1>7, SessionKept DEF AddOldRow
<1> QED BY <1>1, <1>2, <1>3, <1>4, <1>5, <1>6, <1>7 DEF ArchiveNext, RunCleanup

\* The cleanup begins with any rows and sessions, and an empty archive.
LEMMA ArchiveBegins ==
  ASSUME NEW f \in [Old -> SUBSET Marks], HousekeepingStart(f) PROVE ArchiveInv
BY DEF HousekeepingStart, ArchiveInv, ArchiveTyped, NothingIsLost, CleanerOK, LateBut

\* Every step of housekeeping keeps the invariant of the archive.
LEMMA ArchiveKeeps == ArchiveInv /\ [HousekeepingNext]_housekeepingVars => ArchiveInv'
<1> SUFFICES ASSUME ArchiveInv, [HousekeepingNext]_housekeepingVars PROVE ArchiveInv'
  OBVIOUS
<1>1. CASE UNCHANGED archiveVars
  BY <1>1 DEF archiveVars, ArchiveInv, ArchiveTyped, NothingIsLost, CleanerOK, LateBut
<1>2. KeysNext \/ LimitsNext => UNCHANGED archiveVars
  BY DEF KeysNext, LimitsNext, WriteKey, ExpireKeyAt, CutWriter, Midnight, Sweeps, SweepLooks,
    MissSweep, CutSweep, SweepExpires, Hit, ExpireHits, CutHitter, WindowEnds
<1> QED BY <1>1, <1>2, ArchiveStep DEF HousekeepingNext, housekeepingVars

\* However many workers clean up at once, fail and roll back, and whatever reaches
\* an old day meanwhile, new rows included, no row is in both tables and each
\* session is in one, but for those committed between the two statements of a
\* cleanup (run_cleanup, sync_cleanup.py).
THEOREM NothingGetsLost == HousekeepingSpec => []NothingIsLost
<1>1. HousekeepingInit => ArchiveInv
  BY ArchiveBegins DEF HousekeepingInit
<1>2. ArchiveInv => NothingIsLost
  BY DEF ArchiveInv
<1> QED BY <1>1, <1>2, ArchiveKeeps, PTL DEF HousekeepingSpec
-----------------------------------------------------------------------------
(***************************************************************************)
(* Keys of Redis.  A key without a TTL is of today once the sweep of today *)
(* is over, and of yesterday at the oldest before; one with the default    *)
(* TTL is a day older at the most, because the next sweep comes after it.  *)
(* Each day without a sweep makes them one day older.                      *)
(***************************************************************************)

KeysInv ==
  /\ today \in Nat /\ keyDay \in Nat /\ swept \in Int /\ swept <= today /\ keyDay <= today
  /\ unswept \in Nat
  /\ keyTtl \in {"absent", "none", "midnight", "default"}
  /\ sweep => swept = today
  /\ keyTtl = "none" =>
       \/ keyDay >= today - unswept
       \/ keyDay = today - 1 - unswept /\ (swept = today => sweep)
  /\ keyTtl = "midnight" => keyDay = today
  /\ keyTtl = "default" =>
       \/ keyDay >= today - 1 - unswept
       \/ keyDay = today - 2 - unswept /\ swept # today

\* A counter without a TTL is about to get one, or was left so by a cut.
LimitsInv == hits \in Nat /\ (hits > 0 /\ ~hitTtl => hitter \/ stuck)

\* Every step of the writers, the sweep and the days keeps the first.
LEMMA KeysStep == ASSUME KeysInv, KeysNext PROVE KeysInv'
<1> USE DEF KeysInv
<1>1. CASE WriteKey
  <2>1. /\ keyDay' = today /\ today' = today /\ swept' = swept /\ unswept' = unswept
        /\ keyTtl' = IF keyTtl = "absent" THEN "none" ELSE keyTtl
    BY <1>1 DEF WriteKey
  <2>2. sweep' => sweep
    BY <1>1, Zenon DEF WriteKey
  <2> QED BY <2>1, <2>2
<1>2. CASE ExpireKeyAt
  BY <1>2 DEF ExpireKeyAt
<1>7. CASE MissSweep
  <2>1. /\ today' = today /\ keyDay' = keyDay /\ swept' = today /\ unswept' = unswept + 1
        /\ keyTtl' = IF keyTtl = "default" THEN "absent" ELSE keyTtl
    BY <1>7 DEF MissSweep
  <2>2. ~sweep /\ ~sweep' /\ swept < today
    BY <1>7, Zenon DEF MissSweep
  <2> QED BY <2>1, <2>2
<1>8. CASE CutSweep
  <2>1. /\ today' = today /\ keyDay' = keyDay /\ swept' = swept /\ unswept' = unswept + 1
        /\ keyTtl' = keyTtl
    BY <1>8 DEF CutSweep
  <2>2. sweep /\ ~sweep'
    BY <1>8, Zenon DEF CutSweep
  <2> QED BY <2>1, <2>2
<1>3. CASE CutWriter
  BY <1>3 DEF CutWriter
<1>4. CASE Midnight
  BY <1>4 DEF Midnight
<1>5. CASE SweepLooks
  <2>1. /\ swept' = today /\ today' = today /\ keyDay' = keyDay /\ unswept' = unswept
        /\ keyTtl' = IF keyTtl = "default" THEN "absent" ELSE keyTtl
    BY <1>5 DEF SweepLooks
  <2>2. keyTtl = "none" => sweep'
    BY <1>5, Zenon DEF SweepLooks, NeedsTtl
  <2> QED BY <2>1, <2>2
<1>6. CASE SweepExpires
  <2>1. /\ swept' = swept /\ today' = today /\ keyDay' = keyDay /\ unswept' = unswept
        /\ keyTtl' = IF keyTtl = "absent" THEN "absent" ELSE "default"
    BY <1>6 DEF SweepExpires
  <2>2. sweep /\ ~sweep'
    BY <1>6, Zenon DEF SweepExpires
  <2> QED BY <2>1, <2>2
<1> QED BY <1>1, <1>2, <1>3, <1>4, <1>5, <1>6, <1>7, <1>8 DEF KeysNext, Sweeps

\* Every step of the rate limiter keeps the second.
LEMMA LimitsStep == ASSUME LimitsInv, LimitsNext PROVE LimitsInv'
<1> USE DEF LimitsInv
<1>1. CASE Hit
  <2>1. hits' = hits + 1
    BY <1>1 DEF Hit
  <2>2. /\ hits' = 1 => hitter'
        /\ hitTtl => hitTtl'
        /\ stuck => stuck'
        /\ hitter => hitter'
    BY <1>1, Zenon DEF Hit, OpensWindow
  <2>3. CASE hits = 0
    BY <2>1, <2>2, <2>3
  <2>4. CASE hits > 0 /\ hitTtl
    BY <2>1, <2>2, <2>4
  <2>5. CASE hits > 0 /\ (stuck \/ hitter)
    BY <2>1, <2>2, <2>5
  <2> QED BY <2>2, <2>3, <2>4, <2>5
<1>2. CASE ExpireHits
  BY <1>2 DEF ExpireHits
<1>3. CASE CutHitter
  BY <1>3 DEF CutHitter
<1>4. CASE WindowEnds
  BY <1>4 DEF WindowEnds
<1> QED BY <1>1, <1>2, <1>3, <1>4 DEF LimitsNext

\* At first there is neither key.
LEMMA KeysBegin == ASSUME NEW f \in [Old -> SUBSET Marks], HousekeepingStart(f) PROVE KeysInv /\ LimitsInv
BY DEF HousekeepingStart, KeysInv, LimitsInv

\* Every step of housekeeping keeps the invariants of the keys.
LEMMA KeysKeep ==
  KeysInv /\ LimitsInv /\ [HousekeepingNext]_housekeepingVars => KeysInv' /\ LimitsInv'
<1> SUFFICES ASSUME KeysInv, LimitsInv, [HousekeepingNext]_housekeepingVars
             PROVE  KeysInv' /\ LimitsInv'
  OBVIOUS
<1>1. UNCHANGED keyVars => KeysInv'
  BY DEF keyVars, KeysInv
<1>2. UNCHANGED limitVars => LimitsInv'
  BY DEF limitVars, LimitsInv
<1>3. ArchiveNext => UNCHANGED <<keyVars, limitVars>>
  BY DEF ArchiveNext, RunCleanup, SelectOld, InsertArchive, DeleteOld, CommitArchive, FailArchive,
    AddOldSession, AddOldRow, CommitSession
<1>4. KeysNext => UNCHANGED limitVars
  BY DEF KeysNext, WriteKey, ExpireKeyAt, CutWriter, Midnight, Sweeps, SweepLooks, SweepExpires,
    MissSweep, CutSweep
<1>5. LimitsNext => UNCHANGED keyVars
  BY DEF LimitsNext, Hit, ExpireHits, CutHitter, WindowEnds
<1> QED BY <1>1, <1>2, <1>3, <1>4, <1>5, KeysStep, LimitsStep DEF HousekeepingNext, housekeepingVars

\* Whichever writers and requests are cut, the state of a day is gone when the
\* second day after it has ended, a day later for each without a sweep, and a counter of the rate limiter has its
\* TTL, but for the one whose maker is between INCR and EXPIRE or was cut there
\* (redis_cleanup_job, scheduler.py; rate_limit, dependencies.py).
THEOREM KeysLeave == HousekeepingSpec => []KeysLeaveInTime
<1>1. HousekeepingInit => KeysInv /\ LimitsInv
  BY KeysBegin DEF HousekeepingInit
<1>2. KeysInv /\ LimitsInv => KeysLeaveInTime
  BY DEF KeysInv, LimitsInv, KeysLeaveInTime
<1> QED BY <1>1, <1>2, KeysKeep, PTL DEF HousekeepingSpec
-----------------------------------------------------------------------------
(***************************************************************************)
(* Notifications.  While a reminder has not slipped, the lock of Redis is  *)
(* held by whoever is past its claim, alone, and stays after its commit or *)
(* its cut: nobody else gets past a claim.                                 *)
(***************************************************************************)

RowsTyped ==
  /\ rows \in [Kinds -> [Users -> Nat]] /\ kind \in [Workers -> Kinds]
  /\ at \in [Workers -> JobStates]

\* Worker w is past its claim of reminder k.
Runs(w, k) == kind[w] = k /\ at[w] \in {"query", "push"}

ReminderOK(k) ==
  k \in slips \/ ( /\ \A u \in Users : rows[k][u] <= 1
                   /\ \A w \in Workers : Runs(w, k) => k \in locked
                   /\ \A w, v \in Workers : Runs(w, k) /\ Runs(v, k) => w = v
                   /\ (k \notin locked \/ \E w \in Workers : Runs(w, k))
                        => \A u \in Users : rows[k][u] = 0 )

RemindersInv == RowsTyped /\ \A k \in Reminders : ReminderOK(k)

\* A reminder nobody newly runs, of which nothing is written, stays as it is.
LEMMA ReminderKept ==
  ASSUME NEW k \in Reminders, ReminderOK(k), slips \subseteq slips', rows'[k] = rows[k],
         k \in locked' <=> k \in locked, \A w \in Workers : Runs(w, k)' => Runs(w, k)
  PROVE  ReminderOK(k)'
BY DEF ReminderOK

\* Every step of the jobs and of the world keeps it.
LEMMA RemindersStep == ASSUME RemindersInv, NotificationsNext PROVE RemindersInv'
<1> USE DEF RemindersInv, RowsTyped, Goes, JobStates
<1>1. ASSUME NEW w \in Workers, Claim(w) PROVE RemindersInv'
  <2>1. CASE LockFree(kind[w])
    <3>1. /\ at[w] = "claim" /\ kind[w] \notin locked /\ locked' = locked \cup {kind[w]}
          /\ at' = [at EXCEPT ![w] = "query"] /\ UNCHANGED <<rows, kind, slips>>
      BY <1>1, <2>1 DEF Claim, LockFree
    <3>2. ASSUME NEW k \in Reminders PROVE ReminderOK(k)'
      <4>1. CASE k # kind[w]
        BY <3>1, <4>1, ReminderKept DEF Runs
      <4>2. CASE k = kind[w]
        <5>1. k \in slips \/ (/\ \A v \in Workers : ~Runs(v, k)
                              /\ \A u \in Users : rows[k][u] = 0)
          BY <3>1, <4>2 DEF ReminderOK
        <5>2. \A v \in Workers : Runs(v, k)' => Runs(v, k) \/ v = w
          BY <3>1 DEF Runs
        <5> QED BY <3>1, <4>2, <5>1, <5>2 DEF ReminderOK
      <4> QED BY <4>1, <4>2
    <3> QED BY <3>1, <3>2
  <2>2. CASE ~LockFree(kind[w])
    BY <1>1, <2>2, ReminderKept DEF Claim, Runs
  <2> QED BY <2>1, <2>2
<1>2. ASSUME NEW w \in Workers, ClaimFailsOpen(w) PROVE RemindersInv'
  <2>1. ASSUME NEW k \in Reminders PROVE ReminderOK(k)'
    <3>1. CASE k = kind[w]
      BY <1>2, <3>1 DEF ClaimFailsOpen, ReminderOK
    <3>2. CASE k # kind[w]
      BY <1>2, <3>2, ReminderKept DEF ClaimFailsOpen, Runs
    <3> QED BY <3>1, <3>2
  <2> QED BY <1>2, <2>1 DEF ClaimFailsOpen
<1>3. ASSUME NEW k \in Reminders, ExpireLock(k) PROVE RemindersInv'
  <2>1. ASSUME NEW j \in Reminders PROVE ReminderOK(j)'
    <3>1. CASE j = k
      BY <1>3, <3>1 DEF ExpireLock, ReminderOK
    <3>2. CASE j # k
      BY <1>3, <3>2, ReminderKept DEF ExpireLock, jobs, Runs
    <3> QED BY <3>1, <3>2
  <2> QED BY <1>3, <2>1 DEF ExpireLock, jobs
<1>4. ASSUME NEW w \in Workers, NEW k \in Reminders, Fire(w, k) PROVE RemindersInv'
  <2>1. /\ at' = [at EXCEPT ![w] = "claim"] /\ kind' = [kind EXCEPT ![w] = k]
        /\ UNCHANGED <<rows, locked, slips>> /\ k \in Kinds
    BY <1>4 DEF Fire, Kinds
  <2> QED BY <2>1, ReminderKept DEF Runs
<1>5. ASSUME NEW w \in Workers, NEW S, SendBulk(w, S) PROVE RemindersInv'
  <2>1. /\ at' = [at EXCEPT ![w] = "push"] /\ kind' = [kind EXCEPT ![w] = "OTHER"]
        /\ UNCHANGED <<rows, locked, slips>> /\ "OTHER" \in Kinds /\ "OTHER" \notin Reminders
    BY <1>5 DEF SendBulk, Kinds, Reminders
  <2> QED BY <2>1, ReminderKept DEF Runs
<1>6. ASSUME NEW w \in Workers, Query(w) PROVE RemindersInv'
  BY <1>6, ReminderKept DEF Query, Runs
<1>7. ASSUME NEW w \in Workers, Cut(w) PROVE RemindersInv'
  BY <1>7, ReminderKept DEF Cut, EndJob, Runs
<1>8. ASSUME NEW w \in Workers, Commit(w) PROVE RemindersInv'
  <2>1. /\ at[w] = "push" /\ at' = [at EXCEPT ![w] = "idle"] /\ UNCHANGED <<kind, locked, slips>>
        /\ rows' = [rows EXCEPT ![kind[w]] =
                      [u \in Users |-> rows[kind[w]][u] + IF u \in fresh[w] THEN 1 ELSE 0]]
    BY <1>8 DEF Commit, Finished, EndJob
  <2>2. RowsTyped'
    BY <2>1
  <2>3. ASSUME NEW k \in Reminders PROVE ReminderOK(k)'
    <3>1. CASE k # kind[w]
      BY <2>1, <3>1, ReminderKept DEF Runs, Kinds
    <3>2. CASE k = kind[w]
      <4>1. Runs(w, k)
        BY <2>1, <3>2 DEF Runs
      <4>2. k \in slips \/ (k \in locked /\ \A v \in Workers : Runs(v, k) => v = w)
        BY <4>1 DEF ReminderOK
      <4>3. k \in slips \/ \A u \in Users : rows'[k][u] <= 1
        BY <2>1, <3>2, <4>1 DEF ReminderOK, Kinds
      <4>4. \A v \in Workers : Runs(v, k)' => Runs(v, k) /\ v # w
        BY <2>1 DEF Runs
      <4> QED BY <2>1, <4>2, <4>3, <4>4 DEF ReminderOK
    <3> QED BY <3>1, <3>2
  <2> QED BY <2>2, <2>3
<1>9. ASSUME UNCHANGED <<rows, kind, at, locked, slips>> PROVE RemindersInv'
  BY <1>9, ReminderKept DEF Runs
<1>10. ASSUME NEW w \in Workers, NEW u \in Users, SendFcm(w, u) PROVE RemindersInv'
  BY <1>9, <1>10 DEF SendFcm
<1>11. ASSUME NEW w \in Workers, NEW t \in Tokens, NEW a \in BOOLEAN, Push(w, t, a) PROVE RemindersInv'
  BY <1>9, <1>11 DEF Push
<1>12. ASSUME NEW u \in Users, Tap(u) PROVE RemindersInv'
  BY <1>9, <1>12 DEF Tap, jobs
<1>13. ASSUME NEW t \in Tokens, Uninstall(t) PROVE RemindersInv'
  BY <1>9, <1>13 DEF Uninstall, jobs
<1>14. ASSUME NEW g \in Registrars, RegisterDevice(g) \/ CutDevice(g) PROVE RemindersInv'
  BY <1>9, <1>14 DEF RegisterDevice, CutDevice, BindDevice, SelectOthers, ReapOther, CommitDevice,
    RollBackDevice, jobs
<1>15. ASSUME NEW g \in Registrars, NEW u \in Users, NEW t \in Tokens, FindDevice(g, u, t)
       PROVE  RemindersInv'
  BY <1>9, <1>15 DEF FindDevice, jobs
<1> QED BY <1>1, <1>2, <1>3, <1>4, <1>5, <1>6, <1>7, <1>8, <1>10, <1>11, <1>12, <1>13, <1>14, <1>15
        DEF NotificationsNext, Work

\* However many workers fire a reminder and however their jobs are cut, nobody
\* has two rows of it in the inbox, unless Redis failed a claim or its lock
\* expired (_claim_job_lock, scheduler.py).
THEOREM RemindersAreSingle == NotificationsSpec => []RemindedOnce
<1>1. NotificationsInit => RemindersInv
  BY DEF NotificationsInit, RemindersInv, RowsTyped, ReminderOK, Runs, Kinds, Reminders, JobStates
<1>2. RemindersInv /\ [NotificationsNext]_notificationVars => RemindersInv'
  <2> SUFFICES ASSUME RemindersInv, [NotificationsNext]_notificationVars PROVE RemindersInv'
    OBVIOUS
  <2>1. CASE UNCHANGED notificationVars
    BY <2>1 DEF notificationVars, jobs, RemindersInv, RowsTyped, ReminderOK, Runs
  <2> QED BY <2>1, RemindersStep
<1>3. RemindersInv => RemindedOnce
  BY DEF RemindersInv, ReminderOK, RemindedOnce
<1> QED BY <1>1, <1>2, <1>3, PTL DEF NotificationsSpec

\* Only tokens that FCM called gone are on the list a job retires.
ListsOK == /\ dead \in [Workers -> SUBSET Tokens] /\ owner \in [Tokens -> Users \cup {NoUser}]
           /\ \A w \in Workers : dead[w] \subseteq gone

\* What a registration has set to NULL was its user's, and stays so until its commit.
VisitOK(g) ==
  /\ visit[g] # "idle" => caller[g] \in Users /\ phone[g] \in Tokens
  /\ phone[g] \notin others[g] \cup reaped[g]
  /\ visit[g] # "reap" => others[g] = {} /\ reaped[g] = {}
  /\ \A t \in reaped[g] : owner[t] = caller[g]
VisitsOK ==
  /\ visit \in [Registrars -> {"idle", "found", "bound", "reap"}]
  /\ caller \in [Registrars -> Users \cup {NoUser}] /\ phone \in [Registrars -> Tokens \cup {NoUser}]
  /\ lookup \in [Registrars -> {"none", "own", "other", "lost"}]
  /\ others \in [Registrars -> SUBSET Tokens] /\ reaped \in [Registrars -> SUBSET Tokens]
  /\ \A g \in Registrars : VisitOK(g)

\* No row is written by two of them at once.
WritersApart == \A g, h \in Registrars : g # h => Writes(g) \cap Writes(h) = {}

TokensInv == ListsOK /\ VisitsOK /\ WritersApart

\* The handset that a registration leaves the user, or what became of it.
Cause(t) == \/ t \in gone \/ \E s \in Tokens \ {t} : owner'[s] = owner[t]
            \/ \E g \in Registrars : caller[g] = owner[t] /\ RowTaken(g)
Caused == \A t \in Tokens : owner[t] # NoUser /\ owner'[t] = NoUser => Cause(t)

\* A step that leaves the bindings and the registrations alone, adds no token but
\* a gone one to the lists, and brings no handset back.
LEMMA TokensKept ==
  ASSUME TokensInv, UNCHANGED <<owner, registrations>>, gone \subseteq gone',
         dead' \in [Workers -> SUBSET Tokens], \A w \in Workers : dead'[w] \subseteq dead[w] \cup gone
  PROVE  TokensInv' /\ Caused
<1>1. ListsOK'
  BY DEF TokensInv, ListsOK
<1>2. VisitsOK' /\ WritersApart'
  BY DEF TokensInv, VisitsOK, VisitOK, WritersApart, Writes, registrations
<1> QED BY <1>1, <1>2 DEF TokensInv, Caused

\* The end of a job empties its list.
LEMMA EndJobEmpties ==
  ASSUME NEW w \in Workers, dead \in [Workers -> SUBSET Tokens], EndJob(w)
  PROVE  dead' \in [Workers -> SUBSET Tokens] /\ \A v \in Workers : dead'[v] \subseteq dead[v]
BY DEF EndJob

\* A job that commits takes rows that no registration has written.
LEMMA JobCommits ==
  ASSUME TokensInv, NEW w \in Workers, Commit(w) PROVE TokensInv' /\ Caused
<1> USE DEF TokensInv
<1>1. /\ owner' = [t \in Tokens |-> IF t \in dead[w] THEN NoUser ELSE owner[t]] /\ gone' = gone
      /\ lookup' = LostTo(dead[w]) /\ UNCHANGED <<visit, caller, phone, others, reaped>>
      /\ \A t \in dead[w] : ~Written(t)
  BY DEF Commit, world
<1>2. Caused
  BY <1>1 DEF ListsOK, Caused, Cause
<1>3. ListsOK'
  <2>1. dead' \in [Workers -> SUBSET Tokens] /\ \A v \in Workers : dead'[v] \subseteq dead[v]
    BY EndJobEmpties DEF Commit, ListsOK
  <2> QED BY <1>1, <2>1 DEF ListsOK
<1>4. ASSUME NEW g \in Registrars
      PROVE  lookup'[g] \in {lookup[g], "lost"} /\ Writes(g)' \subseteq Writes(g)
  <2>1. lookup'[g] \in {lookup[g], "lost"}
    BY <1>1 DEF LostTo
  <2> QED BY <1>1, <2>1 DEF Writes
<1>5. ASSUME NEW g \in Registrars PROVE VisitOK(g)'
  <2>1. \A t \in reaped[g] : t \in Tokens /\ t \notin dead[w]
    BY <1>1 DEF Written, Writes, VisitsOK
  <2> QED BY <1>1, <2>1 DEF VisitsOK, VisitOK
<1>6. lookup' \in [Registrars -> {"none", "own", "other", "lost"}]
  BY <1>1, <1>4 DEF LostTo, VisitsOK
<1>7. VisitsOK'
  BY <1>1, <1>5, <1>6 DEF VisitsOK
<1> QED BY <1>2, <1>3, <1>4, <1>7 DEF WritersApart

\* The end of a registration.
LEMMA VisitEnds ==
  ASSUME VisitsOK, NEW g \in Registrars, EndVisit(g)
  PROVE  /\ visit'[g] = "idle" /\ phone'[g] = NoUser /\ others'[g] = {} /\ reaped'[g] = {}
         /\ \A h \in Registrars \ {g} : /\ visit'[h] = visit[h] /\ caller'[h] = caller[h]
                                        /\ phone'[h] = phone[h] /\ others'[h] = others[h]
                                        /\ reaped'[h] = reaped[h]
         /\ visit' \in [Registrars -> {"idle", "found", "bound", "reap"}]
         /\ caller' \in [Registrars -> Users \cup {NoUser}]
         /\ phone' \in [Registrars -> Tokens \cup {NoUser}]
         /\ others' \in [Registrars -> SUBSET Tokens] /\ reaped' \in [Registrars -> SUBSET Tokens]
BY DEF EndVisit, VisitsOK

\* A registration that commits leaves its user the handset it is about, or has
\* found it taken.
LEMMA VisitCommits ==
  ASSUME TokensInv, NEW g \in Registrars, CommitDevice(g) PROVE TokensInv' /\ Caused
<1> USE DEF TokensInv
<1>1. /\ visit[g] = "reap" /\ EndVisit(g) /\ UNCHANGED <<gone, dead>>
      /\ owner' = [t \in Tokens |-> IF t \in reaped[g] THEN NoUser
                                    ELSE IF t \in Writes(g) /\ lookup[g] # "own" THEN caller[g]
                                    ELSE owner[t]]
      /\ lookup' = [LostTo(reaped[g]) EXCEPT ![g] = "none"]
  BY DEF CommitDevice, world, jobs
<1>2. /\ caller[g] \in Users /\ phone[g] \in Tokens /\ caller[g] # NoUser
      /\ phone[g] \notin reaped[g] /\ \A t \in reaped[g] : owner[t] = caller[g]
  BY <1>1, NotificationsAssumption DEF VisitsOK, VisitOK
<1>3. ASSUME NEW t \in Tokens, owner[t] # NoUser, owner'[t] = NoUser PROVE Cause(t)
  <2>1. t \in reaped[g] /\ owner[t] = caller[g] /\ phone[g] # t
    BY <1>1, <1>2, <1>3
  <2>2. CASE ~RowTaken(g)
    <3>1. phone[g] \in Writes(g) \/ lookup[g] = "own"
      BY <1>1, <2>2 DEF Writes, RowTaken
    <3>2. lookup[g] = "own" => owner[phone[g]] = caller[g]
      BY <2>2 DEF RowTaken
    <3>3. owner'[phone[g]] = caller[g]
      BY <1>1, <1>2, <3>1, <3>2
    <3> QED BY <1>2, <2>1, <3>3 DEF Cause
  <2> QED BY <2>1, <2>2 DEF Cause
<1>4. ListsOK'
  BY <1>1, <1>2 DEF ListsOK
<1>5. ASSUME NEW h \in Registrars \ {g} PROVE VisitOK(h)' /\ Writes(h)' \subseteq Writes(h)
  <2>1. /\ visit'[h] = visit[h] /\ caller'[h] = caller[h] /\ phone'[h] = phone[h]
        /\ others'[h] = others[h] /\ reaped'[h] = reaped[h]
    BY <1>1, VisitEnds
  <2>2. lookup'[h] \in {lookup[h], "lost"}
    BY <1>1 DEF LostTo
  <2>3. \A t \in reaped[h] : t \in Tokens /\ t \notin Writes(g) /\ t \notin reaped[g]
    BY DEF WritersApart, Writes, VisitsOK
  <2>4. \A t \in reaped[h] : owner'[t] = owner[t]
    BY <1>1, <2>3
  <2> QED BY <2>1, <2>2, <2>4 DEF VisitsOK, VisitOK, Writes
<1>6. VisitOK(g)' /\ Writes(g)' = {}
  <2>1. visit'[g] = "idle" /\ phone'[g] = NoUser /\ others'[g] = {} /\ reaped'[g] = {}
    BY <1>1, VisitEnds
  <2> QED BY <2>1 DEF VisitOK, Writes
<1>7. lookup' \in [Registrars -> {"none", "own", "other", "lost"}]
  BY <1>1 DEF LostTo, VisitsOK
<1>8. VisitsOK'
  BY <1>1, <1>5, <1>6, <1>7, VisitEnds DEF VisitsOK
<1>9. WritersApart'
  BY <1>5, <1>6 DEF WritersApart
<1> QED BY <1>3, <1>4, <1>8, <1>9 DEF Caused

\* The steps of a registration before its commit, and its end without one.
LEMMA VisitSteps ==
  ASSUME TokensInv, NEW g \in Registrars,
         \/ BindDevice(g) \/ SelectOthers(g) \/ RollBackDevice(g)
         \/ \E t \in Tokens : ReapOther(g, t) \/ \E u \in Users : FindDevice(g, u, t)
  PROVE  TokensInv' /\ Caused
<1> USE DEF TokensInv
<1>1. UNCHANGED <<owner, gone, dead>>
  BY DEF BindDevice, SelectOthers, RollBackDevice, ReapOther, FindDevice, world, jobs
<1>2. ListsOK' /\ Caused
  BY <1>1 DEF ListsOK, Caused
<1>3. ASSUME /\ visit' \in [Registrars -> {"idle", "found", "bound", "reap"}]
             /\ caller' \in [Registrars -> Users \cup {NoUser}]
             /\ phone' \in [Registrars -> Tokens \cup {NoUser}]
             /\ lookup' \in [Registrars -> {"none", "own", "other", "lost"}]
             /\ others' \in [Registrars -> SUBSET Tokens] /\ reaped' \in [Registrars -> SUBSET Tokens],
             \A h \in Registrars \ {g} : /\ visit'[h] = visit[h] /\ caller'[h] = caller[h]
                                         /\ phone'[h] = phone[h] /\ others'[h] = others[h]
                                         /\ reaped'[h] = reaped[h] /\ lookup'[h] = lookup[h],
             VisitOK(g)', \A t \in Writes(g)' \ Writes(g) : ~Written(t)
      PROVE  TokensInv'
  <2>1. \A h \in Registrars \ {g} : VisitOK(h)' /\ Writes(h)' = Writes(h)
    BY <1>1, <1>3 DEF VisitsOK, VisitOK, Writes
  <2>2. WritersApart'
    BY <1>3, <2>1 DEF WritersApart, Written
  <2> QED BY <1>2, <1>3, <2>1, <2>2 DEF VisitsOK
<1>4. ASSUME EndVisit(g), lookup' = [lookup EXCEPT ![g] = "none"] PROVE TokensInv'
  <2>1. VisitOK(g)' /\ Writes(g)' = {}
    BY <1>4, VisitEnds DEF VisitOK, Writes
  <2>2. \A h \in Registrars \ {g} : lookup'[h] = lookup[h]
    BY <1>4 DEF VisitsOK
  <2>3. lookup' \in [Registrars -> {"none", "own", "other", "lost"}]
    BY <1>4 DEF VisitsOK
  <2> QED BY <1>3, <1>4, <2>1, <2>2, <2>3, VisitEnds
<1>5. /\ visit \in [Registrars -> {"idle", "found", "bound", "reap"}]
       /\ caller \in [Registrars -> Users \cup {NoUser}]
       /\ phone \in [Registrars -> Tokens \cup {NoUser}]
       /\ lookup \in [Registrars -> {"none", "own", "other", "lost"}]
       /\ others \in [Registrars -> SUBSET Tokens] /\ reaped \in [Registrars -> SUBSET Tokens]
  BY DEF VisitsOK
<1>6. CASE BindDevice(g)
  <2>1. CASE visit' = [visit EXCEPT ![g] = "bound"] /\ UNCHANGED <<caller, phone, lookup, others, reaped>>
    <3>1. visit[g] = "found" /\ visit'[g] = "bound" /\ (lookup[g] = "lost" \/ ~Written(phone[g]))
      BY <1>6, <2>1 DEF BindDevice, VisitsOK
    <3>2. VisitOK(g)'
      BY <1>1, <2>1, <3>1 DEF VisitsOK, VisitOK
    <3>3. \A t \in Writes(g)' \ Writes(g) : ~Written(t)
      BY <2>1, <3>1 DEF Writes
    <3>4. /\ visit' \in [Registrars -> {"idle", "found", "bound", "reap"}]
          /\ \A h \in Registrars \ {g} : visit'[h] = visit[h]
      BY <2>1 DEF VisitsOK
    <3> HIDE DEF TokensInv
    <3> QED BY <1>2, <1>3, <2>1, <3>2, <3>3, <3>4, <1>5
  <2>2. CASE EndVisit(g) /\ lookup' = [lookup EXCEPT ![g] = "none"]
    BY <1>2, <1>4, <2>2
  <2> QED BY <1>6, <2>1, <2>2 DEF BindDevice
<1>7. CASE SelectOthers(g)
  <2>1. /\ visit[g] = "bound" /\ visit' = [visit EXCEPT ![g] = "reap"]
        /\ others' = [others EXCEPT ![g] = {t \in Tokens \ {phone[g]} : owner[t] = caller[g]}]
        /\ UNCHANGED <<caller, phone, lookup, reaped>>
    BY <1>7 DEF SelectOthers
  <2>2. VisitOK(g)'
    BY <1>1, <2>1 DEF VisitsOK, VisitOK
  <2>3. Writes(g)' = Writes(g)
    BY <2>1 DEF Writes, VisitsOK
  <2>4. /\ visit' \in [Registrars -> {"idle", "found", "bound", "reap"}]
        /\ others' \in [Registrars -> SUBSET Tokens]
        /\ \A h \in Registrars \ {g} : visit'[h] = visit[h] /\ others'[h] = others[h]
    BY <2>1 DEF VisitsOK
  <2> HIDE DEF TokensInv
  <2> QED BY <1>2, <1>3, <2>1, <2>2, <2>3, <2>4, <1>5
<1>8. ASSUME NEW t \in Tokens, ReapOther(g, t) PROVE TokensInv'
  <2> DEFINE R == reaped[g] \cup (IF owner[t] = caller[g] THEN {t} ELSE {})
  <2>1. /\ visit[g] = "reap" /\ t \in others[g] /\ ~Written(t)
        /\ others' = [others EXCEPT ![g] = others[g] \ {t}] /\ reaped' = [reaped EXCEPT ![g] = R]
        /\ UNCHANGED <<visit, caller, phone, lookup>>
    BY <1>8 DEF ReapOther
  <2>2. others'[g] = others[g] \ {t} /\ reaped'[g] = R /\ R \subseteq Tokens
    BY <2>1 DEF VisitsOK
  <2>3. VisitOK(g)'
    BY <1>1, <2>1, <2>2 DEF VisitsOK, VisitOK
  <2>4. Writes(g)' \subseteq Writes(g) \cup {t}
    BY <2>1, <2>2 DEF Writes
  <2> QED BY <1>3, <2>1, <2>2, <2>3, <2>4 DEF VisitsOK
<1>9. ASSUME NEW t \in Tokens, NEW u \in Users, FindDevice(g, u, t) PROVE TokensInv'
  <2>1. /\ visit[g] = "idle" /\ visit' = [visit EXCEPT ![g] = "found"]
        /\ caller' = [caller EXCEPT ![g] = u] /\ phone' = [phone EXCEPT ![g] = t]
        /\ lookup' = [lookup EXCEPT ![g] = CASE owner[t] = NoUser -> "none" [] owner[t] = u -> "own"
                                                [] OTHER -> "other"]
        /\ UNCHANGED <<others, reaped>>
    BY <1>9 DEF FindDevice
  <2>3. (CASE owner[t] = NoUser -> "none" [] owner[t] = u -> "own" [] OTHER -> "other")
          \in {"none", "own", "other"}
    OBVIOUS
  <2>2. VisitOK(g)' /\ Writes(g)' = {}
    BY <1>1, <2>1 DEF VisitsOK, VisitOK, Writes
  <2>4. /\ visit' \in [Registrars -> {"idle", "found", "bound", "reap"}]
        /\ caller' \in [Registrars -> Users \cup {NoUser}]
        /\ phone' \in [Registrars -> Tokens \cup {NoUser}]
        /\ \A h \in Registrars \ {g} : visit'[h] = visit[h] /\ caller'[h] = caller[h] /\ phone'[h] = phone[h]
    BY <2>1 DEF VisitsOK
  <2>5. /\ lookup' \in [Registrars -> {"none", "own", "other", "lost"}]
        /\ \A h \in Registrars \ {g} : lookup'[h] = lookup[h]
    BY <2>1, <2>3, <1>5
  <2> HIDE DEF TokensInv
  <2> QED BY <1>3, <2>1, <2>2, <2>4, <2>5, <1>5
<1>10. RollBackDevice(g) => TokensInv'
  BY <1>4 DEF RollBackDevice
<1> QED BY <1>2, <1>6, <1>7, <1>8, <1>9, <1>10

\* Every step keeps it, and takes the binding of a handset for a reason only.
LEMMA TokensStep == ASSUME TokensInv, NotificationsNext PROVE TokensInv' /\ Caused
<1>1. ASSUME UNCHANGED <<owner, gone, dead, registrations>> PROVE TokensInv' /\ Caused
  BY <1>1, TokensKept DEF TokensInv, ListsOK
<1>2. ASSUME NEW w \in Workers, Work(w) PROVE TokensInv' /\ Caused
  <2>1. CASE Claim(w) \/ Query(w) \/ \E u \in Users : SendFcm(w, u)
    BY <1>1, <2>1 DEF Claim, Query, SendFcm, world
  <2>2. ASSUME NEW t \in Tokens, NEW answered \in BOOLEAN, Push(w, t, answered)
        PROVE  TokensInv' /\ Caused
    <3>1. /\ UNCHANGED <<owner, gone, registrations>>
          /\ dead' = [dead EXCEPT ![w] = IF IsStale(t, answered) THEN dead[w] \cup {t} ELSE dead[w]]
      BY <2>2 DEF Push, world
    <3>2. IsStale(t, answered) => t \in gone
      BY DEF IsStale
    <3> HIDE DEF IsStale
    <3>3. /\ dead' \in [Workers -> SUBSET Tokens]
          /\ \A v \in Workers : dead'[v] \subseteq dead[v] \cup gone
      BY <3>1, <3>2 DEF TokensInv, ListsOK
    <3> QED BY <3>1, <3>3, TokensKept
  <2> QED BY <1>2, <2>1, <2>2, JobCommits DEF Work
<1>3. ASSUME NEW w \in Workers,
             ClaimFailsOpen(w) \/ (\E k \in Reminders : Fire(w, k)) \/ \E S \in Audiences : SendBulk(w, S)
      PROVE  TokensInv' /\ Caused
  BY <1>1, <1>3 DEF ClaimFailsOpen, Fire, SendBulk, world
<1>4. ASSUME NEW w \in Workers, Cut(w) PROVE TokensInv' /\ Caused
  <2>1. UNCHANGED <<owner, gone, registrations>>
    BY <1>4 DEF Cut, world
  <2>2. dead' \in [Workers -> SUBSET Tokens] /\ \A v \in Workers : dead'[v] \subseteq dead[v]
    BY <1>4, EndJobEmpties DEF Cut, TokensInv, ListsOK
  <2> QED BY <2>1, <2>2, TokensKept
<1>5. ASSUME NEW g \in Registrars,
             RegisterDevice(g) \/ CutDevice(g) \/ \E u \in Users, t \in Tokens : FindDevice(g, u, t)
      PROVE  TokensInv' /\ Caused
  BY <1>5, VisitSteps, VisitCommits DEF RegisterDevice, CutDevice
<1>6. ASSUME NEW k \in Reminders, ExpireLock(k) PROVE TokensInv' /\ Caused
  BY <1>1, <1>6 DEF ExpireLock, world, jobs
<1>7. ASSUME NEW u \in Users, Tap(u) PROVE TokensInv' /\ Caused
  BY <1>1, <1>7 DEF Tap, jobs
<1>8. ASSUME NEW t \in Tokens, Uninstall(t) PROVE TokensInv' /\ Caused
  BY <1>8, TokensKept DEF Uninstall, jobs, TokensInv, ListsOK
<1> QED BY <1>2, <1>3, <1>4, <1>5, <1>6, <1>7, <1>8 DEF NotificationsNext

\* A handset loses its binding only to a registration that leaves its user another,
\* or has found its own row taken, or because FCM said that its token is gone,
\* however registrations overlap each other and the jobs, whatever times out and
\* whatever is cut (send_fcm, fcm_service.py; register_device,
\* notification_service.py).
THEOREM TokensLeaveForCause == NotificationsSpec => TokensDropped
<1>1. NotificationsInit => TokensInv
  BY NotificationsAssumption DEF NotificationsInit, TokensInv, ListsOK, VisitsOK, VisitOK,
    WritersApart, Writes
<1>2. TokensInv /\ [NotificationsNext]_notificationVars => TokensInv'
  <2>1. ASSUME TokensInv, UNCHANGED notificationVars PROVE TokensInv'
    BY <2>1, TokensKept DEF notificationVars, world, jobs, TokensInv, ListsOK
  <2> QED BY <2>1, TokensStep
<1>3. TokensInv /\ [NotificationsNext]_notificationVars =>
        [\A t \in Tokens : (owner[t] # NoUser /\ owner'[t] = NoUser) =>
           \/ t \in gone \/ \E s \in Tokens \ {t} : owner'[s] = owner[t]
           \/ \E g \in Registrars : caller[g] = owner[t] /\ RowTaken(g)]_notificationVars
  BY TokensStep DEF Caused, Cause
<1> QED BY <1>1, <1>2, <1>3, PTL DEF NotificationsSpec, TokensDropped
-----------------------------------------------------------------------------
(***************************************************************************)
(* Taps replayed by a device that was offline.                             *)
(***************************************************************************)

\* The sessions of a log.
Sess == [type : SessionTypes, ts : Nat]

\* No two of a log are duplicates of each other; a log holds one like record p.
NoneAlike(l) == \A i, j \in DOMAIN l : Alike(l[i], l[j]) => i = j
Stored(l, p) == \E i \in DOMAIN l : Alike(l[i], Records[p])

\* The pass over a batch, as a fold over its positions.
DecideAt(acc, k, s) == Decide(acc, s[k])
Decides == INSTANCE FoldFacts WITH Op <- DecideAt, Pick <- Max

\* FoldLeft takes the greatest position of a set.
LEMMA GreatestIsPicked ==
  ASSUME NEW n \in Nat
  PROVE  /\ Decides!Picks(1 .. n)
         /\ \A k \in 1 .. n : Max(1 .. k) = k
<1>2. ASSUME NEW t \in SUBSET (1 .. n), t # {} PROVE Max(t) \in t
  <2>1. \E x \in t : \A y \in t : x >= y
    BY <1>2, Decides!GreatestExists
  <2>2. QED BY <2>1 DEF Max
<1>3. ASSUME NEW k \in 1 .. n PROVE Max(1 .. k) = k
  <2>1. k \in 1 .. k /\ \A y \in 1 .. k : k >= y
    OBVIOUS
  <2>2. \A x \in 1 .. k : (\A y \in 1 .. k : x >= y) => x = k
    BY <2>1
  <2>3. QED BY <2>1, <2>2 DEF Max
<1>4. QED BY <1>2, <1>3 DEF Decides!Picks

\* FoldLeft decides the batch record by record.
LEMMA PassScans ==
  ASSUME NEW b, NEW n \in Nat, DOMAIN b = 1 .. n, NEW base
  PROVE  Decides!ScansTo(FoldLeft(Decide, base, b), base, b, n)
<1>1. FoldLeft(Decide, base, b) = (CHOOSE g : Decides!Folds(g, base, b, 1 .. n))[1 .. n]
  BY DEF FoldLeft, MapThenFoldSet, Decides!Folds, DecideAt
<1>2. QED BY <1>1, GreatestIsPicked, Decides!ChosenScans

\* After k records of batch b, read over log l: what was added makes no
\* duplicate, and every record so far is settled.
KeepsTaps(acc, l, b, k) ==
  /\ acc \in [seen : Seq(Sess), new : Seq(Sess)]
  /\ acc.seen = l \o acc.new
  /\ NoneAlike(l) => NoneAlike(acc.seen)
  /\ \A j \in 1 .. k : Unresolved(Records[b[j]]) \/ Stored(acc.seen, b[j])

\* Appending to a sequence of sessions.
LEMMA AppendIs ==
  ASSUME NEW a \in Seq(Sess), NEW x \in Sess
  PROVE  /\ DOMAIN Append(a, x) = 1 .. (Len(a) + 1) /\ Append(a, x)[Len(a) + 1] = x
         /\ (\A i \in DOMAIN a : /\ i \in DOMAIN Append(a, x)
                                 /\ Append(a, x)[i] = a[i] /\ a[i] \in Sess)
<1>1. DOMAIN a = 1 .. Len(a) /\ Len(a) \in Nat /\ (\A i \in 1 .. Len(a) : a[i] \in Sess)
  OBVIOUS
<1>2. /\ Append(a, x) \in Seq(Sess) /\ Len(Append(a, x)) = Len(a) + 1
      /\ (\A i \in 1 .. Len(a) : Append(a, x)[i] = a[i]) /\ Append(a, x)[Len(a) + 1] = x
  BY AppendProperties
<1>3. DOMAIN Append(a, x) = 1 .. (Len(a) + 1)
  BY <1>2
<1>4. QED BY <1>1, <1>2, <1>3

\* Appending goes through a concatenation.
LEMMA AppendOfConcat ==
  ASSUME NEW a \in Seq(Sess), NEW c \in Seq(Sess), NEW x \in Sess
  PROVE  Append(a \o c, x) = a \o Append(c, x)
<1>1. /\ a \o c \in Seq(Sess) /\ Append(c, x) \in Seq(Sess) /\ <<x>> \in Seq(Sess)
      /\ Append(a \o c, x) = (a \o c) \o <<x>> /\ Append(c, x) = c \o <<x>>
  BY AppendIsConcat, AppendProperties, ConcatProperties
<1>2. QED BY <1>1, ConcatAssociative

\* Deciding one more record keeps it.
LEMMA DecideKeeps ==
  ASSUME NEW acc, NEW l \in Seq(Sess), NEW b \in Seq(1 .. Len(Records)), NEW k \in 1 .. Len(b),
         KeepsTaps(acc, l, b, k - 1)
  PROVE  KeepsTaps(Decide(acc, b[k]), l, b, k)
<1> DEFINE r == Records[b[k]]
           s == Session(r)
<1>0. /\ r \in [type : SessionTypes, ts : Nat, named : BOOLEAN] /\ s \in Sess
      /\ b[k] \in 1 .. Len(Records) /\ s.type = r.type /\ s.ts = r.ts
  <2>1. b[k] \in 1 .. Len(Records)
    OBVIOUS
  <2>2. r \in [type : SessionTypes, ts : Nat, named : BOOLEAN]
    BY <2>1, OfflineReplayAssumption, ElementOfSeq
  <2>3. s.type = r.type /\ s.ts = r.ts
    BY DEF Session
  <2>4. s \in Sess
    BY <2>2 DEF Session, Sess
  <2>5. QED BY <2>1, <2>2, <2>3, <2>4
<1>1. IsDuplicate(acc.seen, r) = Stored(acc.seen, b[k])
  BY DEF IsDuplicate, Stored, Alike
<1>2. CASE Unresolved(r) \/ IsDuplicate(acc.seen, r)
  <2>1. Decide(acc, b[k]) = acc
    BY <1>2 DEF Decide
  <2>2. \A j \in 1 .. k : j = k \/ j \in 1 .. (k - 1)
    OBVIOUS
  <2>3. \A j \in 1 .. k : Unresolved(Records[b[j]]) \/ Stored(acc.seen, b[j])
    BY <1>1, <1>2, <2>2 DEF KeepsTaps
  <2>4. QED BY <2>1, <2>3 DEF KeepsTaps
<1>3. CASE ~(Unresolved(r) \/ IsDuplicate(acc.seen, r))
  <2> DEFINE new == Append(acc.new, s)
             seen == Append(acc.seen, s)
  <2>1. Decide(acc, b[k]) = [seen |-> seen, new |-> new]
    BY <1>3 DEF Decide
  <2> DEFINE was == acc.seen
             made == acc.new
  <2>2. was \in Seq(Sess) /\ made \in Seq(Sess) /\ was = l \o made
    BY DEF KeepsTaps
  <2>3. seen \in Seq(Sess) /\ new \in Seq(Sess) /\ seen = l \o new
    <3>0. seen = Append(was, s) /\ new = Append(made, s)
      OBVIOUS
    <3> HIDE DEF s, was, made, seen, new
    <3>1. seen \in Seq(Sess) /\ new \in Seq(Sess)
      BY <1>0, <2>2, <3>0, AppendProperties
    <3>2. Append(l \o made, s) = l \o Append(made, s)
      <4>1. s \in Sess /\ made \in Seq(Sess) /\ l \in Seq(Sess)
        BY <1>0, <2>2
      <4>2. QED BY ONLY <4>1, AppendOfConcat
    <3>3. QED BY <2>2, <3>0, <3>1, <3>2
  <2>4. /\ DOMAIN seen = 1 .. (Len(acc.seen) + 1) /\ seen[Len(acc.seen) + 1] = s
        /\ (\A i \in DOMAIN acc.seen : i \in DOMAIN seen /\ seen[i] = acc.seen[i] /\ acc.seen[i] \in Sess)
    <3>1. /\ DOMAIN Append(was, s) = 1 .. (Len(was) + 1) /\ Append(was, s)[Len(was) + 1] = s
          /\ (\A i \in DOMAIN was : /\ i \in DOMAIN Append(was, s)
                                   /\ Append(was, s)[i] = was[i] /\ was[i] \in Sess)
      <4> HIDE DEF s, was
      <4>1. s \in Sess /\ was \in Seq(Sess)
        BY <1>0, <2>2
      <4>2. QED BY ONLY <4>1, AppendIs
    <3> QED BY <3>1
  <2>5. NoneAlike(acc.seen) => NoneAlike(seen)
    <3> SUFFICES ASSUME NoneAlike(acc.seen), NEW i \in DOMAIN seen, NEW j \in DOMAIN seen,
                        Alike(seen[i], seen[j])
                 PROVE  i = j
      BY DEF NoneAlike
    <3>1. \A m \in DOMAIN acc.seen : ~Alike(acc.seen[m], s) /\ ~Alike(s, acc.seen[m])
      <4> SUFFICES ASSUME NEW m \in DOMAIN acc.seen PROVE ~Alike(acc.seen[m], s) /\ ~Alike(s, acc.seen[m])
        OBVIOUS
      <4> DEFINE o == acc.seen[m]
      <4>1. ~(o.type = r.type /\ o.ts - r.ts \in -Window .. Window)
        BY <1>3 DEF IsDuplicate
      <4>2. o.ts \in Nat /\ r.ts \in Nat
        BY <1>0, <2>4 DEF Sess
      <4> HIDE DEF o, r, s
      <4>3. Window \in Nat /\ s.type = r.type /\ s.ts = r.ts
        BY <1>0, OfflineReplayAssumption
      <4>5. o.ts - r.ts \in -Window .. Window <=> r.ts - o.ts \in -Window .. Window
        <5>1. \A x, y, w \in Nat : x - y \in -w .. w <=> y - x \in -w .. w
          OBVIOUS
        <5>2. QED BY <4>2, <4>3, <5>1
      <4>6. ~Alike(o, s)
        BY <4>1, <4>3 DEF Alike
      <4>7. ~Alike(s, o)
        BY <4>1, <4>3, <4>5 DEF Alike
      <4>4. QED BY <4>6, <4>7 DEF o
    <3>2. \A m \in DOMAIN seen : m = Len(acc.seen) + 1 \/ m \in DOMAIN acc.seen
      <4>1. DOMAIN was = 1 .. Len(was) /\ Len(was) \in Nat /\ DOMAIN seen = 1 .. (Len(was) + 1)
        <5> HIDE DEF seen, was
        <5>1. DOMAIN was = 1 .. Len(was) /\ Len(was) \in Nat
          BY <2>2
        <5>2. QED BY <2>4, <5>1 DEF was
      <4>2. \A w \in Nat : \A m \in 1 .. (w + 1) : m = w + 1 \/ m \in 1 .. w
        OBVIOUS
      <4> HIDE DEF seen
      <4>3. QED BY <4>1, <4>2, Zenon
    <3> HIDE DEF seen, s
    <3>3. QED BY <2>4, <3>1, <3>2 DEF NoneAlike
  <2>6. \A p \in 1 .. Len(Records) : Stored(acc.seen, p) => Stored(seen, p)
    <3> HIDE DEF seen, s
    <3> QED BY <2>4 DEF Stored
  <2>7. Stored(seen, b[k])
    <3>1. Alike(s, r)
      <4> HIDE DEF r, s
      <4>1. r.ts \in Nat /\ Window \in Nat
        BY <1>0, OfflineReplayAssumption
      <4>2. QED BY <1>0, <4>1 DEF Alike
    <3>2. Len(acc.seen) + 1 \in DOMAIN seen
      BY <2>2, <2>4
    <3> HIDE DEF seen, s
    <3>3. QED BY <2>4, <3>1, <3>2 DEF Stored
  <2>8. \A j \in 1 .. k : Unresolved(Records[b[j]]) \/ Stored(seen, b[j])
    <3>1. \A j \in 1 .. k : (j = k \/ j \in 1 .. (k - 1)) /\ b[j] \in 1 .. Len(Records)
      OBVIOUS
    <3> HIDE DEF seen, s
    <3>2. QED BY <2>6, <2>7, <3>1 DEF KeepsTaps
  <2>9. QED
    <3> HIDE DEF seen, new
    <3> QED BY <2>1, <2>3, <2>5, <2>8 DEF KeepsTaps
<1>4. QED BY <1>2, <1>3

\* So the whole pass does.
LEMMA PassKeeps ==
  ASSUME NEW l \in Seq(Sess), NEW b \in Seq(1 .. Len(Records))
  PROVE  KeepsTaps(FoldLeft(Decide, [seen |-> l, new |-> <<>>], b), l, b, Len(b))
<1> DEFINE base == [seen |-> l, new |-> <<>>]
           n == Len(b)
<1>1. Decides!ScansTo(FoldLeft(Decide, base, b), base, b, n)
  BY PassScans
<1>2. PICK acc : Decides!Scans(acc, base, b, n) /\ acc[n] = FoldLeft(Decide, base, b)
  BY <1>1 DEF Decides!ScansTo
<1>3. acc[0] = base /\ \A k \in 1 .. n : acc[k] = Decide(acc[k - 1], b[k])
  BY <1>2 DEF Decides!Scans, DecideAt
<1> DEFINE P == {k \in 0 .. n : KeepsTaps(acc[k], l, b, k)}
<1>4. 0 \in P
  <2>1. l \o <<>> = l /\ 0 \in 0 .. n /\ 1 .. 0 = {}
    OBVIOUS
  <2>2. KeepsTaps(base, l, b, 0)
    BY <2>1 DEF KeepsTaps
  <2>3. QED BY <1>3, <2>1, <2>2
<1>5. ASSUME NEW k \in 1 .. n, k - 1 \in P PROVE k \in P
  <2>1. KeepsTaps(Decide(acc[k - 1], b[k]), l, b, k)
    BY <1>5, DecideKeeps
  <2>2. QED BY <1>3, <2>1
<1>6. 0 .. n \subseteq P
  <2>1. n \in Nat
    OBVIOUS
  <2> HIDE DEF P, n
  <2> QED BY <1>4, <1>5, <2>1, Decides!SetInduction
<1>7. n \in P
  BY <1>6
<1>8. QED BY <1>2, <1>7

\* Where a handler is.
Turns == {"idle", "insert", "commit", "answer"}

\* x is in the log.
Holds(l, x) == \E j \in DOMAIN l : l[j] = x

\* What the proof needs of the types.
ReplayTyped ==
  /\ log \in Seq(Sess) /\ loaded \in [Handlers -> Seq(Sess)]
  /\ batch \in [Handlers -> Seq(1 .. Len(Records))]
  /\ turn \in [Handlers -> Turns]
  /\ tapped \in 0 .. Len(Records) /\ queue \subseteq 1 .. tapped

\* What a handler read is still in the log; what it is about to answer is there.
HandlerKnows(h) ==
  /\ \A i \in DOMAIN loaded[h] : Holds(log, loaded[h][i])
  /\ turn[h] = "answer" =>
       \A k \in 1 .. Len(batch[h]) :
         Unresolved(Records[batch[h][k]]) \/ Stored(log, batch[h][k])

\* A handler alone works on the log as it is.
AloneKnows ==
  overlaps \/ /\ \A g, h \in Handlers : turn[g] # "idle" /\ turn[h] # "idle" => g = h
              /\ \A h \in Handlers : turn[h] \in {"insert", "commit"} => loaded[h] = log
              /\ NoneAlike(log)

\* The inductive invariant.
ReplayInv ==
  /\ ReplayTyped
  /\ \A h \in Handlers : HandlerKnows(h)
  /\ \A p \in (1 .. tapped) \ queue : Stored(log, p)
  /\ AloneKnows

\* A longer log still holds, and still stores, what the shorter one did.
LEMMA LongerLog ==
  ASSUME NEW l \in Seq(Sess), NEW m \in Seq(Sess), NEW n \in Seq(Sess),
         \A i \in DOMAIN l : Holds(m, l[i])
  PROVE  /\ \A p : Stored(l \o n, p) => Stored(m \o n, p)
         /\ \A p : Stored(m, p) => Stored(m \o n, p)
         /\ \A x : Holds(m, x) => Holds(m \o n, x)
         /\ m \o n \in Seq(Sess)
<1>1. /\ DOMAIN m = 1 .. Len(m) /\ DOMAIN l = 1 .. Len(l) /\ DOMAIN n = 1 .. Len(n)
      /\ Len(m) \in Nat /\ Len(l) \in Nat /\ Len(n) \in Nat
      /\ DOMAIN (m \o n) = 1 .. (Len(m) + Len(n)) /\ DOMAIN (l \o n) = 1 .. (Len(l) + Len(n))
  OBVIOUS
<1>2. /\ \A i \in DOMAIN m : i \in DOMAIN (m \o n) /\ (m \o n)[i] = m[i]
      /\ \A i \in DOMAIN n : Len(m) + i \in DOMAIN (m \o n) /\ (m \o n)[Len(m) + i] = n[i]
  BY <1>1
<1>3. ASSUME NEW i \in DOMAIN (l \o n) PROVE Holds(m \o n, (l \o n)[i])
  <2>1. CASE i \in DOMAIN l
    <3>1. (l \o n)[i] = l[i]
      BY <1>1, <2>1
    <3>2. PICK j \in DOMAIN m : m[j] = l[i]
      BY <2>1 DEF Holds
    <3>3. QED BY <1>2, <3>1, <3>2 DEF Holds
  <2>2. CASE i \notin DOMAIN l
    <3>1. i - Len(l) \in DOMAIN n /\ (l \o n)[i] = n[i - Len(l)]
      BY <1>1, <2>2
    <3>2. QED BY <1>2, <3>1 DEF Holds
  <2>3. QED BY <2>1, <2>2
<1>4. \A p : Stored(l \o n, p) => Stored(m \o n, p)
  BY <1>3 DEF Stored, Holds
<1>5. \A p : Stored(m, p) => Stored(m \o n, p)
  BY <1>2 DEF Stored
<1>6. \A x : Holds(m, x) => Holds(m \o n, x)
  BY <1>2 DEF Holds
<1>7. QED BY <1>4, <1>5, <1>6

\* The day before the first tap.
LEMMA InitReplay == ReplayInit => ReplayInv
<1> SUFFICES ASSUME ReplayInit PROVE ReplayInv
  OBVIOUS
<1>1. log = <<>> \/ log = <<[type |-> "START", ts |-> 1]>>
  BY DEF ReplayInit
<1>2. log \in Seq(Sess) /\ (\A i, j \in DOMAIN log : i = j)
  <2>1. [type |-> "START", ts |-> 1] \in Sess
    BY DEF Sess, SessionTypes
  <2>2. CASE log = <<>>
    BY <2>2
  <2>3. CASE log = <<[type |-> "START", ts |-> 1]>>
    <3> DEFINE x == [type |-> "START", ts |-> 1]
    <3> HIDE DEF x
    <3>1. <<x>> \in Seq(Sess) /\ DOMAIN <<x>> = 1 .. 1
      BY <2>1 DEF x
    <3>2. QED BY <2>3, <3>1 DEF x
  <2>4. QED BY <1>1, <2>2, <2>3
<1>3. ReplayTyped
  BY <1>2, OfflineReplayAssumption DEF ReplayInit, ReplayTyped, Turns
<1>4. \A h \in Handlers : HandlerKnows(h)
  BY DEF ReplayInit, HandlerKnows
<1>5. \A p \in (1 .. tapped) \ queue : Stored(log, p)
  BY DEF ReplayInit
<1>6. AloneKnows
  BY <1>2 DEF ReplayInit, AloneKnows, NoneAlike
<1>7. QED BY <1>3, <1>4, <1>5, <1>6 DEF ReplayInv

\* Every step keeps it, one case per action.
LEMMA NextReplay == ReplayInv /\ [ReplayNext]_replayVars => ReplayInv'
<1> SUFFICES ASSUME ReplayInv, [ReplayNext]_replayVars PROVE ReplayInv'
  OBVIOUS
<1>0. /\ ReplayTyped /\ (\A h \in Handlers : HandlerKnows(h))
      /\ (\A p \in (1 .. tapped) \ queue : Stored(log, p)) /\ AloneKnows
  BY DEF ReplayInv
<1>1. CASE TapOffline
  <2>1. /\ UNCHANGED <<row, log, turn, batch, loaded, overlaps>>
        /\ tapped' = tapped + 1 /\ tapped' \in 0 .. Len(Records)
        /\ queue' = queue \cup {tapped'}
    BY <1>0, <1>1, OfflineReplayAssumption DEF TapOffline, ReplayTyped
  <2>2. (1 .. tapped') \ queue' \subseteq (1 .. tapped) \ queue /\ queue' \subseteq 1 .. tapped'
    BY <1>0, <2>1 DEF ReplayTyped
  <2>3. ReplayTyped'
    BY <1>0, <2>1, <2>2 DEF ReplayTyped
  <2>4. \A h \in Handlers : HandlerKnows(h)'
    BY <1>0, <2>1 DEF HandlerKnows, Unresolved, Stored, Holds, Alike
  <2>5. (\A p \in (1 .. tapped) \ queue : Stored(log, p))'
    BY <1>0, <2>1, <2>2 DEF Stored, Alike
  <2>6. AloneKnows'
    BY <1>0, <2>1 DEF AloneKnows, NoneAlike, Alike
  <2>7. QED BY <2>3, <2>4, <2>5, <2>6 DEF ReplayInv
<1>2. ASSUME NEW h \in Handlers, SyncAttendanceSessions(h) PROVE ReplayInv'
  <2>1. PICK pending \in SetToSeqs(queue) : batch' = [batch EXCEPT ![h] = pending]
    BY <1>2 DEF SyncAttendanceSessions
  <2>2. pending \in Seq(1 .. Len(Records))
    <3>1. IsFiniteSet(queue)
      <4>1. queue \subseteq 1 .. tapped /\ tapped \in Int
        BY <1>0 DEF ReplayTyped
      <4>2. IsFiniteSet(1 .. tapped)
        BY <4>1, FS_Interval
      <4>3. QED BY <4>1, <4>2, FS_Subset
    <3>2. Cardinality(queue) \in Nat
      BY <3>1, FS_CardinalityType
    <3>3. pending \in [1 .. Cardinality(queue) -> queue]
      BY DEF SetToSeqs
    <3>4. queue \subseteq 1 .. Len(Records)
      BY <1>0, OfflineReplayAssumption DEF ReplayTyped
    <3> DEFINE c == Cardinality(queue)
               R == 1 .. Len(Records)
    <3>5. c \in Nat /\ pending \in [1 .. c -> R]
      BY <3>2, <3>3, <3>4
    <3> HIDE DEF c, R
    <3>6. pending \in Seq(R)
      BY <3>5, SeqDef
    <3>7. QED BY <3>6 DEF R
  <2>3. /\ UNCHANGED <<row, log, tapped, queue>> /\ turn[h] = "idle"
        /\ loaded' = [loaded EXCEPT ![h] = log]
        /\ \E p \in {"insert", "commit"} : turn' = [turn EXCEPT ![h] = p]
    BY <1>2 DEF SyncAttendanceSessions, GoTo
  <2>4. overlaps' = (overlaps \/ \E g \in Handlers : turn[g] # "idle")
    BY <1>2 DEF SyncAttendanceSessions
  <2>5. /\ turn'[h] \in {"insert", "commit"} /\ loaded'[h] = log
        /\ \A g \in Handlers : g # h =>
             turn'[g] = turn[g] /\ loaded'[g] = loaded[g] /\ batch'[g] = batch[g]
    BY <1>0, <2>1, <2>3 DEF ReplayTyped
  <2>6. ReplayTyped'
    BY <1>0, <2>1, <2>2, <2>3 DEF ReplayTyped, Turns
  <2>7. ASSUME NEW g \in Handlers PROVE HandlerKnows(g)'
    <3>1. CASE g = h
      BY <2>3, <2>5, <3>1 DEF HandlerKnows, Holds
    <3>2. CASE g # h
      BY <1>0, <2>3, <2>5, <3>2 DEF HandlerKnows, Unresolved, Stored, Holds, Alike
    <3>3. QED BY <3>1, <3>2
  <2>8. (\A p \in (1 .. tapped) \ queue : Stored(log, p))'
    BY <1>0, <2>3 DEF Stored, Alike
  <2>9. AloneKnows'
    <3>1. ASSUME ~overlaps' PROVE ~overlaps /\ \A g \in Handlers : turn[g] = "idle"
      BY <2>4, <3>1, Zenon
    <3>2. ASSUME ~overlaps' PROVE \A g \in Handlers : turn'[g] # "idle" => g = h
      BY <2>5, <3>1, <3>2
    <3>3. ASSUME ~overlaps'
          PROVE  /\ \A g \in Handlers : turn'[g] \in {"insert", "commit"} => loaded'[g] = log'
                 /\ NoneAlike(log)'
      BY <1>0, <2>3, <2>5, <3>1, <3>2, <3>3 DEF AloneKnows, NoneAlike, Alike
    <3>4. QED BY <3>2, <3>3 DEF AloneKnows
  <2>10. QED BY <2>6, <2>7, <2>8, <2>9 DEF ReplayInv
<1>3. ASSUME NEW h \in Handlers, InsertRow(h) PROVE ReplayInv'
  <2>1. /\ UNCHANGED <<row, log, tapped, queue, overlaps>> /\ turn[h] = "insert"
        /\ \/ turn' = [turn EXCEPT ![h] = "commit"] /\ UNCHANGED <<batch, loaded>>
           \/ /\ turn' = [turn EXCEPT ![h] = "idle"] /\ batch' = [batch EXCEPT ![h] = <<>>]
              /\ loaded' = [loaded EXCEPT ![h] = <<>>]
    BY <1>3 DEF InsertRow, GoTo
  <2>2. /\ \/ turn'[h] = "commit" /\ loaded'[h] = loaded[h]
           \/ turn'[h] = "idle" /\ loaded'[h] = <<>>
        /\ \A g \in Handlers : g # h =>
             turn'[g] = turn[g] /\ loaded'[g] = loaded[g] /\ batch'[g] = batch[g]
    BY <1>0, <2>1 DEF ReplayTyped
  <2>3. ReplayTyped'
    <3>1. <<>> \in Seq(Sess) /\ <<>> \in Seq(1 .. Len(Records)) /\ {"commit", "idle"} \subseteq Turns
      BY EmptySeq DEF Turns
    <3>2. turn' \in [Handlers -> Turns]
      BY <1>0, <2>1, <3>1 DEF ReplayTyped
    <3>3. loaded' \in [Handlers -> Seq(Sess)] /\ batch' \in [Handlers -> Seq(1 .. Len(Records))]
      BY <1>0, <2>1, <3>1 DEF ReplayTyped
    <3>4. QED BY <1>0, <2>1, <3>2, <3>3 DEF ReplayTyped
  <2>4. ASSUME NEW g \in Handlers PROVE HandlerKnows(g)'
    <3>1. CASE g = h
      <4>1. turn'[g] # "answer"
        BY <2>2, <3>1
      <4>2. \A i \in DOMAIN loaded'[g] : Holds(log', loaded'[g][i])
        BY <1>0, <2>1, <2>2, <3>1 DEF HandlerKnows
      <4>3. QED BY <4>1, <4>2 DEF HandlerKnows, Holds
    <3>2. CASE g # h
      <4>1. UNCHANGED <<row, log, loaded[g], batch[g], turn[g]>>
        BY <2>1, <2>2, <3>2
      <4>2. HandlerKnows(g)
        BY <1>0
      <4>3. QED BY <4>1, <4>2 DEF HandlerKnows, Unresolved, Stored, Holds, Alike
    <3>3. QED BY <3>1, <3>2
  <2>5. (\A p \in (1 .. tapped) \ queue : Stored(log, p))'
    BY <1>0, <2>1 DEF Stored, Alike
  <2>6. AloneKnows'
    BY <1>0, <2>1, <2>2 DEF AloneKnows, NoneAlike, Alike
  <2>7. QED BY <2>3, <2>4, <2>5, <2>6 DEF ReplayInv
<1>4. ASSUME NEW h \in Handlers, CommitReplay(h) PROVE ReplayInv'
  <2> DEFINE n == New(h)
             b == batch[h]
             l == loaded[h]
             F == FoldLeft(Decide, [seen |-> l, new |-> <<>>], b)
  <2>1. l \in Seq(Sess) /\ b \in Seq(1 .. Len(Records)) /\ log \in Seq(Sess)
    BY <1>0 DEF ReplayTyped
  <2>2. KeepsTaps(F, l, b, Len(b)) /\ n = F.new
    <3>1. n = F.new
      BY DEF New
    <3> HIDE DEF n
    <3>2. KeepsTaps(FoldLeft(Decide, [seen |-> l, new |-> <<>>], b), l, b, Len(b))
      <4> HIDE DEF l, b
      <4> QED BY <2>1, PassKeeps
    <3>3. QED BY <3>1, <3>2
  <2>3. /\ n \in Seq(Sess) /\ (NoneAlike(l) => NoneAlike(l \o n))
        /\ \A k \in 1 .. Len(b) : Unresolved(Records[b[k]]) \/ Stored(l \o n, b[k])
    <3> HIDE DEF F, n, l, b
    <3> QED BY <2>2 DEF KeepsTaps
  <2>4. /\ UNCHANGED <<tapped, queue, batch, loaded, overlaps>> /\ turn[h] = "commit"
        /\ turn' = [turn EXCEPT ![h] = "answer"] /\ (row' = "named" <=> row = "named")
    BY <1>4 DEF CommitReplay, GoTo
  <2>5. log' = log \o n
    <3>1. (n = <<>> /\ log' = log) \/ log' = log \o n
      BY <1>4 DEF CommitReplay
    <3> HIDE DEF n
    <3>2. QED BY <2>1, <3>1
  <2>6. /\ \A p : Stored(l \o n, p) => Stored(log \o n, p)
        /\ \A p : Stored(log, p) => Stored(log \o n, p)
        /\ \A x : Holds(log, x) => Holds(log \o n, x)
        /\ log \o n \in Seq(Sess)
    <3>1. \A i \in DOMAIN l : Holds(log, l[i])
      BY <1>0 DEF HandlerKnows
    <3> HIDE DEF n, l
    <3>2. QED BY <2>1, <2>3, <3>1, LongerLog
  <2>7. /\ turn'[h] = "answer" /\ \A g \in Handlers : g # h => turn'[g] = turn[g]
    BY <1>0, <2>4 DEF ReplayTyped
  <2>8. /\ \A p : Stored(l \o n, p) => Stored(log', p)
        /\ \A p : Stored(log, p) => Stored(log', p)
        /\ \A x : Holds(log, x) => Holds(log', x)
    <3> HIDE DEF n, l
    <3> QED BY <2>5, <2>6
  <2>9. ReplayTyped'
    <3> HIDE DEF n
    <3> QED BY <1>0, <2>4, <2>5, <2>6 DEF ReplayTyped, Turns
  <2>10. ASSUME NEW g \in Handlers PROVE HandlerKnows(g)'
    <3> HIDE DEF n
    <3>1. \A i \in DOMAIN loaded[g] : Holds(log', loaded[g][i])
      BY <1>0, <2>8 DEF HandlerKnows
    <3>2. turn'[g] = "answer" =>
            \A k \in 1 .. Len(batch[g]) :
              Unresolved(Records[batch[g][k]]) \/ Stored(log', batch[g][k])
      <4>1. CASE g = h
        BY <2>3, <2>8, <4>1
      <4>2. CASE g # h
        BY <1>0, <2>7, <2>8, <4>2 DEF HandlerKnows
      <4>3. QED BY <4>1, <4>2
    <3>3. QED BY <2>4, <3>1, <3>2 DEF HandlerKnows, Unresolved, Stored, Holds, Alike
  <2>11. (\A p \in (1 .. tapped) \ queue : Stored(log, p))'
    <3> HIDE DEF n
    <3>1. \A p \in (1 .. tapped) \ queue : Stored(log', p)
      BY <1>0, <2>8
    <3>2. QED BY <2>4, <3>1 DEF Stored, Alike
  <2>12. AloneKnows'
    <3> HIDE DEF n
    <3>1. ASSUME ~overlaps PROVE l = log /\ NoneAlike(log)
      BY <1>0, <2>4, <3>1 DEF AloneKnows
    <3> HIDE DEF l
    <3>2. ASSUME ~overlaps PROVE NoneAlike(log)'
      <4>1. NoneAlike(log \o n)
        BY <2>3, <3>1, <3>2
      <4>2. QED BY <2>5, <4>1 DEF NoneAlike, Alike
    <3>3. ASSUME ~overlaps, NEW f \in Handlers, NEW g \in Handlers,
                 turn'[f] # "idle", turn'[g] # "idle"
          PROVE  f = g
      BY <1>0, <2>4, <2>7, <3>3 DEF AloneKnows
    <3>4. ASSUME ~overlaps, NEW g \in Handlers PROVE turn'[g] \notin {"insert", "commit"}
      <4>1. turn'[g] # "idle" => g = h
        BY <2>7, <3>3, <3>4
      <4>2. QED BY <2>7, <4>1
    <3>5. QED BY <2>4, <3>2, <3>3, <3>4 DEF AloneKnows
  <2>13. QED BY <2>9, <2>10, <2>11, <2>12 DEF ReplayInv
<1>5. ASSUME NEW h \in Handlers, NEW lost \in BOOLEAN, AnswerReplay(h, lost) PROVE ReplayInv'
  <2>1. /\ UNCHANGED <<row, log, tapped, overlaps>> /\ turn[h] = "answer"
        /\ turn' = [turn EXCEPT ![h] = "idle"] /\ batch' = [batch EXCEPT ![h] = <<>>]
        /\ loaded' = [loaded EXCEPT ![h] = <<>>]
        /\ queue' = queue \/ queue' = queue \ Settled(h)
    BY <1>5 DEF AnswerReplay, GoTo
  <2>2. /\ turn'[h] = "idle" /\ loaded'[h] = <<>>
        /\ \A g \in Handlers : g # h =>
             turn'[g] = turn[g] /\ loaded'[g] = loaded[g] /\ batch'[g] = batch[g]
    BY <1>0, <2>1 DEF ReplayTyped
  <2>3. ReplayTyped'
    <3>1. <<>> \in Seq(Sess) /\ <<>> \in Seq(1 .. Len(Records)) /\ "idle" \in Turns
      BY EmptySeq DEF Turns
    <3>2. turn' \in [Handlers -> Turns]
      BY <1>0, <2>1, <3>1 DEF ReplayTyped
    <3>3. loaded' \in [Handlers -> Seq(Sess)] /\ batch' \in [Handlers -> Seq(1 .. Len(Records))]
      BY <1>0, <2>1, <3>1 DEF ReplayTyped
    <3>4. queue' \subseteq 1 .. tapped'
      BY <1>0, <2>1 DEF ReplayTyped
    <3>5. QED BY <1>0, <2>1, <3>2, <3>3, <3>4 DEF ReplayTyped
  <2>4. ASSUME NEW g \in Handlers PROVE HandlerKnows(g)'
    <3>1. CASE g = h
      BY <2>2, <3>1 DEF HandlerKnows
    <3>2. CASE g # h
      BY <1>0, <2>1, <2>2, <3>2 DEF HandlerKnows, Unresolved, Stored, Holds, Alike
    <3>3. QED BY <3>1, <3>2
  <2>5. ASSUME NEW p \in Settled(h) PROVE Stored(log, p)
    <3>1. p \in Range(batch[h]) /\ ~Unresolved(Records[p])
      BY <2>5 DEF Settled
    <3>2. PICK k \in DOMAIN batch[h] : batch[h][k] = p
      BY <3>1 DEF Range
    <3>3. k \in 1 .. Len(batch[h])
      BY <1>0 DEF ReplayTyped
    <3>4. QED BY <1>0, <2>1, <3>1, <3>2, <3>3 DEF HandlerKnows
  <2>6. \A p \in (1 .. tapped') \ queue' : Stored(log, p)
    BY <1>0, <2>1, <2>5
  <2>7. (\A p \in (1 .. tapped) \ queue : Stored(log, p))'
    BY <2>1, <2>6 DEF Stored, Alike
  <2>8. AloneKnows'
    BY <1>0, <2>1, <2>2 DEF AloneKnows, NoneAlike, Alike
  <2>9. QED BY <2>3, <2>4, <2>7, <2>8 DEF ReplayInv
<1>6. CASE UNCHANGED replayVars
  BY <1>0, <1>6 DEF replayVars, ReplayInv, ReplayTyped, HandlerKnows, AloneKnows, NoneAlike,
                    Unresolved, Stored, Holds, Alike
<1>7. QED BY <1>1, <1>2, <1>3, <1>4, <1>5, <1>6 DEF ReplayNext

\* A tap that left the device's queue is stored, or one like it is, and the day
\* holds it once unless two replays overlapped, for any taps, window and number
\* of handlers (sync_attendance_sessions, sync_service.py).
THEOREM TapsSettleOnce == ReplaySpec => []SettledOnce
<1>1. ReplayInv => SettledOnce
  BY DEF ReplayInv, AloneKnows, NoneAlike, Stored, SettledOnce
<1>2. QED BY InitReplay, NextReplay, <1>1, PTL DEF ReplaySpec
=============================================================================
