# FieldTrack: specifications and proofs

FieldTrack tracks field employees' working days: a FastAPI server
(`app/`, two uvicorn workers over Postgres and Redis), a Flutter app with a
local SQLite queue (`mobile/lib/`), and a React console (`admin-web/src/`).
This directory holds TLA+ models of the parts that carry its logic, the
configurations TLC checks them with, and proofs checked by TLAPS.

## 1. Inventory

| Component | State | Operations | Hard part |
|---|---|---|---|
| Attendance (`attendance_service.py`) | a row per user and day, its sessions, a Redis hash with the state | START, BREAK, RESUME, END taps; manual sessions; get_today; override_status | overlapping requests, Redis written before the commit, midnight, corrections out of order |
| Worked time (`calculate_duration`, `_state_of`) | none | fold over the sessions sorted by instant | corrections in the middle, open intervals |
| Offline attendance sync (`sync_service.py`) | the same rows and sessions | merge a batch of device sessions | idempotence, two replays at once, a stale collection |
| Location ingest (`location_service.py`) | location rows, claims (`SET NX`), live position | ingest a batch; live view, trails | crash between claim and insert, retries, out-of-order batches |
| Live map (`ws.py`, `_live_points_for`) | a subscription per console | snapshot at each message and every 15 s | lost messages, a snapshot that reads while it changes |
| Geofences (`geofence_service.py`) | zones and events in Postgres; presence is the last event | create, update, delete, entry and exit detection | presence against zone changes, team changes and late fixes; four accounts of the time inside |
| Authentication (`auth_service.py`) | refresh fingerprint, blacklist, reset codes | login, refresh, logout, forgot and reset password, deactivation | rotation races, logout against refresh |
| Mobile sync engine (`sync_engine.dart`, `database_helper.dart`, `location_sync_service.dart`) | pending, failed and synced rows; a lock; a backoff timer | syncNow, flush, markSynced, markFailed, requeue, prune | a lock taken after an await, two uploaders, poison rows, lost answers, kills |
| Mobile API client (`api_client.dart`) | tokens, one refresh in flight | 401 handling, forced logout | single flight |
| Mobile attendance (`attendance_provider.dart`) | shown state, local row, the tracker | optimistic tap, rollback, reload | a reload overtaking a tap, a lost answer |
| Teams and employees | names, leaders, membership, active flags | create, rename, delete, add, remove, deactivate | adding to a team that is being deleted |
| Lists | cursor | keyset pages | rows that come and go between two pages |
| Reports | job hash and file | create, run, download, prune; the tables | a job that dies or outlives its key; tables that disagree |
| Notifications | device tokens, notifications | register, send, mark stale | a token that moves between users |
| Scheduled jobs (`scheduler.py`, `sync_cleanup.py`) | claim keys, archive | reminders, key sweep, cleanup | two workers, misfires, a crash in between |

How they interact. Every server operation is an asyncio task in one of two
worker processes (`Dockerfile`), with a database session of its own at READ
COMMITTED; operations meet only in Postgres (rows, UNIQUE indexes, row locks)
and in Redis (single commands are atomic, pairs of commands are not, keys with a
TTL may be evicted). The device reaches the server by HTTP; a request or its
answer can be lost and the handler goes on regardless. On the device the engine,
the flush and the recorder of fixes share one SQLite table, from two isolates.
An END tap stops the tracker and starts a flush. The ingest of a batch calls the
geofence check, which reads zones and team membership that administrators
change, and publishes to the consoles that are connected.

What makes each component correct, in one line: a day's sessions follow the
machine, and the totals and the cached state follow the sessions; a replayed
session is applied once; a fix is stored exactly once, and the device drops it
only when it is; an event is the crossing of a boundary that applies to the
employee, and whoever counts the time inside counts the same; one session per
user, ended for good by logout; the app comes to show what the server has; a
member belongs to an active team; a report that is READY has a file, and all
reports count the same rows; a push goes to the user who holds the handset; a
job runs once a day; what is archived is whole. PROJECT.json lists the hazards
behind these lines, each at its line of code.

## 2. Modules

| Module | Models | Extends |
|---|---|---|
| `WorkLog` | the vocabulary of a day: session types, transition table, state of a log, worked time | - |
| `WorkDay` | abstract specification: what every day promises | `WorkLog` |
| `Attendance` | `AttendanceService`: taps and manual sessions, await by await | `WorkLog`; `WorkDay` through INSTANCE |
| `DayLogs` | every log a day can hold, and the algorithms that read it | `WorkLog` |
| `OfflineReplay` | `SyncService`: the replay of offline taps | `WorkLog` |
| `TapScreen` | the app's screen, its taps and reloads, and the tracker | `WorkLog` |
| `Geofence` | zones, team, events | - |
| `LocationIngest` | `POST /location/batch` with claims, live position and geofence check | `Geofence` |
| `FixDelivery` | abstract specification: what device and server promise of every fix | - |
| `SyncEngine` | the device's queue and its uploaders, composed with the handlers | `LocationIngest`; `FixDelivery` through INSTANCE |
| `LiveFeed` | from a committed fix to the console's map | - |
| `Trail` | the simplification of a track for the replay | - |
| `ZoneTimes` | four accounts of the time in a zone | - |
| `Sessions` | login sessions, on the server and on the devices | - |
| `Notifications` | reminders, announcements, handsets | - |
| `Pages` | a client walking a list by keyset pages | - |
| `Staff` | teams, names, leaders, members | - |
| `ReportJobs`, `DayReports` | the life of a report; what the reports say and to whom | - |
| `Housekeeping` | archive, keys without TTL, rate limiter | - |
| `FoldFacts` | lemmas: what the folds of the community modules compute | `TLAPS` and its theorems |
| `AttendanceProofs` | theorems: requests that overlap; one request at a time | `Attendance` |
| `LocationProofs` | theorems: the ingest, alone and behind the device's queue; `FixDelivery` | `SyncEngine` |
| `AccountProofs` | theorems: login sessions, teams and names | `Sessions`, `Staff` |
| `JobProofs` | theorems: reports' jobs, housekeeping, notifications, replay | `ReportJobs`, `Housekeeping`, `Notifications`, `OfflineReplay` |
| `ReportProofs` | theorems: the tables of the reports | `DayReports` |
| `ViewProofs` | theorems: pages, tracks, the live map, the time in a zone, the readers of a day, the app's screen | `Pages`, `Trail`, `LiveFeed`, `ZoneTimes`, `DayLogs`, `TapScreen`, `ReportProofs` |
| `ServiceProofs` | theorems: the services side by side, and their types | `MCServices`, `AccountProofs`, `JobProofs`, `ViewProofs` |
| `MCAttendance`, `MCLocationIngest`, `MCSyncEngine`, `MCReplay` | instances for TLC | the module they are named after |
| `MCPhone` | the sync engine and the attendance screen, one per behaviour | `MCSyncEngine`, `TapScreen` |
| `MCServices` | the services of the server that share no state, one per behaviour | twelve modules |

Definitions called `Bug...` are plausible mistakes in the code (a dropped guard,
a swapped order). The specifications do not use them; put in the place of the
definition they stand beside, each breaks one property, which shows that the
property says something about the code.

### Attendance

One employee: every query and key of the service is scoped to one user. The
requests of `Requests` are handlers that may overlap. `pc[r]` is the await the
handler is suspended at, `req[r]`, `loaded[r]` and `total[r]` are the local
variables of its coroutine. A transaction's writes are in those until `Commit`
adds them to `rows`, `log`, `minutes` and `summary`.

| Code | Actions |
|---|---|
| `transition_state` 156-218 | `Tap` (day, row and sessions read), `Reject` or `Accept`, then the three below |
| `_do_start`, `_append_session` | `InsertRow`, `LoseStartRace`; `AppendSession` |
| END's rollup and the flush before the distance query | `UpdateRollup` |
| `_write_redis_state` | `HsetState`, `SetExpiry` |
| `commit`, read back | `Commit`, `Answer` |
| `add_manual_session` 381-430 | `Manual`, then `AppendSession`, `HsetState`, `SetExpiry`, `Commit`, `Answer` |
| a worker dies, a statement fails | `Fail` |
| UTC midnight, `volatile-lru` | `Midnight`, `Evict` |

Two waits in Postgres matter and are guards: an INSERT waits for another
transaction's pending INSERT of the same (user, date) (`InsertPending`), an
UPDATE of the row for the END that has updated it (`RowIsFree`, `RowLocked`).
A new session also takes a key share lock on its row, for the foreign key; the
UPDATE sets no key column and does not wait for it. No request touches two rows
or two index entries, so the one circle there could be is two requests that hold
that share and each want the row stronger: `BugReadForUpdate` does, with
`with_for_update()` on the row before the total. PostgreSQL would fail one of
the two, which the model would show as a request that is not answered. Instants are
integers; taps take even ones in the order they are accepted, corrections odd
ones anywhere. The state of a log is that of its latest instant, as in
`_state_of`, and not of its last element.

### Geofence and LocationIngest

One employee again. A fix is its device timestamp, because that is how the
service identifies it within a user; `Place` gives the point it was taken at, and
a zone is the set of points it contains. `count[f]` is the number of rows of
fix `f`, so a duplicate is a `count` above one.

| Code | Actions |
|---|---|
| route, authentication, `ingest_batch` 153-161 | `Arrive`, `Begin` |
| the loop 161-194 | `RefuseFuture`, `Claim`, `Skip` |
| `latest_for_user` | `ReadPrevious` or `NothingAccepted` |
| bulk insert and commit | `Insert` |
| `_update_live_cache` | `HsetLive`, `ExpireLive` |
| `check_geofence_events` | `FindInside`, `FindWas`, `RecordEvents`, `SwallowGeofenceError` |
| answer, failure | `Respond`, `Fail` |
| Redis | `LoseClaim`, `LoseLive` |
| `GeofenceService.create`, `update`, `soft_delete`; changes of the employee's team | `CreateZone`, `UpdateZone`, `SoftDelete`, `MoveEmployee` |

The team is the one loaded when the request was authenticated: the session is
made with `expire_on_commit=False`.

### SyncEngine

`queue[f]` is `sync_status` of the row of fix `f`. The uploaders are calls of
`syncNow` (`Engines`) and of `flushPendingLocations` (`Flushers`). `syncNow`
looks at its lock *before* the await of the connectivity check and takes it
*after*, so two calls can pass; the flush does not look at the lock at all. Both
then do the same: `Requeue`, and until nothing is pending `ReadBatch`, `Post`,
and `MarkSynced` or `MarkFailed`; both end with `Finish`. `Post` begins a handler
of `LocationIngest`, `Answered` takes that handler's answer, `Lost` gives up on
it while it goes on. `Kill` is the death of the app: the rows stay, the lock and
the passes go. `Poison` are the fixes the request's schema refuses: one of them
fails its whole batch with 422.

`FixDelivery` knows no queue, batch or request, only sets of fixes: `Record`,
`Take`, `Store`, `CutShort`, `Forget`, `Mark` and `Unmark`. `Delivery` in
`SyncEngine` maps to them: recorded is a row in the queue, marked a synced one,
taken a claim, in hand what some handler has accepted and not committed.

### The services beside them

`Sessions`. A pair of tokens is a number, `fp` the one whose refresh token Redis
knows, `lineage` the login it comes from. `step[r]` is the await of a handler:
`Login`, `Check`, `LoadUser`, `Rotate`, `Logout`, `Reset` and `SetStatus` go on
in the order of the code. A device refreshes in single flight: `Refresh` starts
when a 401 comes and no refresh is under way. That is all it excludes: `TapLogin`,
`TapLogout` and the `Replay` of requests that met the 401 run beside a refresh,
and the answer of one that comes late overwrites, or as a refusal removes, the
tokens of a login made since. `Answer` ends what a device waits for, `Lose` ends
it in error (the connection breaks, or a timeout of `_dio` passes). The refresh
itself is posted through a Dio without timeouts: `Hang` is the answer that neither
comes nor fails, after which `refreshing` stays and whoever joins waits with it.

`Notifications`. A worker's job goes through `Claim`, `Query` and a `Push` for
each handset to a `Commit`; `Cut` ends it anywhere, `ExpireLock` and
`ClaimFailsOpen` are the two ways of the lock. `SendBulk` is a request that sends.
A registration goes statement by statement: `FindDevice` (the lookup),
`BindDevice` (the flush), `SelectOthers` and `ReapOther` (the UPDATE of the user's
other rows, which takes those committed when it begins, and looks at each again
when it has its lock), `CommitDevice`. A row that is written is locked
until the commit (`Writes`), and others wait, so two registrations may wait for
each other: PostgreSQL then fails one (`Deadlocked`). SQLAlchemy writes only what
changed: with `lookup` "own" the flush leaves `user_id` as it is in the table,
whoever has been bound there meanwhile; "lost" says that the row found has no
token any more. A deadlock of two jobs is one of their cuts.

`Pages`. Ids are drawn by a sequence and become visible in any order; the client
follows cursors until `has_more` is false.

`Staff`. A handler begins with the checks it has to make, makes them one await
after the other (`NameFree`, `TeamUsable`, `LeaderFit`, the members), and
commits; nothing it read is locked.

`ReportJobs`. The status hash by HSET and EXPIRE, the file, the job between
them; keys expire, files age and are pruned.

`Housekeeping`. Three machines: the archive's statements under READ COMMITTED,
against sessions added to old days (`AddOldSession`) and new rows that replays
make for old days without one (`AddOldRow`); the state key of a day, against
cuts, midnight, the sweep and nights on which it does not run (`MissSweep`) or is
cut (`CutSweep`); the counter of the rate limiter.

`OfflineReplay`. A handler loads the day, decides record by record
(`Decide`), inserts the row if there is none, commits, and answers.

`ZoneTimes`. Events with the clock of their handler, inserted in any order. Four
definitions translate the four places that turn them into time.

`DayReports`. Rows of an attendance table and one report asked of it: scope,
filters, order and the four ways of adding up.

`LiveFeed`. COMMIT, HSET, EXPIRE and PUBLISH of a fix, the console's loop, and
the two reads of a snapshot. Fixes are numbered by the device's clock and arrive
in any order, one by one or side by side, because failed batches are requeued
behind newer ones; `strays` are those that came otherwise than alone and
after all the others. The three derivations of an employee's dot are
definitions.

`Trail`. One iteration of the loop of `_douglas_peucker` per step. `Drawn` is what
`route` sends: the points of the mask and, wherever they lie, those of `mock` GPS.

`TapScreen`. `pos[c]` is where a coroutine of the app is suspended. A tap goes
`Press`, `SendTap`, `Decided`, then `ShowTapped` or, for what `_run` catches,
`RollBack`; a reload goes `Reload`, `ReadToday`, `ShowToday`; both end with
`SaveState`, `IsTracking` and `Switch`. `Escape` is an error that `_run` does not
catch, from the geolocator or from parsing an answer: the prediction and
`submitting` stay, and the app is `Stuck` until it is killed. The
server's side of a tap is one step here, because `Attendance` has its awaits;
what else changes the day (corrections, midnight, another phone) is `OtherChange`.
`spent` counts taps, changes elsewhere and faults, which bounds them, and notes
under `missed` that the app lost what the server said: an answer that did not
come, a write that failed, the app killed, or an older state still on its way to
the screen when a tap moves the day.

The services of the server share no state with each other, so `MCServices` puts
them side by side: the variable `part`, chosen at the start, says which one runs.
The state space is the sum of theirs and not the product. `MCPhone` does the
same with `MCSyncEngine` and `TapScreen`.

## 3. What is checked

Every run finishes. Deadlock is not checked, since every instance stops when
its bounds are used up; that the handlers do not wait for each other for ever is
`EveryRequestIsAnswered`.

| Run | Bounds | States | Question |
|---|---|---|---|
| `attendance_serial` | 1 handler, 2 days, 5 taps, 1 failure | 10,250 | does every day obey `WorkDay`, across failures, evictions and midnight |
| `attendance_corrections` | 1 handler, 4 taps, 2 corrections | 397,764 | do the total and the cached state follow the corrected log |
| `attendance_overlap` | 2 handlers, 2 taps, 1 correction, 1 failure | 70,490 | what survives overlapping, and is every request answered (liveness) |
| `ingest` | 2 handlers, 3 fixes at 2 places, 2 zones, 1 team, one failure, one loss, one change by an administrator, a clock of 2 | 1,929,075 | duplicates, live position, answers, events |
| `sync` | engine and flush, 2 handlers, 2 fixes, the second one poison, 1 drop, 1 failure; or the screen with 2 coroutines, 2 taps, 1 change elsewhere, 1 fault | 302,915 (the screen's 56,753) | is a synced fix safe; does every fix settle (liveness); do device and server implement `FixDelivery`; do screen and tracker come to show the day (liveness) |
| `services` | those below | 184,452 | the services of `MCServices` |

| Part of `services` | Bounds | States |
|---|---|---|
| `sessions` | 2 devices, 2 handlers, 3 pairs of tokens, 1 rare event, 1 attempt at the code | 34,220 |
| `notifications` | 2 users, 2 handsets, 2 workers, 2 registrations, 2 launches in all, 1 change, 1 mishap | 55,587 |
| `pages` | 4 ids, pages of 2, ascending | 2,550 |
| `staff` | 2 administrators, 2 teams, 1 employee, 4 requests, names `a` and `A` | 10,114 |
| `reports` | 2 reports, 2 troubles | 10,372 |
| `archive`, `keys`, `limits` | 2 old days with up to 2 sessions, or no row, 2 cleaners, 1 error; 5 days, 1 missed sweep; 1 hit | 29,327, 633, 7 |
| `replay` | 4 taps, 3 batches, 2 handlers | 5,704 |
| `zones` | 4 events at 5 instants | 2,491 |
| `tables` | 3 employees, two of one name, 2 teams, 2 days, 3 rows | 4,931 |
| `feed` | 2 fixes, 1 cut | 9,971 |
| `trail` | 4 points, any of them mock GPS, distances up to 2 | 10,656 |
| `logs` | all logs of up to 4 sessions at 4 instants, in every order | 7,889 |

Why these bounds. The races of this code are between two requests: a third
handler adds no kind of interleaving to a check-then-act of two, which is also
what the invariants that are proved for any number of handlers say. Two
days are what midnight needs. Five taps run a day to its end. Two taps and a
correction overlap before and after the START, and an END and a correction wait
for one row; two overlapping taps after a START are in `attendance_finding_ended`,
and for any number of taps the safety properties of the run are proved. Three fixes are a batch, its predecessor and its
successor, which is what "late" and "the fix before" need. Two zones are one of
the team and one for all; the run begins with the zone for all still to be
created, so that the one change covers creation. In `sync` the two fixes fit one
batch, so the good one shares it with the poison, and are also read apart when
the second is recorded late. One drop and one failure can fall at any step and
meet each other. Three pairs of tokens are a login, its refresh, and a second
login or the pair of a refresh that comes too late. Four ids in pages of two
have a page that begins where a row has left, and one that is full and the last.
Two launches are two registrations, two jobs or
one of each, which is every pair whose statements can interleave. One missed sweep
and five days show a key that outlives its day for as long as it can.
Four points have a segment inside a segment. A tap, a reload beside it and one
change elsewhere are what the screen has to sort out.

Fairness. `FairSpec` of `Attendance` and `FairSyncSpec` assume weak fairness of
each handler's next step and of each uploader's pass: an event loop runs every
coroutine whose await has finished, and Postgres and Redis answer or fail. That is
per handler, and no handler is preferred to another. `SyncNow` is weakly fair
because the connectivity listener, the heartbeat of five minutes and the backoff
timer call it again and again. Nothing is assumed of a flush, of the recorder,
of administrators, of losses or of midnight. Network failures are bounded
(`MaxDrops`), which stands for a connection that in the end holds.
`MCServices` assumes the same of each handler of `Sessions`, of each answer that
is on its way and of the devices that go on with it (`DevicesRun`), of each worker,
registration and report job, and that keys with a TTL expire and files age
(`JobsRun`). That an answer comes is not assumed of one that hangs. `FeedRuns` is the loop of `ws.py`, which
wakes at least every 15 seconds. In `MCPhone`,
`EngineRuns` is what was said of the sync engine, and `ScreenRuns` adds, beside the
coroutines of the app, that the user comes back to it now and then, which calls
`_onResume`: without that nothing reloads.

### Properties

Attendance:
- `StartOpensDay`: of overlapping STARTs one creates the row, first and earliest in the log.
- `EveryTapWasLegal`: each tap obeyed the transition table for some earlier content of the log, be it a stale one.
- `AckedIsDurable`: an answer of success means the session is there for good.
- `ImplementsWorkDay`: with one request at a time, every day is an instance of `WorkDay`.
- `RollupMatchesLog`, `CacheMirrorsSessions`: the total and the cached state agree with the log at rest.
- `LogReadersAgree`: worked time and the labels of a track against a reference, for every log, regular or not.
- `EveryRequestIsAnswered`: no cycle of waits, over the index entry or the row of a day.
- `SettledOnce`: an offline tap that left the queue is in the day, once, however often its batch is repeated, if no two replays overlap.
- `TrackerFollows`: while nobody else changes the day and the app misses nothing the server said, screen, local row and tracker are where the day stands, or a coroutine is taking them there.
- `ScreenCatchesUp`: screen, local row and tracker come to agree with the server and stay so, if the user comes back, unless an error that escaped `_run` left `isSubmitting` set.

Location, map and sync:
- `DuplicatesOnlyByLoss`: a fix has at most one row more than claims were lost.
- `LiveIsStored`: the live position is a committed one.
- `AnsweredIsStoredAtRest`: without failures, success means stored, for skipped fixes too.
- `EventsOnlyOfOwnTeam`: no event of another team's zone, while membership and zones stay.
- `ImplementsDelivery`: only a handler that took a fix stores it, it takes none that is remembered, and a fix is let go of only when it is stored or in hand, whatever is lost, killed or cut short.
- `SyncedIsSafe`: a row marked synced is stored, or in the hands of a handler, as long as no handler fails. The qualification is needed: `AnsweredIsStored` shows what a failure does.
- `EveryFixSettles`: every recorded row is marked in the end, unless poison is recorded.
- `FeedNeverGoesBack`: the map goes back only from or to a fix that was ingested beside another, after a later one, or between the two reads of a snapshot; the rest of the code never takes it back.
- `FeedCatchesUp`: a lost message costs one heartbeat.
- `ScreensAgree`: three copies of one derivation give one dot.
- `DroppedAreNear`: what the replay leaves out is within the tolerance of the segment between its neighbours in the mask. That is the line drawn, but where a mock-GPS point lies between the two: there the line turns aside, and nothing is promised.
- `AccountsAgree`: presence, visits, compliance and zone report count the same time, for every order and irregularity of events; the dwell an exit tells adds up to it when the events are regular.

The rest:
- `EndedStaysEnded`: a session that was ended is not accepted again, unless a refresh of it was between its check and its SET. The exception is what the code does (`auth_service.py:112-142`).
- `SignedOutForCause`, `RefreshEnds`: a device is signed out only by its user, a lost answer, an inactive account or a login that the server had ended; its own requests, which overlap as they may, never make a token look reused; and a refresh ends, unless its answer neither comes nor fails.
- `RemindedOnce`, `AllReminded`, `TokensDropped`: no reminder twice while the claim holds; whoever is found is reminded; a binding goes because FCM called the token gone, to another handset of the user, or to a registration whose row was taken from it under way, never to a timeout, an error or a cut.
- `WalkIsExact`: a walk shows no row twice and misses none that stayed.
- `NobodyInDeletedTeam`, `NamesDiffer`: up to the overlaps they name.
- `StatusIsWhole`, `ProcessingEnds`: a report's hash has an owner and a TTL, and its client is told an end.
- `NothingIsLost`: an old day is in exactly one of the two tables, with every session but those committed, alone or with a new row, between the two statements of a cleanup.
- `KeysLeaveInTime`: the state of a day does not outlive the next one, or a day more for each night without a sweep; a rate limit not its window, but for the cut it names.
- `ReportsAgree`, `TeamReportsHold`: the reports count each row once and in the same way, no report leaves its scope, no rate exceeds 100 %.

Several of these name an exception ("unless a refresh was under way", "unless
somebody joined meanwhile"). The exception is a history variable that the
actions set exactly when the race happens, so the property says two things: the
race is the only way, and the rest of the code closes every other.

### Where code and documentation disagree

Six runs end in a counterexample.

| Run | The text says | The code does |
|---|---|---|
| `attendance_finding_crash` (`StartNotLockedOut`) | Redis caches, Postgres is the truth (`attendance_service.py:11-12`) | Redis is written before the commit: a START cut short in between leaves STARTED without a row, and START is refused while `get_today` says NULL |
| `attendance_finding_ended` (`EndedIsFinal`) | a day ends with END (`:5`) | an END and a BREAK that overlap are both accepted, and the day is ON_BREAK again |
| `ingest_finding_crash` (`AnsweredIsStored`) | "2xx => the server has them all" (`sync_engine.dart:204`) | a handler cut short after its claims leaves fixes that every retry skips and no row has |
| `ingest_finding_presence` (`PresenceIsCurrent`) | the previous fix is the prior ping (`geofence_service.py:12-13`) | for a batch that arrives late it is a later ping: a crossing backwards is recorded |
| `sync_finding_poison` (`PoisonDoesNotBlock`) | poison does not block what is behind it (`sync_engine.dart:25-26`) | the next pass requeues the same batch, good rows with the bad, for ever |
| `replay_finding_total` (`TotalMatchesLog`) | durations are recomputed from the full session set (`sync_service.py:19-20`) | the total is computed from the collection loaded before the batch, and lacks the taps just replayed |

Others were seen while modelling, are in the state graphs, and have no run:
- a tap across midnight caches yesterday's state for today: the TTL is computed when EXPIRE is sent (`attendance_service.py:153`);
- a correction of another day overwrites the cached state of today (`:414`);
- the loser of a START race gets a 500, not the 409 that `:213-215` prepares, since the violation comes from the flush at `:237`; a replay that loses it fails as a whole (`sync_service.py:132-150`);
- an END that overlaps a correction leaves a total that lacks one of them (`:192`, `:410`);
- `docs/REDIS_KEYS.md` says the state key is deleted on END and lives 36 hours; it is neither;
- `models/attendance.py:6-7` says the nightly worker recomputes totals; no job does;
- the live position goes back in time when batches arrive out of order (`location_service.py:236`);
- fixes too far in the future are refused, answered with success, and so marked synced and lost (`:166`);
- zones that are redrawn or change team leave presence as it was; no exit is recorded;
- two passes of `syncNow` can overlap (`sync_engine.dart:96-104`); `SyncedIsSafe` shows that this is harmless;
- `markFailed` can undo a synced mark (`database_helper.dart:117`); the row is sent again and skipped;
- a refresh under way brings back a session that a logout, a reset or a deactivation has just ended (`auth_service.py:138`);
- a member who joins while a team is deleted stays in the deleted team (`team_service.py:211`);
- two names that differ by case pass their checks at once (`team_service.py:160`);
- a session added to an old day while it is archived is deleted without being in the archive, and so is a whole row that a replay makes for an old day between the two statements (`sync_cleanup.py:136`, `sync_service.py:136-149`);
- the sweep leaves out keys of the rate limiter and of reports, so one cut before its EXPIRE stays (`scheduler.py:108-112`);
- a report job that outlives its key makes a hash without an owner (`report_service.py:922`);
- two employees of one name get several TOTAL rows each (`report_service.py:428`);
- a reload, or an earlier tap, that is overtaken by a tap which moves the day writes the older state last and starts the tracker again (`location_service.dart:98`), so on a break or after END points are recorded until the next reload, where `:35-37` says "no points are recorded outside working hours"; `missed` of `TapScreen` counts it, and `TrackerFollows` excepts it;
- END is offered on a break and refused by the server (`attendance_screen.dart`);
- `_run` catches `_LocationException` and `ApiException` only: any other exception of `_currentPosition` leaves `isSubmitting` set, and a tap or a resume then does nothing until the app is restarted (`attendance_provider.dart:187-191`); `Escape` and `Stuck` of `TapScreen`;
- the refresh is posted without timeouts (`api_client.dart:117`): when its answer neither comes nor fails, every request that meets a 401 waits until the app is restarted;
- the answer of a refresh that comes after a logout and a new login on the phone stores the old login's pair over the new one's, or removes it when it is a refusal (`api_client.dart:121-131`);
- two registrations of a user's two handsets at once can retire each other's, or one of them loses a deadlock and answers 500 (`notification_service.py:214-243`).

## 4. What is proved

For every value of the constants that meets the named assumptions of the modules
(bounds are numbers, fixes are positive and finitely many, batches are nonempty
sequences of them, the taps of a replay and the points of a track are sequences,
there are finitely many people and their names are ordered, `NoTeam` is no team,
`NoHandler` no handler, and so on). Two theorems assume more of the system, in their
statements: `OneAtATime`, because their properties are false of requests that
overlap (section 3 lists what the totals and the cache then miss), and
`MaxFailures = 0` for the cache, which a failed commit leaves ahead of the log.

| Theorem | States |
|---|---|
| `TypeCorrect` | `Spec => []TypeOK` |
| `DayIsOpenedOnce`, `TapsAreLegal`, `AckedStays` | `StartOpensDay`, `EveryTapWasLegal`, `AckedIsDurable` |
| `HandlersStayInStep` | `InFlightOK`, for any number of handlers |
| `TotalsFollowTheLog` | `RollupMatchesLog`, with one request at a time, whatever fails |
| `CacheFollowsSessions` | `CacheMirrorsSessions`, with one request at a time and no failure |
| `SerialImplementsWorkDay` | one handler and no corrections implement `WorkDay` |
| `FewDuplicates`, `EachFixOnce`, `LiveIsCommitted`, `SuccessMeansStored`, `EventsAreOfOwnZones` | `DuplicatesOnlyByLoss`, no duplicate while no claim is lost, `LiveIsStored`, `AnsweredIsStoredAtRest`, `EventsOnlyOfOwnTeam` |
| `DeviceIsConsistent`, `NothingIsForgotten`, `FewDuplicatesEndToEnd` | `SyncTypeOK`, `SyncedIsSafe`, `DuplicatesOnlyByLoss` of the composed system |
| `DeviceImplementsDelivery` | `ImplementsDelivery`: the composed system implements `FixDelivery` |
| `SessionsAreTyped`, `EndedSessionsStayEnded` | `SessionsTypeOK`, `EndedStaysEnded` |
| `SignedOutOnlyForCause` | `SignedOutForCause`, an action property |
| `DeletedTeamsAreEmpty`, `NamesDifferByMoreThanCase` | `NobodyInDeletedTeam`, `NamesDiffer` |
| `WalksAreExact` | `WalkIsExact` |
| `StackJoinsNeighbours`, `NothingFarIsDropped` | `StackIsAdjacent`, `DroppedAreNear`, wherever mock-GPS points lie |
| `MapNeverGoesBack`, `ScreensGiveOneDot` | `FeedNeverGoesBack` (an action property), `ScreensAgree` |
| `AccountsTellOneTime` | `AccountsAgree` |
| `ReadersSeeOneDay` | `LogReadersAgree` |
| `WorkedTimeIsNatural` | the worked time of a log is a natural number, for every log |
| `TrackerFollowsTheDay` | `TrackerFollows` |
| `StatusStaysWhole` | `StatusIsWhole` |
| `NothingGetsLost`, `KeysLeave` | `NothingIsLost`, `KeysLeaveInTime` |
| `RemindersAreSingle`, `TokensLeaveForCause` | `RemindedOnce`, `TokensDropped` (an action property) |
| `TapsSettleOnce` | `SettledOnce` |
| `ReportsCountOnce`, `ReportsStayWithinReach` | `ReportsAgree`, `TeamReportsHold` |
| `ServicesAreTyped` | `ServicesTypeOK`, of the services side by side |
| `ServicesHold` | every invariant and action property of the run `services`, of the services side by side |

*Attendance.* `StartOpensDay` is not inductive: it does not say why a handler
about to commit may. `IInv` adds, for a handler between its check and its commit,
that some prefix of the log allowed its tap and that its instant is later than the
START's (`CheckedOK`); that of the STARTs of a day one at most has inserted
(`OneInsert`, the UNIQUE index); and that no tap is later than the clock
(`TapsNotLater`). Only `Commit` touches the log, so every other step needs a look
only at the handler that takes it (`StepOfOne`); `Commit` appends, so the prefixes
others found stay prefixes (`PrefixOfAppend`). `HasMaximum` gives `Latest` its
value by well-founded induction on subsets.

*Refinement.* `WorkDay` is false of overlapping requests (`EndedIsFinal`), and
true of one handler. `SerialInv` says what overlapping destroys: what the handler
read is still what is committed. With `StateOfLater` (the session with the
latest instant decides the state) a `Commit` is then a `Move`, and every other
step a stutter.

*Totals and cache.* With one request at a time, what the handler knows of its day
(`KnowsDay`) is what is committed until it commits, so the total it writes is
computed from the log as it will be (`EndedHasTotal`). A failure leaves the log and the
total as they were, since both are of one transaction, so `RollupMatchesLog` needs
no assumption about failures. The cache is written before the commit; `CachedOwn` says
that from then on it holds the state the commit is about to make, and a commit
makes it so (`CommitMirrors`) unless a correction is dated later than the tap.

*Location.* `ClaimsAreExclusive` is the heart: a fix somebody is about to insert
is claimed and nobody else has it, and rows plus insertions under way are at most
lost claims plus the present one. `Accounted` says that, without failures, what is
claimed or has been passed by a loop is stored or on its way. The lemmas are
about `AnyStep`, which lets any sequence of fixes arrive, so that they hold
for the composed system too. For `EventsOnlyOfOwnTeam`, `ChecksOwn` carries from a
request's start to its last await that the team it loaded is the employee's and
that the zones it holds are that team's or everybody's, until a zone or the
membership changes.

*Sync.* A step of the device is to the server an arrival or nothing
(`ServerSide`), so `IInv` holds of the composition. `HandlersAreOwn` says an answer
is the answer to the batch it is taken for; `Delivered` that what is about to be
marked is stored or in hand. `SyncedIsSafe` follows since what is stored stays and
a handler lets go of a fix only by storing it or by failing (`SettledStays`).

*Delivery.* A step of the ingest leaves every hand as it is (`Quiet`) or is one
of four: a claim takes a fix, an insert stores what its handler has in hand
(`InHand`), a failure is `CutShort`, a lost claim `Forget`. `ClaimsAreExclusive`
makes that true: what one handler stores or drops is in no other hand, and a
claim is lost only of what nobody holds. A fix can be taken only after it is recorded,
which is `OnlyRecorded`: batches are read from rows that are there, and uploads and handlers
hold no others. `Mark` has its guard from `Delivered`. The device's other steps
record, unmark one row, or leave the mapped variables as they are. No
assumption is added to those of the modules.

*Sessions.* `EndedStaysEnded` is about the key; what could break it is a refresh
that has passed its check and will write the key. `Guarded` says the same of the
pairs such refreshes hold: their login is open, or was closed while a refresh
of it was under way, which is what `raced` records. Every step either leaves the key
alone, deletes it (which closes a login and marks it raced if a refresh holds it),
or stores a pair; three lemmas sort the actions, and `GuardedStep` does the rest.
`SignedOutForCause` is about the answer a device gets; whose fault a refusal is,
was decided when the handler compared the token with the key. `ServedInv`
therefore says that a login is in the hands of one device and one handler
(`HandsOK`), that a handler takes the steps of what it was asked for (`KindOK`),
that the refresh a device waits for exchanges the pair it was begun with, and is
refused only if its login was closed (`WaitsOK`), that the pair of an answer is
nowhere else and a blacklisted one only where a logout is under way (`BlockedOK`),
that every login but the key's was closed (`CurrentOK`), and that what is about to
be compared is the key's pair unless its login was closed or its answer never
came (`FreshOK`).

*Staff.* The check of a join and its commit are apart, and so are the reading of
the members and the commit of a deletion. `JoinsAreChecked` says what a check
still means later (the team is live, or the join met a deletion), `CrewIsAll` that
a deletion that met nobody has read all members; both rest on
`MeetingsAreCrossed`. For names, `OneWriter` and `NamesAreChecked` say that
without a race there is one writer, for whom its check still holds.

*Pages.* What has been shown is up to the cursor (`ShownIsPassed`), what stayed
and was not shown is behind it (`StayedIsAhead`); a page moves both.

*Live map.* A fix that is no stray comes alone and after all the others, so while
it is in hand nothing later has been reported (`LastOK`). Whatever is shown,
about to be shown, cached or stored was reported before it and is behind it
(`KnownOK`); so between any two of these that can follow each other on the map
there is no step back, but from or to a stray (`OnwardOK`). Fixes may arrive in
any order, and the claim is about each pair and not about the time before the first
race. `ScreensAgree` needs no invariant: it compares three definitions
by cases on the state of the cache.

*Reports' jobs, archive, keys, notifications.* `StatusIsWhole` and
`KeysLeaveInTime` follow from invariants that say where a key is between its two
commands. For the archive, a cleaner that has inserted holds exactly the rows
it copied, since another one's insert waits for it; what it deletes beside them, or
did not copy of them, came between its statements (`CleanerOK`, `LateBut`). A row
that a replay makes has a new id, so none comes back that is archived. For the
reminders, whoever is past the claim holds the lock alone, and the lock stays
when the job ends, until it expires, which is a slip (`ReminderOK`). For
the bindings, what a registration has set to NULL was its user's and stays so until
its commit, because the row is locked (`VisitsOK`, `WritersApart`); so at the commit
the user has the handset just registered, unless its row was taken (`Caused`).

*Folds.* The folds of the community modules are recursive functions whose value is
a `CHOOSE`; nothing follows about them until the function is shown to exist.
The lemma `FoldExists` does that for every finite set, by a minimal subset without
one; the lemmas `FoldScans` and `ChosenScans` say that along a sequence a fold is a scan: there is
`acc` with `acc[0]` the base and `acc[k]` made of `acc[k - 1]` and the `k`-th
element. `FoldFacts` is instantiated once per operator. An induction on `k` is a
least counterexample in `0 .. n`, since the library's induction theorems take an
operator as parameter.

*Replay.* A batch is such a scan: each of its taps, once passed, is in the log or
among what is about to be added, and nothing is added twice. `ReplayInv` says that
what a handler loaded is still in the log, that what it is about to answer is stored
(`HandlerKnows`), and that without overlap it works on the log as it is
(`AloneKnows`).

*Reports.* `SumOfParts` splits a sum over rows by employee and by status. The
zone report is a scan over the ordered rows: the TOTAL rows so far and the run
under way add up to the rows so far (`RunsAddUp`) whatever the order, and if names
are distinct, the order by name brings no employee back, so there is one TOTAL
row for each (`RunsApart`). `TeamReportsHold` follows from what `Authorize` does to
the filters, and its rates from the fact that rows are at most people times days.

*Time in a zone, readers of a day.* Both sort first, and the events come in any
order of insertion. The models sort by rank (`UpToIt`, `InOrder`): the `k`-th element
is the one with `k` elements up to it. `RankOrders` shows that for distinct instants
there is exactly one such, and that the result is in order. The reference is then
a set of instants: those between an opening and a closing next to it (`Spans`); it
grows by what each position closes (`SpansGrow`). Each algorithm is a scan whose
accumulator is that number so far. For the exit notifications `ZoneInv` says
that on a regular day each told the time since the entry before it
(`ToldOK`); summed up, they are the same spans. The label of a point of the track is the
last transition up to it, which is the state of the sessions up to it (`TrackIs`).

*Screen.* Until the day is changed elsewhere or the app misses something,
`HoldsDay` says what each coroutine carries: one that was told the day, or
holds the snapshot of a tap, has the present one, and an accepted tap is the day.
That needs `OneTap`: `submitting` is set and cleared by the one tap under way. A
reload may paint over a tap's prediction, but then it paints the day.

*Worked time.* That it is natural, which the types of the replay rest on, is not
obvious, as it subtracts instants and taps may share one. `sorted` is stable, which
the models express by the rank of an instant with its place in the log;
`KeysOrder` and `SortedByTime` say that these ranks differ and that the result
is in order, so no interval is negative.

*Side by side.* A step of `MCServices` is a step of one service and leaves the
variables of the others alone (`OneServiceSteps`), so each runs as it does
alone (`EachRunsAlone`) and keeps what was proved of it. One begins differently
where another service runs: the track with nothing left to do; its invariant holds
of this beginning too. Most types are inductive; those of the notifications need
that only reminders are claimed (`OnlyRemindersAreClaimed`). The screen is not one
of these services; its theorem is `TrackerFollowsTheDay`.

*Trail.* `DroppedAreNear` speaks of the end, `SettledIsNear` of what has left the
stack. That the farthest point exists is a least element of a set of naturals.
The points of `mock` are drawn besides; no promise is made of a point for being near
a line through them.

Only model-checked. Liveness (`EveryRequestIsAnswered`, `EveryFixSettles`,
`RefreshEnds`, `AllReminded`, `ProcessingEnds`, `FeedCatchesUp`,
`ScreenCatchesUp`) needs ENABLED and fairness, which the prover does not handle.
Every invariant, every action property and both refinements of the passing runs
are conclusions of theorems. The properties of the runs that end in a
counterexample are false of the code.

## 5. Not modelled, and why

- Bytes, words and geometry: exporters, templates, tile caches, the PostGIS queries behind "contains" and the distances.
- Columns that follow others: the day's distance is written with the total, the plain fields of a profile or a team by the commit that is modelled; audit rows are never read back; `mark_read` and `mark_all_read` set a flag for the unread count.
- The compliance report beside its dwell, `get_team_for_date`, the team's statistics and `trail_summary` only read, with the same sums as the tables that are modelled.
- The queue of attendance sessions on the device: nothing calls `insertPendingSession`, so `_syncSessions` never finds a row; `OfflineReplay` models the server's side with a queue as the text describes it. Pruning removes rows that are synced and that nothing reads.
- Clearing or changing the logged-in user: one user is modelled in `SyncEngine`. Rows of the queue carry a user id that the upload does not look at.
- The app killed while a refresh is under way: it keeps the spent token, and its next refresh counts as an old token that came back and ends the session. `Sessions` has the answers that are lost, late or never come, but no restart of the app, so `SignedOutForCause` is about apps that run.
- `last_seen` of a device and what else nothing reads.
- A claim that is evicted under the handler that has just set it: `volatile-lru` evicts what was used least recently, and no handler takes six hours. `DuplicatesOnlyByLoss` would count it as any other loss.
- Redis or Postgres down for good: every wait for them ends in an answer or an error.
- How often Android calls the tracker, and the poster of the web build.
- Screens, widgets and the admin console present what the services return; the console's token refresh repeats the mobile client's.

## 6. Plan

1. Rows with an owner in `SyncEngine`: two users of one handset, composed with `Sessions`.
2. `OfflineReplay` as a second writer in `Attendance`, so that taps and replays overlap.
3. Proofs: the refinement of `WorkDay` by overlapping requests that the exclusion of two would give.
4. `AccountsAgree` over two days: visits that span midnight.
