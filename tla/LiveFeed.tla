------------------------------ MODULE LiveFeed ------------------------------
(***************************************************************************)
(* From a reported position to the admin map: the tail of the ingest       *)
(* handler (location_service.py: COMMIT, HSET, EXPIRE, PUBLISH), the       *)
(* WebSocket loop (api/v1/ws.py), which sends a snapshot at each message   *)
(* and every 15 seconds, and the snapshot itself, read from Redis and,     *)
(* where the hash is gone, from the database.  One employee, whose fixes   *)
(* are numbered by the device's clock; snapshots read each one alike.      *)
(***************************************************************************)
EXTENDS Integers

CONSTANTS
  MaxFixes,  \* bound on the batches
  MaxCuts    \* bound on cut handlers, lost messages and lost connections

ASSUME LiveFeedAssumption == MaxFixes \in Nat /\ MaxCuts \in Nat

Fixes == 1 .. MaxFixes

VARIABLES
  stored,    \* the greatest fix in location_logs, 0 without one
  hash,      \* fix in the live hash, 0 when it is absent
  old,       \* its recorded_at is more than five minutes ago
  moving,    \* its speed is at least 0.5 m/s
  ttl,       \* the hash has a TTL
  stepOf,    \* where the handler of each fix is
  feed,      \* where the loop of the connection is
  message,   \* a message waits in its subscription
  seen,      \* the fix its pipeline read, 0 for an absent hash
  sent,      \* the fix of the last snapshot
  cuts,
  strays    \* history: the fixes that were ingested beside another, after a later
             \* one, or between the two reads of a snapshot

feedVars == <<stored, hash, old, moving, ttl, stepOf, feed, message, seen, sent, cuts, strays>>

LiveFeedInit ==
  /\ stored = 0 /\ hash = 0 /\ old = FALSE /\ moving = FALSE /\ ttl = FALSE
  /\ stepOf = [f \in Fixes |-> "new"] /\ feed = "closed" /\ message = FALSE
  /\ seen = 0 /\ sent = 0 /\ cuts = 0 /\ strays = {}

CutShort == cuts < MaxCuts /\ cuts' = cuts + 1
Step(f, from, to) == stepOf[f] = from /\ stepOf' = [stepOf EXCEPT ![f] = to]
Working == {"commit", "hset", "expire", "publish"}
-----------------------------------------------------------------------------
(* The handler of a batch                                                  *)

\* A batch of the device, whose last fix is f.  It comes when it comes: one that
\* failed is requeued and uploaded after newer ones, and the repeat of a batch
\* whose answer was lost runs beside its successor.
ReportFix(f) ==
  /\ Step(f, "new", "commit")
  /\ LET beside == {g \in Fixes : stepOf[g] \in Working}
         isLate == \E g \in Fixes : g > f /\ stepOf[g] # "new"
     IN strays' = strays \cup beside \cup (IF beside # {} \/ isLate THEN {f} ELSE {})
  /\ UNCHANGED <<stored, hash, old, moving, ttl, feed, message, seen, sent, cuts>>

BugStores(f) == FALSE
Stores(f) == TRUE
CommitFix(f) ==
  /\ Step(f, "commit", "hset")
  /\ stored' = IF Stores(f) /\ f > stored THEN f ELSE stored
  /\ strays' = IF feed = "query" /\ seen = 0 /\ hash # 0 THEN strays \cup {f} ELSE strays
  /\ UNCHANGED <<hash, old, moving, ttl, feed, message, seen, sent, cuts>>

\* A batch that was queued offline may bring an old fix.
HsetFix(f) ==
  /\ Step(f, "hset", "expire") /\ hash' = f /\ old' \in BOOLEAN /\ moving' \in BOOLEAN
  /\ UNCHANGED <<stored, ttl, feed, message, seen, sent, cuts, strays>>

ExpireFix(f) ==
  /\ Step(f, "expire", "publish") /\ ttl' = (hash # 0)
  /\ UNCHANGED <<stored, hash, old, moving, feed, message, seen, sent, cuts, strays>>

\* Nobody hears a message but the connections that have subscribed.
PublishFix(f) ==
  /\ Step(f, "publish", "done") /\ message' = (message \/ feed # "closed")
  /\ UNCHANGED <<stored, hash, old, moving, ttl, feed, seen, sent, cuts, strays>>

\* A Redis error, or the worker stops.
CutFix(f) == /\ CutShort /\ stepOf[f] \in Working /\ Step(f, stepOf[f], "done")
             /\ UNCHANGED <<stored, hash, old, moving, ttl, feed, message, seen, sent, strays>>

FixGrowsOld == /\ hash # 0 /\ ~old /\ old' = TRUE
               /\ UNCHANGED <<stored, hash, moving, ttl, stepOf, feed, message, seen, sent, cuts, strays>>

\* Two hours after the last EXPIRE: no handler takes that long.
HashExpires == /\ ttl /\ old /\ \A f \in Fixes : stepOf[f] \notin Working
               /\ hash' = 0 /\ ttl' = FALSE /\ old' = FALSE /\ moving' = FALSE
               /\ UNCHANGED <<stored, stepOf, feed, message, seen, sent, cuts, strays>>
-----------------------------------------------------------------------------
(* The loop of a connection                                                *)

Connect == /\ feed = "closed" /\ feed' = "read" /\ message' = FALSE /\ sent' = 0
           /\ UNCHANGED <<stored, hash, old, moving, ttl, stepOf, seen, cuts, strays>>

\* all_live: one pipeline reads every hash.
ReadHashes == /\ feed = "read" /\ feed' = "query" /\ seen' = hash
              /\ UNCHANGED <<stored, hash, old, moving, ttl, stepOf, message, sent, cuts, strays>>

\* latest_for_user for those without one, then send_json.
SendSnapshot == /\ feed = "query" /\ feed' = "wait" /\ seen' = 0
                /\ sent' = IF seen = 0 THEN stored ELSE seen
                /\ UNCHANGED <<stored, hash, old, moving, ttl, stepOf, message, cuts, strays>>

\* get_message returns at a message, at the timeout, and at an error.
BugWakes == message
Wakes == TRUE
WaitMessage == /\ feed = "wait" /\ Wakes /\ feed' = "read" /\ message' = FALSE
               /\ UNCHANGED <<stored, hash, old, moving, ttl, stepOf, seen, sent, cuts, strays>>

LoseMessage == /\ CutShort /\ message /\ message' = FALSE
               /\ UNCHANGED <<stored, hash, old, moving, ttl, stepOf, feed, seen, sent, strays>>

\* The client leaves, or the snapshot raises: the loop ends and unsubscribes.
Disconnect == /\ CutShort /\ feed # "closed" /\ feed' = "closed" /\ message' = FALSE /\ seen' = 0
              /\ UNCHANGED <<stored, hash, old, moving, ttl, stepOf, sent, strays>>
-----------------------------------------------------------------------------
AdminLive == ReadHashes \/ SendSnapshot \/ WaitMessage

LiveFeedNext ==
  \/ \E f \in Fixes : \/ ReportFix(f) \/ CommitFix(f) \/ HsetFix(f) \/ ExpireFix(f)
                      \/ PublishFix(f) \/ CutFix(f)
  \/ FixGrowsOld \/ HashExpires \/ Connect \/ LoseMessage \/ Disconnect \/ AdminLive

LiveFeedSpec == LiveFeedInit /\ [][LiveFeedNext]_feedVars
-----------------------------------------------------------------------------
(* The dot of an employee, derived in three places                         *)

\* location_service._live_points_for and _derive_live_status
LiveStatus == IF hash = 0 THEN "OFFLINE"
              ELSE IF ~old THEN IF moving THEN "ACTIVE" ELSE "IDLE" ELSE "IDLE"
\* employee_service._derive_live
EmployeeStatus == CASE hash = 0 -> "OFFLINE" [] hash # 0 /\ ~old /\ moving -> "ACTIVE" [] OTHER -> "IDLE"
\* team_service._derive_status
BugTeamStatus == IF hash = 0 THEN "OFFLINE" ELSE IF moving THEN "ACTIVE" ELSE "IDLE"
TeamStatus == IF hash = 0 THEN "OFFLINE" ELSE IF old \/ ~moving THEN "IDLE" ELSE "ACTIVE"

LiveFeedTypeOK ==
  /\ stored \in 0 .. MaxFixes /\ hash \in 0 .. MaxFixes /\ seen \in 0 .. MaxFixes
  /\ sent \in 0 .. MaxFixes /\ old \in BOOLEAN /\ moving \in BOOLEAN /\ ttl \in BOOLEAN
  /\ stepOf \in [Fixes -> Working \cup {"new", "done"}] /\ cuts \in 0 .. MaxCuts
  /\ feed \in {"closed", "read", "query", "wait"} /\ message \in BOOLEAN /\ strays \subseteq Fixes
  /\ hash = 0 => ~ttl /\ ~old

\* "mirror LocationService / employee_service" (team_service.py:36): the map,
\* the employee list and the team screen give an employee the same dot.
ScreensAgree == LiveStatus = EmployeeStatus /\ EmployeeStatus = TeamStatus

\* HSET does not look at what the hash holds, so a batch that comes late, or runs
\* beside another, can take an open map back to an earlier fix.  Nothing else
\* can: of the two fixes between which the map goes back one was ingested beside
\* another, after a later one, or between the two reads of one snapshot,
\* whether they came from Redis or from the database, however often the hash
\* expires and handlers are cut (_update_live_cache and all_live).
FeedNeverGoesBack ==
  [][feed # "closed" /\ feed' # "closed" /\ sent' < sent => {sent, sent'} \cap strays # {}]_feedVars

\* "a dropped pub/sub message self-heals within 15s" (ws.py:14): the map comes
\* to show what the hash holds, or something newer, as long as it is connected
\* and no older fix has overwritten the hash first.
FeedCatchesUp ==
  \A f \in Fixes : hash = f ~> (sent >= f \/ feed = "closed" \/ hash \in 1 .. f - 1)
=============================================================================
