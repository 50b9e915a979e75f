----------------------------- MODULE SyncEngine -----------------------------
(***************************************************************************)
(* The device's side of POST /location/batch: the rows of                  *)
(* pending_locations in SQLite and who uploads them, SyncEngine.syncNow    *)
(* and LocationSyncService.flushPendingLocations, against the handlers of  *)
(* LocationIngest.  Each await of a pass is a step.                        *)
(***************************************************************************)
EXTENDS LocationIngest

CONSTANTS
  Engines,     \* calls of syncNow that can be in flight at once
  Flushers,    \* calls of flushPendingLocations: _flushing allows one in each isolate
  BatchSize,   \* _locationBatchSize
  Poison,      \* the fixes the schema of the request refuses with 422
  NoHandler,
  MaxDrops     \* bound: requests or answers lost, failed pings and kills

Uploaders == Engines \cup Flushers

ASSUME SyncAssumption ==
  /\ BatchSize \in Nat \ {0}
  /\ Poison \subseteq Fixes
  /\ NoHandler \notin Handlers
  /\ MaxDrops \in Nat

VARIABLES
  queue,     \* queue[f]: sync_status of the row of fix f, "none" before it is recorded
  running,   \* SyncEngine._running
  up,        \* up[u]: the await uploader u is suspended at
  sent,      \* sent[u]: the rows it has read and not marked
  via,       \* via[u]: the handler that has its request
  drops      \* how much of MaxDrops is used

deviceVars == <<queue, running, up, sent, via, drops>>
syncVars == <<ingestVars, deviceVars>>

SyncInit ==
  /\ IngestInit
  /\ queue = [f \in Fixes |-> "none"]
  /\ running = FALSE
  /\ up = [u \in Uploaders |-> "idle"]
  /\ sent = [u \in Uploaders |-> <<>>]
  /\ via = [u \in Uploaders |-> NoHandler]
  /\ drops = 0

Move(u, label) == up' = [up EXCEPT ![u] = label]

Drop ==
  /\ drops < MaxDrops
  /\ drops' = drops + 1
-----------------------------------------------------------------------------
\* The background isolate saves a fix; they come in order of time.
Record(f) ==
  /\ queue[f] = "none"
  /\ \A g \in Fixes : g < f => queue[g] # "none"
  /\ queue' = [queue EXCEPT ![f] = "pending"]
  /\ UNCHANGED <<running, up, sent, via, drops, ingestVars>>

\* syncNow looks at the lock and then asks whether the server is reachable,
SyncNow(u) ==
  /\ u \in Engines
  /\ up[u] = "idle"
  /\ ~running
  /\ Move(u, "probe")
  /\ UNCHANGED <<queue, running, sent, via, drops, ingestVars>>

\* takes the lock with the answer, whoever else has taken it meanwhile,
Online(u) ==
  /\ u \in Engines
  /\ up[u] = "probe"
  /\ running' = TRUE
  /\ Move(u, "requeue")
  /\ UNCHANGED <<queue, sent, via, drops, ingestVars>>

\* or gives up.
Offline(u) ==
  /\ up[u] = "probe"
  /\ Drop
  /\ Move(u, "idle")
  /\ UNCHANGED <<queue, running, sent, via, ingestVars>>

\* A flush does not look at the lock of the engine.
Flush(u) ==
  /\ u \in Flushers
  /\ up[u] = "idle"
  /\ Move(u, "requeue")
  /\ UNCHANGED <<queue, running, sent, via, drops, ingestVars>>

\* requeueFailed
Requeue(u) ==
  /\ up[u] = "requeue"
  /\ queue' = [f \in Fixes |-> IF queue[f] = "failed" THEN "pending" ELSE queue[f]]
  /\ Move(u, "read")
  /\ UNCHANGED <<running, sent, via, drops, ingestVars>>

Pending == {f \in Fixes : queue[f] = "pending"}

\* Bug form of OldestPending: an upload waits for a batch to be full.
BugFullBatch(b) ==
  /\ Len(b) = BatchSize
  /\ \A i \in DOMAIN b : b[i] \in Pending /\ (i > 1 => b[i - 1] < b[i])
  /\ \A f \in Pending : (\E i \in DOMAIN b : b[i] = f) \/ \A i \in DOMAIN b : b[i] < f

\* getPendingLocations: b is what there is, the oldest BatchSize at most.
OldestPending(b) ==
  /\ Len(b) <= BatchSize
  /\ \A i \in DOMAIN b : b[i] \in Pending /\ (i > 1 => b[i - 1] < b[i])
  /\ \A f \in Pending :
       \/ \E i \in DOMAIN b : b[i] = f
       \/ Len(b) = BatchSize /\ \A i \in DOMAIN b : b[i] < f

ReadBatch(u) ==
  /\ up[u] = "read"
  /\ \E b \in Batches : OldestPending(b) /\ sent' = [sent EXCEPT ![u] = b]
  /\ Move(u, "post")
  /\ UNCHANGED <<queue, running, via, drops, ingestVars>>

NothingLeft(u) ==
  /\ up[u] = "read"
  /\ Pending = {}
  /\ Move(u, "done")
  /\ UNCHANGED <<queue, running, sent, via, drops, ingestVars>>

IsPoison(u) == \E i \in DOMAIN sent[u] : sent[u][i] \in Poison

Post(u, h) ==
  /\ up[u] = "post"
  /\ ~IsPoison(u)
  /\ \A v \in Uploaders : via[v] # h
  /\ Begin(h, sent[u])
  /\ via' = [via EXCEPT ![u] = h]
  /\ Move(u, "wait")
  /\ UNCHANGED <<queue, running, sent, drops, requests>>

\* 422 for the whole batch: the schema validates before the service runs.
Refused(u) ==
  /\ up[u] = "post"
  /\ IsPoison(u)
  /\ Move(u, "isolate")
  /\ UNCHANGED <<queue, running, sent, via, drops, ingestVars>>

\* markFailed, one row after the other, whatever their status is by now.
MarkFailed(u) ==
  /\ up[u] = "isolate"
  /\ queue' = [queue EXCEPT ![Head(sent[u])] = "failed"]
  /\ sent' = [sent EXCEPT ![u] = Tail(@)]
  /\ Move(u, IF Len(sent[u]) = 1 THEN "read" ELSE "isolate")
  /\ UNCHANGED <<running, via, drops, ingestVars>>

\* The answer: success, or an error that ends the pass.
Answered(u) ==
  /\ up[u] = "wait"
  /\ pc[via[u]] = "idle"
  /\ Move(u, IF reply[via[u]] = "ok" THEN "mark" ELSE "done")
  /\ via' = [via EXCEPT ![u] = NoHandler]
  /\ UNCHANGED <<queue, running, sent, drops, ingestVars>>

\* markSynced
MarkSynced(u) ==
  /\ up[u] = "mark"
  /\ queue' = [f \in Fixes |->
                 IF \E i \in DOMAIN sent[u] : sent[u][i] = f THEN "synced" ELSE queue[f]]
  /\ sent' = [sent EXCEPT ![u] = <<>>]
  /\ Move(u, "read")
  /\ UNCHANGED <<running, via, drops, ingestVars>>

\* Bug form of Lost: whatever has been sent counts as delivered.
BugLostIsDelivered(u) ==
  /\ up[u] \in {"post", "wait"}
  /\ Drop
  /\ Move(u, "mark")
  /\ via' = [via EXCEPT ![u] = NoHandler]
  /\ UNCHANGED <<queue, running, sent, ingestVars>>

\* The request does not get through, or its answer does not come back in time;
\* the handler goes on.
Lost(u) ==
  /\ up[u] \in {"post", "wait"}
  /\ Drop
  /\ Move(u, "done")
  /\ via' = [via EXCEPT ![u] = NoHandler]
  /\ UNCHANGED <<queue, running, sent, ingestVars>>

\* The finally block of a pass.
Finish(u) ==
  /\ up[u] = "done"
  /\ running' = IF u \in Engines THEN FALSE ELSE running
  /\ sent' = [sent EXCEPT ![u] = <<>>]
  /\ Move(u, "idle")
  /\ UNCHANGED <<queue, via, drops, ingestVars>>

\* Android kills the app; SQLite keeps the rows.
Kill ==
  /\ Drop
  /\ running' = FALSE
  /\ up' = [u \in Uploaders |-> "idle"]
  /\ sent' = [u \in Uploaders |-> <<>>]
  /\ via' = [u \in Uploaders |-> NoHandler]
  /\ UNCHANGED <<queue, ingestVars>>

PassStep(u) ==
  \/ Online(u) \/ Requeue(u) \/ ReadBatch(u) \/ NothingLeft(u) \/ Refused(u) \/ MarkFailed(u)
  \/ Answered(u) \/ MarkSynced(u) \/ Finish(u)
  \/ \E h \in Handlers : Post(u, h)

DeviceStep ==
  \/ \E f \in Fixes : Record(f)
  \/ \E u \in Uploaders : SyncNow(u) \/ Offline(u) \/ Flush(u) \/ PassStep(u) \/ Lost(u)
  \/ Kill

SyncNext ==
  \/ DeviceStep
  \/ (ServerStep \/ AdminStep) /\ UNCHANGED deviceVars

SyncSpec == SyncInit /\ [][SyncNext]_syncVars

\* The event loops run every suspended pass and handler on; the connectivity
\* listener, the heartbeat and the backoff timer call syncNow again and again.
SyncFairness ==
  /\ \A u \in Uploaders : WF_syncVars(PassStep(u)) /\ WF_syncVars(SyncNow(u))
  /\ \A h \in Handlers : WF_syncVars(HandlerStep(h) /\ UNCHANGED deviceVars)

FairSyncSpec == SyncSpec /\ SyncFairness
-----------------------------------------------------------------------------
PassLabels ==
  {"idle", "probe", "requeue", "read", "post", "wait", "isolate", "mark", "done"}

InPass(u) == up[u] \notin {"idle", "probe"}

DeviceTypeOK ==
  /\ queue \in [Fixes -> {"none", "pending", "failed", "synced"}]
  /\ running \in BOOLEAN
  /\ up \in [Uploaders -> PassLabels]
  /\ sent \in [Uploaders -> Seq(Fixes)]
  /\ via \in [Uploaders -> Handlers \cup {NoHandler}]
  /\ \A u \in Uploaders : up[u] = "isolate" => Len(sent[u]) > 0

\* A request has a handler of its own, which has its batch.
HandlersAreOwn ==
  \A u \in Uploaders :
    /\ up[u] = "wait" <=> via[u] # NoHandler
    /\ up[u] = "wait" =>
         /\ batch[via[u]] = sent[u]
         /\ \A v \in Uploaders : v # u => via[v] # via[u]

LockIsHeld == running => \E u \in Engines : InPass(u)

\* Types of the device's state; the lock is held by a pass or by nobody, and
\* what a request is answered with is the answer to its batch.
SyncTypeOK == DeviceTypeOK /\ HandlersAreOwn /\ LockIsHeld

\* The device drops a fix only when the server has it or has it in hand: whatever
\* answers are lost, passes overlap, or the app is killed, while no handler fails
\* a row that is marked synced is stored, or a handler that has claimed it has
\* yet to store it ("the two never corrupt each other because the server
\* dedupes", sync_engine.dart:32-35).  Fixes beyond Tolerance may be refused.
SyncedIsSafe ==
  failures = 0 =>
    \A f \in Fixes : queue[f] = "synced" /\ f <= Tolerance => f \in Stored \/ OwnedBySome(f)

\* A row that is recorded is marked synced in the end, unless a poison row keeps
\* the batches from getting through.
EveryFixSettles ==
  \A f \in Fixes :
    queue[f] = "pending"
      ~> queue[f] = "synced" \/ \E p \in Poison : queue[p] # "none"

\* A good row is not held back by the poison rows ("a poison batch/row is marked
\* failed and the queue moves on; it isn't allowed to block everything behind
\* it", sync_engine.dart:25-26).
PoisonDoesNotBlock ==
  \A f \in Fixes \ Poison : queue[f] = "pending" ~> queue[f] = "synced"
-----------------------------------------------------------------------------
Delivery == INSTANCE FixDelivery WITH
  Early    <- {f \in Fixes : f > Tolerance},
  recorded <- {f \in Fixes : queue[f] # "none"},
  marked   <- {f \in Fixes : queue[f] = "synced"},
  taken    <- claims,
  hand     <- {f \in Fixes : OwnedBySome(f)},
  copies   <- count,
  cut      <- failures > 0

\* The device's queue, its uploaders and the handlers together keep the promise
\* of FixDelivery (sync_engine.dart:32-35, location_service.py:6-9).
ImplementsDelivery == Delivery!Spec
=============================================================================
