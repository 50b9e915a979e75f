--------------------------- MODULE LocationIngest ---------------------------
(***************************************************************************)
(* POST /location/batch for one employee: LocationService.ingest_batch,    *)
(* its claims in Redis, the rows of location_logs, the live position in    *)
(* Redis and the geofence check that follows.                              *)
(*                                                                         *)
(* A fix is a number, its device timestamp: the service identifies a fix   *)
(* of a user by nothing else.  Handlers are the request slots; each await  *)
(* of a handler is a step, so handlers interleave as they do in and        *)
(* between the worker processes.                                           *)
(***************************************************************************)
EXTENDS Geofence

CONSTANTS
  Handlers,      \* request slots
  Fixes,         \* the fixes of the device
  Place,         \* Place[f]: the point fix f was taken at
  Batches,       \* the sequences of fixes a request can carry
  MaxNow,        \* the server's clock runs over 0..MaxNow
  Tolerance,     \* FUTURE_TOLERANCE
  MaxRequests,   \* bound: requests
  MaxFailures,   \* bound: handlers cut short
  MaxLost        \* bound: claims that expire or are evicted

ASSUME IngestAssumption ==
  /\ Fixes \subseteq Nat \ {0}
  /\ IsFiniteSet(Fixes)
  /\ Place \in [Fixes -> Points]
  /\ Batches \subseteq Seq(Fixes) \ {<<>>}
  /\ MaxNow \in Nat /\ Tolerance \in Nat
  /\ MaxRequests \in Nat /\ MaxFailures \in Nat /\ MaxLost \in Nat

VARIABLES
  now,      \* the server's clock
  claims,   \* fixes with a key fieldtrack:sync:processed:{hash}
  count,    \* count[f]: how many rows of location_logs hold fix f
  live,     \* the fix in fieldtrack:location:{user}, 0 without one
  expires,  \* whether that key has an expiry
  pc,       \* pc[h]: the await handler h is suspended at
  batch, asked, seenTeam,   \* h's request: the fixes, when it was begun, and the
            \* employee's team loaded then, which the session keeps (expire_on_commit=False)
  next, accepted, newest,   \* h's loop: the next record, fixes claimed, the newest of them
  prev, inside, was,        \* h's check: the fix before, the zones around both
  reply,    \* reply[h]: its last answer
  requests, failures, lost   \* how much of the bounds is used

request == <<batch, asked, seenTeam>>
taken   == <<next, accepted, newest>>
check   == <<prev, inside, was>>
job     == <<request, taken, check>>
redis   == <<claims, live, expires>>
budget  == <<requests, failures, lost>>
ingestVars == <<now, redis, count, pc, job, reply, budget, zoneVars, events>>

IngestInit ==
  /\ GeofenceInit
  /\ now = 0
  /\ claims = {}
  /\ count = [f \in Fixes |-> 0]
  /\ live = 0
  /\ expires = FALSE
  /\ pc = [h \in Handlers |-> "idle"]
  /\ batch = [h \in Handlers |-> <<>>]
  /\ asked = [h \in Handlers |-> 0]
  /\ seenTeam = [h \in Handlers |-> NoTeam]
  /\ next = [h \in Handlers |-> 1]
  /\ accepted = [h \in Handlers |-> {}]
  /\ newest = [h \in Handlers |-> 0]
  /\ prev = [h \in Handlers |-> 0]
  /\ inside = [h \in Handlers |-> {}]
  /\ was = [h \in Handlers |-> {}]
  /\ reply = [h \in Handlers |-> "none"]
  /\ requests = 0 /\ failures = 0 /\ lost = 0

Stored == {f \in Fixes : count[f] > 0}

Later(f, g) == IF g > f THEN g ELSE f

\* No stored fix is later than f.
IsLatest(f) == \A g \in Stored : g <= f

Goto(h, label) == pc' = [pc EXCEPT ![h] = label]
-----------------------------------------------------------------------------
\* The request is authenticated and the clock read.
Begin(h, fixes) ==
  /\ pc[h] = "idle"
  /\ batch' = [batch EXCEPT ![h] = fixes]
  /\ asked' = [asked EXCEPT ![h] = now]
  /\ seenTeam' = [seenTeam EXCEPT ![h] = team]
  /\ next' = [next EXCEPT ![h] = 1]
  /\ accepted' = [accepted EXCEPT ![h] = {}]
  /\ newest' = [newest EXCEPT ![h] = 0]
  /\ prev' = [prev EXCEPT ![h] = 0]
  /\ inside' = [inside EXCEPT ![h] = {}]
  /\ was' = [was EXCEPT ![h] = {}]
  /\ reply' = [reply EXCEPT ![h] = "none"]
  /\ Goto(h, "claim")
  /\ UNCHANGED <<now, redis, count, failures, lost, zoneVars, events>>

\* A device sends a batch, whichever.
Arrive(h, fixes) ==
  /\ requests < MaxRequests
  /\ requests' = requests + 1
  /\ Begin(h, fixes)

HasNext(h) == pc[h] = "claim" /\ next[h] <= Len(batch[h])
Current(h) == batch[h][next[h]]

FromFuture(h) == Current(h) > asked[h] + Tolerance

\* Bug form of RefuseFuture: the claim comes before the look at the clock.
BugRefuseFutureClaims(h) ==
  /\ HasNext(h)
  /\ FromFuture(h)
  /\ claims' = claims \cup {Current(h)}
  /\ next' = [next EXCEPT ![h] = @ + 1]
  /\ UNCHANGED <<now, live, expires, count, request, accepted, newest, check, pc, reply,
                 budget, zoneVars, events>>

\* A fix ahead of the server's clock is counted as failed and left behind.
RefuseFuture(h) ==
  /\ HasNext(h)
  /\ FromFuture(h)
  /\ next' = [next EXCEPT ![h] = @ + 1]
  /\ UNCHANGED <<now, redis, count, request, accepted, newest, check, pc, reply, budget,
                 zoneVars, events>>

\* Bug form of Claim: a look at the key, and its write with the rows.
BugClaimByLooking(h) ==
  /\ HasNext(h)
  /\ ~FromFuture(h)
  /\ Current(h) \notin claims
  /\ next' = [next EXCEPT ![h] = @ + 1]
  /\ accepted' = [accepted EXCEPT ![h] = @ \cup {Current(h)}]
  /\ newest' = [newest EXCEPT ![h] = Later(@, Current(h))]
  /\ UNCHANGED <<now, redis, count, request, check, pc, reply, budget, zoneVars, events>>

\* SET NX succeeds: the fix is this handler's to insert.
Claim(h) ==
  /\ HasNext(h)
  /\ ~FromFuture(h)
  /\ Current(h) \notin claims
  /\ claims' = claims \cup {Current(h)}
  /\ next' = [next EXCEPT ![h] = @ + 1]
  /\ accepted' = [accepted EXCEPT ![h] = @ \cup {Current(h)}]
  /\ newest' = [newest EXCEPT ![h] = Later(@, Current(h))]
  /\ UNCHANGED <<now, live, expires, count, request, check, pc, reply, budget, zoneVars, events>>

\* SET NX fails: somebody has claimed the fix before.
Skip(h) ==
  /\ HasNext(h)
  /\ ~FromFuture(h)
  /\ Current(h) \in claims
  /\ next' = [next EXCEPT ![h] = @ + 1]
  /\ UNCHANGED <<now, redis, count, request, accepted, newest, check, pc, reply, budget,
                 zoneVars, events>>

\* latest_for_user: the stored fix with the latest timestamp, 0 without one.
ReadPrevious(h) ==
  /\ pc[h] = "claim" /\ ~HasNext(h)
  /\ newest[h] # 0
  /\ \E p \in Stored \cup {0} : IsLatest(p) /\ prev' = [prev EXCEPT ![h] = p]
  /\ Goto(h, "insert")
  /\ UNCHANGED <<now, redis, count, request, taken, inside, was, reply, budget, zoneVars, events>>

NothingAccepted(h) ==
  /\ pc[h] = "claim" /\ ~HasNext(h)
  /\ newest[h] = 0
  /\ Goto(h, "respond")
  /\ UNCHANGED <<now, redis, count, job, reply, budget, zoneVars, events>>

\* The bulk insert and its commit.
Insert(h) ==
  /\ pc[h] = "insert"
  /\ count' = [f \in Fixes |-> IF f \in accepted[h] THEN count[f] + 1 ELSE count[f]]
  /\ Goto(h, "live")
  /\ UNCHANGED <<now, redis, job, reply, budget, zoneVars, events>>

\* Bug form of HsetLive: the last record of the batch, not its newest.
BugLiveLastRecord(h) ==
  /\ pc[h] = "live"
  /\ live' = batch[h][Len(batch[h])]
  /\ Goto(h, "expire")
  /\ UNCHANGED <<now, claims, expires, count, job, reply, budget, zoneVars, events>>

\* _update_live_cache: HSET keeps the expiry the key has,
HsetLive(h) ==
  /\ pc[h] = "live"
  /\ live' = newest[h]
  /\ Goto(h, "expire")
  /\ UNCHANGED <<now, claims, expires, count, job, reply, budget, zoneVars, events>>

\* and EXPIRE, which does nothing to a key that is gone, sets it.
ExpireLive(h) ==
  /\ pc[h] = "expire"
  /\ expires' = (live # 0)
  /\ Goto(h, "inside")
  /\ UNCHANGED <<now, claims, live, count, job, reply, budget, zoneVars, events>>

\* check_geofence_events reads the zones around the newest fix of the batch,
FindInside(h) ==
  /\ pc[h] = "inside"
  /\ inside' = [inside EXCEPT ![h] = Containing(Place[newest[h]], seenTeam[h])]
  /\ Goto(h, IF prev[h] = 0 THEN "record" ELSE "was")
  /\ UNCHANGED <<now, redis, count, request, taken, prev, was, reply, budget, zoneVars, events>>

\* then those around the fix that was the latest before,
FindWas(h) ==
  /\ pc[h] = "was"
  /\ was' = [was EXCEPT ![h] = Containing(Place[prev[h]], seenTeam[h])]
  /\ Goto(h, "record")
  /\ UNCHANGED <<now, redis, count, request, taken, prev, inside, reply, budget, zoneVars, events>>

\* and commits the difference with its notifications.
RecordEvents(h) ==
  /\ pc[h] = "record"
  /\ events' = Recorded(inside[h], was[h])
  /\ Goto(h, "respond")
  /\ UNCHANGED <<now, redis, count, job, reply, budget, zoneVars>>

\* An exception in the check is logged and swallowed.
SwallowGeofenceError(h) ==
  /\ pc[h] \in {"inside", "was", "record"}
  /\ failures < MaxFailures
  /\ failures' = failures + 1
  /\ Goto(h, "respond")
  /\ UNCHANGED <<now, redis, count, job, reply, requests, lost, zoneVars, events>>

Respond(h) ==
  /\ pc[h] = "respond"
  /\ Goto(h, "idle")
  /\ reply' = [reply EXCEPT ![h] = "ok"]
  /\ UNCHANGED <<now, redis, count, job, budget, zoneVars, events>>

\* The handler dies or Postgres or Redis fails it: no row that is not committed
\* stays, every claim does.
Fail(h) ==
  /\ pc[h] # "idle"
  /\ failures < MaxFailures
  /\ failures' = failures + 1
  /\ Goto(h, "idle")
  /\ reply' = [reply EXCEPT ![h] = "error"]
  /\ UNCHANGED <<now, redis, count, job, requests, lost, zoneVars, events>>
-----------------------------------------------------------------------------
Tick ==
  /\ now < MaxNow
  /\ now' = now + 1
  /\ UNCHANGED <<redis, count, pc, job, reply, budget, zoneVars, events>>

\* A claim reaches its six hours, or volatile-lru evicts it: claims have a TTL.
\* Neither comes under the handler that has just set it: none takes six hours,
\* and what was used last is evicted last.
LoseClaim(f) ==
  /\ f \in claims
  /\ lost < MaxLost
  /\ \A h \in Handlers : pc[h] = "idle" \/ f \notin accepted[h]
  /\ lost' = lost + 1
  /\ claims' = claims \ {f}
  /\ UNCHANGED <<now, live, expires, count, pc, job, reply, requests, failures, zoneVars, events>>

\* The live position reaches its two hours or is evicted.
LoseLive ==
  /\ expires
  /\ lost < MaxLost
  /\ lost' = lost + 1
  /\ live' = 0
  /\ expires' = FALSE
  /\ UNCHANGED <<now, claims, count, pc, job, reply, requests, failures, zoneVars, events>>

HandlerStep(h) ==
  \/ RefuseFuture(h) \/ Claim(h) \/ Skip(h) \/ ReadPrevious(h) \/ NothingAccepted(h)
  \/ Insert(h) \/ HsetLive(h) \/ ExpireLive(h) \/ FindInside(h) \/ FindWas(h) \/ RecordEvents(h)
  \/ Respond(h)

\* What happens on the server besides the arrival of requests.
ServerStep ==
  \/ \E h \in Handlers : HandlerStep(h) \/ SwallowGeofenceError(h) \/ Fail(h)
  \/ Tick
  \/ \E f \in Fixes : LoseClaim(f)
  \/ LoseLive

AdminStep == ZoneStep /\ UNCHANGED <<now, redis, count, pc, job, reply, budget>>

IngestNext ==
  \/ \E h \in Handlers, fixes \in Batches : Arrive(h, fixes)
  \/ ServerStep
  \/ AdminStep

IngestSpec == IngestInit /\ [][IngestNext]_ingestVars
-----------------------------------------------------------------------------
Labels == {"idle", "claim", "insert", "live", "expire", "inside", "was", "record", "respond"}

AtRest == \A h \in Handlers : pc[h] = "idle"

\* The fixes a handler has claimed and not inserted yet.
Owned(h) == IF pc[h] \in {"claim", "insert"} THEN accepted[h] ELSE {}
OwnedBySome(f) == \E h \in Handlers : f \in Owned(h)

\* A fix that is being inserted is claimed and nowhere else being inserted; what
\* is stored or being inserted is covered by the claim there is or by lost ones.
ClaimsAreExclusive ==
  /\ \A h \in Handlers :
       /\ Owned(h) \subseteq claims
       /\ \A g \in Handlers : g # h => Owned(g) \cap Owned(h) = {}
  /\ \A f \in Fixes :
       count[f] + (IF OwnedBySome(f) THEN 1 ELSE 0) <= lost + (IF f \in claims THEN 1 ELSE 0)

\* However batches overlap and are sent again, each claim that is lost lets
\* through at most one more row of its fix ("Devices retry batches after lost
\* ACKs; the same fix must not insert twice", location_service.py:6-9).
DuplicatesOnlyByLoss == \A f \in Fixes : count[f] <= 1 + lost
NoFixTwice == \A f \in Fixes : count[f] <= 1

\* The live position is one that is stored: it is cached after the commit
\* (location_service.py:200-205).
LiveIsStored == live # 0 => live \in Stored

\* Once all requests have ended and none failed, every fix that was answered
\* with success and was not from the future is stored, skipped ones included:
\* somebody else has inserted them (location_service.py:170-179).
AnsweredIsStoredAtRest ==
  AtRest /\ failures = 0 =>
    \A h \in Handlers : reply[h] = "ok" =>
      \A i \in DOMAIN batch[h] :
        batch[h][i] <= asked[h] + Tolerance => batch[h][i] \in Stored

\* The device takes a success for every fix of the batch: "2xx (processed or
\* deduped-skipped) => the server has them all" (sync_engine.dart:204).
AnsweredIsStored ==
  AtRest => \A h \in Handlers : reply[h] = "ok" =>
    \A i \in DOMAIN batch[h] : batch[h][i] \in Stored

\* While zones and teams stay as they are, an event is of a zone for everybody
\* or of the employee's team ("an employee never enters/exits another team's
\* private zone", geofence_service.py:288-289).
EventsOnlyOfOwnTeam ==
  [][zoneOps = 0 => \A z \in Zones : events'[z] # events[z] =>
       zone[z].scope = "UNIVERSAL" \/ zone[z].team = team]_events

\* With nothing in flight and no failure, a zone the employee is "still inside"
\* of is one that contains the latest position (geofence_repository.py:254-256).
PresenceIsCurrent ==
  AtRest /\ failures = 0 =>
    \A f \in Stored, z \in Zones :
      IsLatest(f) => (StillInside(z) <=> z \in Containing(Place[f], team))
=============================================================================
