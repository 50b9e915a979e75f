---------------------------- MODULE LocationProofs ----------------------------
(***************************************************************************)
(* What the claims of LocationIngest guarantee for any number of handlers, *)
(* fixes, requests, failures and lost claims, and what the phone that      *)
(* feeds it, SyncEngine, may therefore forget.                             *)
(***************************************************************************)
EXTENDS SyncEngine, SequenceTheorems, TLAPS

\* The types the proofs need.
Typed ==
  /\ now \in Nat
  /\ claims \subseteq Fixes
  /\ count \in [Fixes -> Nat]
  /\ pc \in [Handlers -> Labels]
  /\ batch \in [Handlers -> Seq(Fixes)]
  /\ asked \in [Handlers -> Nat]
  /\ next \in [Handlers -> Nat \ {0}]
  /\ accepted \in [Handlers -> SUBSET Fixes]
  /\ newest \in [Handlers -> Fixes \cup {0}]
  /\ reply \in [Handlers -> {"none", "ok", "error"}]
  /\ failures \in Nat
  /\ lost \in Nat

AfterInsert == {"live", "expire", "inside", "was", "record"}

\* A handler past its insert has stored all it claimed, the newest of which is
\* the one it caches and checks.
Shaped ==
  \A h \in Handlers :
    /\ pc[h] = "claim" =>
         \/ newest[h] \in accepted[h]
         \/ newest[h] = 0 /\ accepted[h] = {}
    /\ pc[h] = "insert" => newest[h] \in accepted[h]
    /\ pc[h] \in AfterInsert => newest[h] \in Stored
    /\ pc[h] # "idle" => reply[h] = "none"

\* Without failures what is claimed is stored or on its way, and so is every
\* fix a handler has passed that was not from the future.
Settled(f) == f \in Stored \/ OwnedBySome(f)
Accounted ==
  failures = 0 =>
    /\ \A f \in claims : Settled(f)
    /\ \A h \in Handlers :
         /\ \A i \in DOMAIN batch[h] :
              i < next[h] /\ batch[h][i] <= asked[h] + Tolerance => Settled(batch[h][i])
         /\ pc[h] \notin {"idle", "claim"} \/ reply[h] = "ok" => next[h] > Len(batch[h])

IInv == Typed /\ Shaped /\ ClaimsAreExclusive /\ Accounted /\ LiveIsStored

\* A step of IngestNext, or of a system around it that decides which batches are
\* sent: the lemmas hold for both.
AnyStep ==
  \/ \E h \in Handlers, fixes \in Seq(Fixes) : Begin(h, fixes)
  \/ ServerStep
  \/ AdminStep
  \/ UNCHANGED ingestVars
-----------------------------------------------------------------------------
\* Initially nothing is claimed, stored or answered.
LEMMA InitIInv == IngestInit => IInv
<1> SUFFICES ASSUME IngestInit PROVE IInv
  OBVIOUS
<1>1. Typed
  BY IngestAssumption DEF IngestInit, Typed, Labels
<1>2. \A h \in Handlers : Owned(h) = {}
  BY DEF IngestInit, Owned
<1>3. Shaped /\ LiveIsStored
  BY DEF IngestInit, Shaped, AfterInsert, LiveIsStored
<1>4. ClaimsAreExclusive
  BY <1>2 DEF IngestInit, ClaimsAreExclusive, OwnedBySome
<1>5. Accounted
  BY DEF IngestInit, Accounted
<1> QED BY <1>1, <1>3, <1>4, <1>5 DEF IInv

\* The steps of IngestSpec are among those the lemmas are about.
LEMMA NextIsAnyStep == [IngestNext]_ingestVars => AnyStep
  BY IngestAssumption DEF AnyStep, IngestNext, Arrive

\* A fix is a positive number, so 0 is none.
LEMMA FixesAreNumbers == \A f \in Fixes : f \in Nat /\ f > 0
  BY IngestAssumption

\* FUTURE_TOLERANCE is a number, as the fixes are.
LEMMA ToleranceIsNumber == Tolerance \in Nat
  BY IngestAssumption

\* Every step keeps the types.
LEMMA TypedStep == ASSUME Typed, AnyStep PROVE Typed'
<1> USE DEF Typed, Labels
<1>0. Fixes \subseteq Nat
  BY IngestAssumption
<1>1. ASSUME NEW h \in Handlers, NEW fixes \in Seq(Fixes), Begin(h, fixes) PROVE Typed'
  BY <1>0, <1>1 DEF Begin, Goto, redis
<1>2. ASSUME NEW h \in Handlers, RefuseFuture(h) \/ Skip(h) PROVE Typed'
  <2>1. /\ next' = [next EXCEPT ![h] = @ + 1]
        /\ UNCHANGED <<now, redis, count, request, accepted, newest, pc, reply, budget>>
    BY <1>2 DEF RefuseFuture, Skip
  <2> QED BY <2>1 DEF redis, request, budget
<1>3. ASSUME NEW h \in Handlers, Claim(h) PROVE Typed'
  <2>1. Current(h) \in Fixes
    BY <1>3 DEF Claim, HasNext, Current
  <2>2. Later(newest[h], Current(h)) \in Fixes \cup {0}
    BY <2>1 DEF Later
  <2> QED BY <1>3, <2>1, <2>2 DEF Claim, request, budget
<1>4. ASSUME NEW h \in Handlers, ReadPrevious(h) PROVE Typed'
  BY <1>4 DEF ReadPrevious, Goto, redis, request, taken, budget
<1>5. ASSUME NEW h \in Handlers, NothingAccepted(h) PROVE Typed'
  BY <1>5 DEF NothingAccepted, Goto, redis, job, request, taken, check, budget
<1>6. ASSUME NEW h \in Handlers, Insert(h) PROVE Typed'
  BY <1>6 DEF Insert, Goto, redis, job, request, taken, check, budget
<1>7. ASSUME NEW h \in Handlers, HsetLive(h) \/ ExpireLive(h) PROVE Typed'
  BY <1>7 DEF HsetLive, ExpireLive, Goto, job, request, taken, check, budget
<1>8. ASSUME NEW h \in Handlers, FindInside(h) \/ FindWas(h) PROVE Typed'
  BY <1>8 DEF FindInside, FindWas, Goto, redis, request, taken, check, budget
<1>9. ASSUME NEW h \in Handlers, RecordEvents(h) \/ Respond(h) PROVE Typed'
  BY <1>9 DEF RecordEvents, Respond, Goto, redis, job, request, taken, check, budget
<1>10. ASSUME NEW h \in Handlers, SwallowGeofenceError(h) \/ Fail(h) PROVE Typed'
  <2>1. CASE SwallowGeofenceError(h)
    BY <2>1 DEF SwallowGeofenceError, Goto, redis, job, request, taken
  <2>2. CASE Fail(h)
    BY <2>2 DEF Fail, Goto, redis, job, request, taken
  <2> QED BY <1>10, <2>1, <2>2
<1>11. ASSUME NEW f \in Fixes, LoseClaim(f) PROVE Typed'
  BY <1>11 DEF LoseClaim, job, request, taken, check
<1>12. CASE LoseLive
  BY <1>12 DEF LoseLive, job, request, taken, check
<1>13. CASE Tick
  BY <1>13 DEF Tick, redis, job, request, taken, check, budget
<1>14. CASE AdminStep
  BY <1>14 DEF AdminStep, redis, job, request, taken, check, budget
<1>15. CASE UNCHANGED ingestVars
  BY <1>15 DEF ingestVars, redis, job, request, taken, check, budget
<1> HIDE DEF Typed
<1> QED
  BY <1>1, <1>2, <1>3, <1>4, <1>5, <1>6, <1>7, <1>8, <1>9, <1>10, <1>11, <1>12, <1>13,
     <1>14, <1>15 DEF AnyStep, ServerStep, HandlerStep

\* Only an insert changes what is stored.
LEMMA StoredStays == ASSUME Typed, count' = count PROVE Stored' = Stored
  BY DEF Stored

\* What an insert does to the stored fixes.
LEMMA InsertStores ==
  ASSUME Typed, NEW h \in Handlers, Insert(h) PROVE Stored' = Stored \cup accepted[h]
<1>1. /\ accepted[h] \subseteq Fixes
      /\ \A f \in Fixes : count[f] \in Nat
      /\ \A f \in Fixes : count'[f] = IF f \in accepted[h] THEN count[f] + 1 ELSE count[f]
  BY DEF Typed, Insert
<1>2. \A f \in Fixes : count'[f] > 0 <=> count[f] > 0 \/ f \in accepted[h]
  BY <1>1
<1> QED BY <1>1, <1>2 DEF Stored

\* Every step keeps Shaped.
LEMMA ShapedStep == ASSUME Typed, Shaped, AnyStep PROVE Shaped'
<1> USE DEF Shaped, AfterInsert
<1>0. pc \in [Handlers -> Labels]
  BY DEF Typed
<1>1. ASSUME NEW h \in Handlers, NEW fixes \in Seq(Fixes), Begin(h, fixes) PROVE Shaped'
  BY <1>0, <1>1, StoredStays DEF Begin, Goto, Typed
<1>2. ASSUME NEW h \in Handlers, RefuseFuture(h) PROVE Shaped'
  BY <1>2, StoredStays DEF RefuseFuture
<1>3. ASSUME NEW h \in Handlers, Skip(h) PROVE Shaped'
  BY <1>3, StoredStays DEF Skip
<1>4. ASSUME NEW h \in Handlers, Claim(h) PROVE Shaped'
  <2>1. /\ pc[h] = "claim"
        /\ pc' = pc
        /\ accepted' = [accepted EXCEPT ![h] = @ \cup {Current(h)}]
        /\ newest' = [newest EXCEPT ![h] = Later(@, Current(h))]
        /\ Stored' = Stored /\ reply' = reply
    BY <1>4, StoredStays DEF Claim, HasNext
  <2>2. Current(h) \in Fixes /\ \A f \in Fixes : f \in Nat /\ f > 0
    BY <1>4, FixesAreNumbers DEF Claim, HasNext, Current, Typed
  <2>3. newest[h] \in accepted[h] \/ newest[h] = 0
    BY <2>1
  <2>4. newest[h] \in Fixes \cup {0}
    BY DEF Typed
  <2>5. /\ accepted'[h] = accepted[h] \cup {Current(h)}
        /\ newest'[h] = Later(newest[h], Current(h))
    BY <2>1 DEF Typed
  <2>6. newest'[h] \in accepted'[h]
    BY <2>2, <2>3, <2>4, <2>5 DEF Later
  <2>7. \A g \in Handlers : g # h => accepted'[g] = accepted[g] /\ newest'[g] = newest[g]
    BY <2>1 DEF Typed
  <2> QED BY <2>1, <2>6, <2>7
<1>5. ASSUME NEW h \in Handlers, ReadPrevious(h) PROVE Shaped'
  BY <1>0, <1>5, StoredStays DEF ReadPrevious, Goto, taken
<1>6. ASSUME NEW h \in Handlers, NothingAccepted(h) PROVE Shaped'
  BY <1>0, <1>6, StoredStays DEF NothingAccepted, Goto, job, taken
<1>7. ASSUME NEW h \in Handlers, Insert(h) PROVE Shaped'
  BY <1>0, <1>7, InsertStores DEF Insert, Goto, job, taken
<1>8. ASSUME NEW h \in Handlers, HsetLive(h) \/ ExpireLive(h) PROVE Shaped'
  BY <1>0, <1>8, StoredStays DEF HsetLive, ExpireLive, Goto, job, taken
<1>9. ASSUME NEW h \in Handlers, FindInside(h) \/ FindWas(h) PROVE Shaped'
  BY <1>0, <1>9, StoredStays DEF FindInside, FindWas, Goto, taken
<1>10. ASSUME NEW h \in Handlers, RecordEvents(h) \/ Respond(h) PROVE Shaped'
  <2>1. CASE RecordEvents(h)
    BY <1>0, <2>1, StoredStays DEF RecordEvents, Goto, job, taken
  <2>2. CASE Respond(h)
    BY <1>0, <2>2, StoredStays DEF Respond, Goto, job, taken, Typed
  <2> QED BY <1>10, <2>1, <2>2
<1>11. ASSUME NEW h \in Handlers, SwallowGeofenceError(h) \/ Fail(h) PROVE Shaped'
  <2>1. CASE SwallowGeofenceError(h)
    BY <1>0, <2>1, StoredStays DEF SwallowGeofenceError, Goto, job, taken
  <2>2. CASE Fail(h)
    BY <1>0, <2>2, StoredStays DEF Fail, Goto, job, taken, Typed
  <2> QED BY <1>11, <2>1, <2>2
<1>12. ASSUME NEW f \in Fixes, LoseClaim(f) PROVE Shaped'
  BY <1>12, StoredStays DEF LoseClaim, job, taken
<1>13. CASE LoseLive
  BY <1>13, StoredStays DEF LoseLive, job, taken
<1>14. CASE Tick
  BY <1>14, StoredStays DEF Tick, job, taken
<1>15. CASE AdminStep
  BY <1>15, StoredStays DEF AdminStep, job, taken
<1>16. CASE UNCHANGED ingestVars
  BY <1>16, StoredStays DEF ingestVars, job, taken
<1> HIDE DEF Shaped
<1> QED
  BY <1>1, <1>2, <1>3, <1>4, <1>5, <1>6, <1>7, <1>8, <1>9, <1>10, <1>11, <1>12, <1>13,
     <1>14, <1>15, <1>16 DEF AnyStep, ServerStep, HandlerStep

\* Every step keeps the live position on a stored fix: HsetLive comes after Insert.
LEMMA LiveStep ==
  ASSUME Typed, Shaped, LiveIsStored, AnyStep PROVE LiveIsStored'
<1> USE DEF LiveIsStored
<1>1. ASSUME NEW h \in Handlers, Insert(h) PROVE LiveIsStored'
  BY <1>1, InsertStores DEF Insert, redis
<1>2. ASSUME NEW h \in Handlers, HsetLive(h) PROVE LiveIsStored'
  BY <1>2, StoredStays DEF HsetLive, Shaped, AfterInsert
<1>3. CASE LoseLive
  BY <1>3 DEF LoseLive
<1>4. CASE UNCHANGED <<live, count>>
  BY <1>4, StoredStays
<1>5. ASSUME NEW h \in Handlers, NEW fixes \in Seq(Fixes), Begin(h, fixes) PROVE UNCHANGED <<live, count>>
  BY <1>5 DEF Begin, redis
<1>6. ASSUME NEW h \in Handlers, HandlerStep(h) PROVE Insert(h) \/ HsetLive(h) \/ UNCHANGED <<live, count>>
  BY <1>6 DEF HandlerStep, RefuseFuture, Claim, Skip, ReadPrevious, NothingAccepted, ExpireLive,
    FindInside, FindWas, RecordEvents, Respond, redis
<1>7. ASSUME NEW h \in Handlers, SwallowGeofenceError(h) \/ Fail(h) PROVE UNCHANGED <<live, count>>
  BY <1>7 DEF SwallowGeofenceError, Fail, redis
<1>8. ASSUME NEW f \in Fixes, LoseClaim(f) PROVE UNCHANGED <<live, count>>
  BY <1>8 DEF LoseClaim
<1>9. ASSUME Tick \/ AdminStep \/ UNCHANGED ingestVars PROVE UNCHANGED <<live, count>>
  BY <1>9 DEF Tick, AdminStep, ingestVars, redis
<1> QED
  BY <1>1, <1>2, <1>3, <1>4, <1>5, <1>6, <1>7, <1>8, <1>9 DEF AnyStep, ServerStep

\* A handler that goes on, or lets go of what it has claimed.
LEMMA OwnedByOthers ==
  ASSUME Typed, NEW h \in Handlers, NEW label \in Labels,
         accepted' = accepted, pc' = [pc EXCEPT ![h] = label],
         label \in {"claim", "insert"} => pc[h] \in {"claim", "insert"}
  PROVE  /\ \A g \in Handlers : g # h => Owned(g)' = Owned(g)
         /\ Owned(h)' \subseteq Owned(h)
         /\ pc[h] \notin {"claim", "insert"} \/ label \in {"claim", "insert"} \/ accepted[h] = {}
              => Owned(h)' = Owned(h)
  BY DEF Typed, Owned

\* A step that takes no claim and inserts nothing: fixes may be let go.
LEMMA ExclusiveKept ==
  ASSUME Typed, Typed', ClaimsAreExclusive, \A h \in Handlers : Owned(h)' \subseteq Owned(h),
         count' = count, claims' = claims, lost' >= lost
  PROVE  ClaimsAreExclusive'
<1>1. \A f \in Fixes : OwnedBySome(f)' => OwnedBySome(f)
  BY DEF OwnedBySome
<1>2. ASSUME NEW f \in Fixes
      PROVE  count'[f] + (IF OwnedBySome(f)' THEN 1 ELSE 0)
               <= lost' + (IF f \in claims' THEN 1 ELSE 0)
  BY <1>1, <1>2 DEF ClaimsAreExclusive, Typed
<1> QED BY <1>2 DEF ClaimsAreExclusive

\* Which steps let no fix go, and which do.
LEMMA ExclusiveStep ==
  ASSUME Typed, Shaped, ClaimsAreExclusive, AnyStep
  PROVE  ClaimsAreExclusive'
<1>0. Typed'
  BY TypedStep
<1> DEFINE Kept == /\ \A h \in Handlers : Owned(h)' \subseteq Owned(h)
                   /\ count' = count /\ claims' = claims /\ lost' >= lost
<1>1. Kept => ClaimsAreExclusive'
  BY <1>0, ExclusiveKept
<1>2. ASSUME NEW h \in Handlers, NEW fixes \in Seq(Fixes), Begin(h, fixes) PROVE Kept
  <2>1. /\ \A g \in Handlers : g # h => pc'[g] = pc[g] /\ accepted'[g] = accepted[g]
        /\ accepted'[h] = {}
    BY <1>2 DEF Begin, Goto, Typed
  <2> QED BY <1>2, <2>1 DEF Begin, redis, Owned, Typed
<1>3. ASSUME NEW h \in Handlers, RefuseFuture(h) \/ Skip(h) PROVE Kept
  BY <1>3 DEF RefuseFuture, Skip, redis, budget, Owned, Typed
<1>4. ASSUME NEW h \in Handlers, NEW label \in Labels, pc' = [pc EXCEPT ![h] = label],
             label \in {"claim", "insert"} => pc[h] \in {"claim", "insert"},
             UNCHANGED <<accepted, count, claims>>, lost' >= lost
      PROVE  Kept
  BY <1>4, OwnedByOthers
<1>5. ASSUME NEW h \in Handlers, ReadPrevious(h) PROVE Kept
  <2>1. /\ pc[h] = "claim"
        /\ pc' = [pc EXCEPT ![h] = "insert"]
        /\ UNCHANGED <<accepted, count, claims, lost>>
    BY <1>5 DEF ReadPrevious, Goto, redis, taken, budget
  <2>2. \A g \in Handlers : Owned(g)' = Owned(g)
    BY <2>1 DEF Owned, Typed
  <2> QED BY <2>1, <2>2 DEF Typed
<1>6. ASSUME NEW h \in Handlers, NothingAccepted(h) PROVE Kept
  <2>1. /\ pc[h] = "claim"
        /\ pc' = [pc EXCEPT ![h] = "respond"]
        /\ UNCHANGED <<accepted, count, claims, lost>>
    BY <1>6 DEF NothingAccepted, Goto, redis, job, taken, budget
  <2>2. \A g \in Handlers : Owned(g)' \subseteq Owned(g)
    BY <2>1 DEF Owned, Typed
  <2> QED BY <2>1, <2>2 DEF Typed
<1>7. ASSUME NEW h \in Handlers, HsetLive(h) \/ ExpireLive(h) PROVE Kept
  BY <1>4, <1>7 DEF HsetLive, ExpireLive, Goto, job, taken, budget, Labels, Typed
<1>8. ASSUME NEW h \in Handlers, FindInside(h) \/ FindWas(h) PROVE Kept
  BY <1>4, <1>8 DEF FindInside, FindWas, Goto, redis, taken, budget, Labels, Typed
<1>9. ASSUME NEW h \in Handlers, RecordEvents(h) \/ Respond(h) PROVE Kept
  BY <1>4, <1>9 DEF RecordEvents, Respond, Goto, redis, job, taken, budget, Labels, Typed
<1>10. ASSUME NEW h \in Handlers, SwallowGeofenceError(h) \/ Fail(h) PROVE Kept
  BY <1>4, <1>10 DEF SwallowGeofenceError, Fail, Goto, redis, job, taken, Labels, Typed
<1>11. ASSUME LoseLive \/ Tick \/ AdminStep \/ UNCHANGED ingestVars PROVE Kept
  BY <1>11 DEF LoseLive, Tick, AdminStep, ingestVars, redis, job, taken, budget, Owned, Typed
<1> HIDE DEF Kept
<1>12. ASSUME NEW h \in Handlers, Claim(h) PROVE ClaimsAreExclusive'
  <2> DEFINE f == Current(h)
  <2>1. /\ f \in Fixes
        /\ f \notin claims
        /\ claims' = claims \cup {f}
        /\ count' = count /\ lost' = lost
        /\ Owned(h)' = Owned(h) \cup {f}
        /\ \A g \in Handlers : g # h => Owned(g)' = Owned(g)
    BY <1>12 DEF Claim, HasNext, Current, Typed, Owned, budget
  <2> HIDE DEF f
  <2>2. \A g \in Handlers : f \notin Owned(g)
    BY <2>1 DEF ClaimsAreExclusive
  <2>3. \A g \in Fixes : g # f => OwnedBySome(g)' = OwnedBySome(g)
    BY <2>1 DEF OwnedBySome
  <2>4. ~OwnedBySome(f)
    BY <2>2 DEF OwnedBySome
  <2>5. ASSUME NEW g \in Fixes
        PROVE  count'[g] + (IF OwnedBySome(g)' THEN 1 ELSE 0)
                 <= lost' + (IF g \in claims' THEN 1 ELSE 0)
    BY <2>1, <2>3, <2>4, <2>5 DEF ClaimsAreExclusive, Typed
  <2>6. \A g \in Handlers :
          /\ Owned(g)' \subseteq claims'
          /\ \A k \in Handlers : k # g => Owned(k)' \cap Owned(g)' = {}
    BY <2>1, <2>2 DEF ClaimsAreExclusive
  <2> QED BY <2>5, <2>6 DEF ClaimsAreExclusive
<1>13. ASSUME NEW h \in Handlers, Insert(h) PROVE ClaimsAreExclusive'
  <2>1. /\ claims' = claims /\ lost' = lost
        /\ Owned(h)' = {}
        /\ Owned(h) = accepted[h]
        /\ \A g \in Handlers : g # h => Owned(g)' = Owned(g)
        /\ \A f \in Fixes : count'[f] = IF f \in accepted[h] THEN count[f] + 1 ELSE count[f]
    BY <1>13 DEF Insert, Goto, redis, job, taken, budget, Owned, Typed
  <2>2. \A f \in Fixes : f \in accepted[h] => OwnedBySome(f) /\ ~OwnedBySome(f)'
    BY <2>1 DEF OwnedBySome, ClaimsAreExclusive
  <2>3. \A f \in Fixes : f \notin accepted[h] => OwnedBySome(f)' = OwnedBySome(f)
    BY <2>1 DEF OwnedBySome
  <2>4. ASSUME NEW f \in Fixes
        PROVE  count'[f] + (IF OwnedBySome(f)' THEN 1 ELSE 0)
                 <= lost' + (IF f \in claims' THEN 1 ELSE 0)
    BY <2>1, <2>2, <2>3, <2>4 DEF ClaimsAreExclusive, Typed
  <2>5. \A g \in Handlers :
          /\ Owned(g)' \subseteq claims'
          /\ \A k \in Handlers : k # g => Owned(k)' \cap Owned(g)' = {}
    BY <2>1 DEF ClaimsAreExclusive
  <2> QED BY <2>4, <2>5 DEF ClaimsAreExclusive
<1>14. ASSUME NEW f \in Fixes, LoseClaim(f) PROVE ClaimsAreExclusive'
  <2>1. /\ claims' = claims \ {f} /\ f \in claims
        /\ lost' = lost + 1 /\ count' = count
        /\ \A g \in Handlers : Owned(g)' = Owned(g) /\ f \notin Owned(g)
    BY <1>14 DEF LoseClaim, job, taken, Owned
  <2>2. \A g \in Fixes : OwnedBySome(g)' = OwnedBySome(g)
    BY <2>1 DEF OwnedBySome
  <2>3. ASSUME NEW g \in Fixes
        PROVE  count'[g] + (IF OwnedBySome(g)' THEN 1 ELSE 0)
                 <= lost' + (IF g \in claims' THEN 1 ELSE 0)
    BY <2>1, <2>2, <2>3 DEF ClaimsAreExclusive, Typed
  <2> QED BY <2>1, <2>3 DEF ClaimsAreExclusive
<1> QED
  BY <1>1, <1>2, <1>3, <1>5, <1>6, <1>7, <1>8, <1>9, <1>10, <1>11, <1>12, <1>13, <1>14
     DEF AnyStep, ServerStep, HandlerStep
-----------------------------------------------------------------------------
\* The two parts of Accounted for one handler: the records its loop has passed,
\* and that it leaves the loop only at the end.
Passed(h) ==
  \A i \in DOMAIN batch[h] :
    i < next[h] /\ batch[h][i] <= asked[h] + Tolerance => Settled(batch[h][i])
Finished(h) == pc[h] \notin {"idle", "claim"} \/ reply[h] = "ok" => next[h] > Len(batch[h])

\* Accounted, handler by handler.
LEMMA AccountedParts ==
  Accounted <=> (failures = 0 => /\ \A f \in claims : Settled(f)
                                 /\ \A h \in Handlers : Passed(h) /\ Finished(h))
  BY DEF Accounted, Passed, Finished

\* A step that drops nothing and moves no loop.
LEMMA AccountedKept ==
  ASSUME Typed, Accounted, failures' = failures, claims' \subseteq claims,
         \A f \in Fixes : Settled(f) => Settled(f)',
         UNCHANGED <<batch, asked, next>>,
         \A h \in Handlers : Finished(h) => Finished(h)'
  PROVE  Accounted'
<1>1. ASSUME failures = 0, NEW h \in Handlers PROVE Passed(h)'
  <2>1. \A i \in DOMAIN batch[h] : batch[h][i] \in Fixes
    BY DEF Typed
  <2>2. Passed(h)
    BY <1>1, AccountedParts
  <2> QED BY <2>1, <2>2 DEF Passed
<1>2. ASSUME failures = 0 PROVE \A f \in claims' : Settled(f)'
  BY <1>2, AccountedParts DEF Typed
<1>3. ASSUME failures = 0, NEW h \in Handlers PROVE Finished(h)'
  BY <1>3, AccountedParts
<1>4. (failures = 0 => /\ \A f \in claims : Settled(f)
                       /\ \A h \in Handlers : Passed(h) /\ Finished(h))'
  BY <1>1, <1>2, <1>3
<1> QED BY <1>4, AccountedParts DEF Accounted, Passed, Finished

\* A step of the loop of h past its current record.
LEMMA AccountedLoop ==
  ASSUME Typed, Accounted, NEW h \in Handlers, HasNext(h), reply[h] # "ok",
         failures' = failures, claims' \subseteq Fixes,
         UNCHANGED <<batch, asked, pc, reply>>, next' = [next EXCEPT ![h] = @ + 1],
         \A f \in Fixes : Settled(f) => Settled(f)',
         \A f \in claims' : f \in claims \/ Settled(f)',
         \A f \in Fixes : failures = 0 /\ f = Current(h) /\ ~FromFuture(h) => Settled(f)'
  PROVE  Accounted'
<1>1. \A g \in Handlers : \A i \in DOMAIN batch[g] : batch[g][i] \in Fixes /\ i \in Nat
  BY DEF Typed
<1>2. ASSUME failures = 0, NEW g \in Handlers PROVE Passed(g)'
  <2>2. Passed(g)
    BY <1>2, AccountedParts
  <2>3. CASE g # h
    <3>1. next'[g] = next[g]
      BY <2>3 DEF Typed
    <3> QED BY <1>1, <2>2, <3>1 DEF Passed
  <2>4. CASE g = h
    <3>1. next'[h] = next[h] + 1 /\ next[h] \in Nat
      BY DEF Typed
    <3>2. ASSUME NEW i \in DOMAIN batch[h], i < next[h] + 1,
                 batch[h][i] <= asked[h] + Tolerance
          PROVE  Settled(batch[h][i])'
      <4>1. CASE i < next[h]
        BY <1>1, <2>2, <2>4, <3>2, <4>1 DEF Passed
      <4>2. CASE i = next[h]
        <5>1. batch[h][i] = Current(h)
          BY <4>2 DEF Current
        <5>2. batch[h][i] \in Nat /\ asked[h] + Tolerance \in Nat
          <6>1. batch[h][i] \in Nat
            BY <1>1, FixesAreNumbers
          <6>2. asked[h] \in Nat
            BY DEF Typed
          <6> QED BY <6>1, <6>2, ToleranceIsNumber
        <5>3. ~FromFuture(h)
          BY <3>2, <5>1, <5>2 DEF FromFuture
        <5>4. PICK f \in Fixes : f = batch[h][i]
          BY <1>1
        <5>5. Settled(f)'
          BY <1>2, <5>1, <5>3, <5>4
        <5> QED BY <5>4, <5>5 DEF Settled, OwnedBySome
      <4> QED BY <1>1, <3>1, <3>2, <4>1, <4>2
    <3> QED BY <2>4, <3>1, <3>2 DEF Passed
  <2> QED BY <2>3, <2>4
<1>3. ASSUME failures = 0, NEW g \in Handlers PROVE Finished(g)'
  <2>1. Finished(g)
    BY <1>3, AccountedParts
  <2>2. g # h => next'[g] = next[g]
    BY DEF Typed
  <2>3. g = h => pc[g] = "claim" /\ reply[g] # "ok"
    BY DEF HasNext
  <2> QED BY <2>1, <2>2, <2>3 DEF Finished
<1>4. ASSUME failures = 0 PROVE \A f \in claims' : Settled(f)'
  BY <1>4, AccountedParts DEF Typed
<1> QED BY <1>2, <1>3, <1>4 DEF Accounted, Passed, Finished

\* Every step keeps Accounted.
LEMMA AccountedStep ==
  ASSUME Typed, Shaped, ClaimsAreExclusive, Accounted, AnyStep
  PROVE  Accounted'
<1> DEFINE SameSettled == \A f \in Fixes : Settled(f)' = Settled(f)
<1>1. ASSUME count' = count, \A g \in Handlers : Owned(g)' = Owned(g) PROVE SameSettled
  BY <1>1, StoredStays DEF Settled, OwnedBySome
<1>2. ASSUME NEW h \in Handlers, NEW label \in Labels, count' = count, accepted' = accepted,
             pc' = [pc EXCEPT ![h] = label],
             \/ pc[h] \in {"claim", "insert"} <=> label \in {"claim", "insert"}
             \/ accepted[h] = {}
      PROVE  SameSettled
  BY <1>1, <1>2 DEF Owned, Typed
<1>3. ASSUME NEW h \in Handlers, NEW fixes \in Seq(Fixes), Begin(h, fixes) PROVE Accounted'
  <2>1. /\ pc[h] = "idle" /\ pc' = [pc EXCEPT ![h] = "claim"]
        /\ accepted' = [accepted EXCEPT ![h] = {}]
        /\ next' = [next EXCEPT ![h] = 1]
        /\ reply' = [reply EXCEPT ![h] = "none"]
        /\ count' = count /\ claims' = claims /\ failures' = failures
    BY <1>3 DEF Begin, Goto, redis
  <2>2. SameSettled
    BY <1>1, <2>1 DEF Owned, Typed
  <2>3. \A g \in Handlers : g # h => Passed(g)' = Passed(g) /\ Finished(g)' = Finished(g)
    <3>1. \A g \in Handlers : g # h => /\ batch'[g] = batch[g] /\ asked'[g] = asked[g]
                                       /\ next'[g] = next[g] /\ pc'[g] = pc[g]
                                       /\ reply'[g] = reply[g]
      BY <1>3, <2>1 DEF Begin, Typed
    <3>2. \A g \in Handlers : \A i \in DOMAIN batch[g] : batch[g][i] \in Fixes
      BY DEF Typed
    <3> QED BY <2>2, <3>1, <3>2 DEF Passed, Finished
  <2>4. Passed(h)' /\ Finished(h)'
    <3>1. next'[h] = 1 /\ pc'[h] = "claim" /\ reply'[h] = "none"
      BY <2>1 DEF Typed
    <3>2. \A i \in DOMAIN batch'[h] : ~(i < 1)
      BY TypedStep DEF Typed
    <3> QED BY <3>1, <3>2 DEF Passed, Finished
  <2> QED BY <2>1, <2>2, <2>3, <2>4 DEF Accounted, Passed, Finished, Typed
<1>4. ASSUME NEW h \in Handlers, RefuseFuture(h) PROVE Accounted'
  <2>1. SameSettled
    BY <1>1, <1>4 DEF RefuseFuture, Owned
  <2>2. /\ HasNext(h) /\ FromFuture(h) /\ failures' = failures /\ claims' = claims
        /\ UNCHANGED <<batch, asked, pc, reply>> /\ next' = [next EXCEPT ![h] = @ + 1]
    BY <1>4 DEF RefuseFuture, redis, request, budget
  <2>3. reply[h] # "ok"
    BY <2>2 DEF HasNext, Shaped
  <2> QED BY <2>1, <2>2, <2>3, AccountedLoop DEF Typed
<1>5. ASSUME NEW h \in Handlers, Skip(h) PROVE Accounted'
  <2>1. SameSettled
    BY <1>1, <1>5 DEF Skip, Owned
  <2>2. /\ HasNext(h) /\ Current(h) \in claims /\ failures' = failures /\ claims' = claims
        /\ UNCHANGED <<batch, asked, pc, reply>> /\ next' = [next EXCEPT ![h] = @ + 1]
    BY <1>5 DEF Skip, redis, request, budget
  <2>3. reply[h] # "ok"
    BY <2>2 DEF HasNext, Shaped
  <2>4. failures = 0 => Settled(Current(h))
    BY <2>2, AccountedParts
  <2>5. \A f \in Fixes : failures = 0 /\ f = Current(h) => Settled(f)
    BY <2>4
  <2> QED BY <2>1, <2>2, <2>3, <2>5, AccountedLoop DEF Typed
<1>6. ASSUME NEW h \in Handlers, Claim(h) PROVE Accounted'
  <2>1. /\ HasNext(h) /\ failures' = failures /\ claims' = claims \cup {Current(h)}
        /\ UNCHANGED <<batch, asked, pc, reply, count>> /\ next' = [next EXCEPT ![h] = @ + 1]
        /\ Current(h) \in Fixes
        /\ \A g \in Handlers : g # h => Owned(g)' = Owned(g)
        /\ Owned(h)' = Owned(h) \cup {Current(h)}
    BY <1>6 DEF Claim, request, budget, HasNext, Current, Typed, Owned
  <2>2. reply[h] # "ok"
    BY <2>1 DEF HasNext, Shaped
  <2>3. \A f \in Fixes : OwnedBySome(f)' <=> OwnedBySome(f) \/ f = Current(h)
    BY <2>1 DEF OwnedBySome
  <2>4. \A f \in Fixes : Settled(f)' <=> Settled(f) \/ f = Current(h)
    BY <2>1, <2>3, StoredStays DEF Settled
  <2> QED BY <2>1, <2>2, <2>4, AccountedLoop DEF Typed
<1>7. ASSUME NEW h \in Handlers, ReadPrevious(h) PROVE Accounted'
  <2>1. /\ pc[h] = "claim" /\ ~HasNext(h) /\ pc' = [pc EXCEPT ![h] = "insert"]
        /\ UNCHANGED <<batch, asked, next, accepted, count, claims, failures, reply>>
    BY <1>7 DEF ReadPrevious, Goto, redis, request, taken, budget
  <2>2. SameSettled
    BY <1>2, <2>1 DEF Labels
  <2>3. \A g \in Handlers : Finished(g) => Finished(g)'
    BY <2>1 DEF Finished, HasNext, Typed
  <2> QED BY <2>1, <2>2, <2>3, AccountedKept
<1>8. ASSUME NEW h \in Handlers, NothingAccepted(h) PROVE Accounted'
  <2>1. /\ pc[h] = "claim" /\ ~HasNext(h) /\ pc' = [pc EXCEPT ![h] = "respond"] /\ newest[h] = 0
        /\ UNCHANGED <<batch, asked, next, accepted, count, claims, failures, reply>>
    BY <1>8 DEF NothingAccepted, Goto, redis, job, request, taken, budget
  <2>2. accepted[h] = {}
    <3>1. 0 \notin accepted[h]
      BY FixesAreNumbers DEF Typed
    <3> QED BY <2>1, <3>1 DEF Shaped
  <2>3. SameSettled
    BY <1>2, <2>1, <2>2 DEF Labels
  <2>4. \A g \in Handlers : Finished(g) => Finished(g)'
    BY <2>1 DEF Finished, HasNext, Typed
  <2> QED BY <2>1, <2>3, <2>4, AccountedKept
<1>9. ASSUME NEW h \in Handlers, Insert(h) PROVE Accounted'
  <2>1. /\ pc[h] = "insert" /\ pc' = [pc EXCEPT ![h] = "live"]
        /\ UNCHANGED <<batch, asked, next, accepted, claims, failures, reply>>
    BY <1>9 DEF Insert, Goto, redis, job, request, taken, budget
  <2>2. \A g \in Handlers : g # h => Owned(g)' = Owned(g)
    BY <2>1 DEF Owned, Typed
  <2>3. Owned(h) = accepted[h] /\ Stored' = Stored \cup accepted[h]
    BY <1>9, <2>1, InsertStores DEF Owned
  <2>4. \A f \in Fixes : Settled(f) => Settled(f)'
    BY <2>2, <2>3 DEF Settled, OwnedBySome
  <2>5. \A g \in Handlers : Finished(g) => Finished(g)'
    BY <2>1 DEF Finished, Typed
  <2> QED BY <2>1, <2>4, <2>5, AccountedKept
<1>10. ASSUME NEW h \in Handlers, NEW label \in Labels,
              pc[h] \notin {"idle", "claim", "insert"}, pc' = [pc EXCEPT ![h] = label],
              label \notin {"claim", "insert"},
              reply' = reply \/ (label = "idle" /\ reply' = [reply EXCEPT ![h] = "ok"]),
              UNCHANGED <<batch, asked, next, accepted, count, claims, failures>>
       PROVE  Accounted'
  <2>1. SameSettled
    BY <1>2, <1>10
  <2>2. \A g \in Handlers : Finished(g) => Finished(g)'
    BY <1>10 DEF Finished, Typed
  <2> QED BY <1>10, <2>1, <2>2, AccountedKept
<1>11. ASSUME NEW h \in Handlers, HsetLive(h) \/ ExpireLive(h) PROVE Accounted'
  BY <1>10, <1>11 DEF HsetLive, ExpireLive, Goto, job, request, taken, budget, Labels
<1>12. ASSUME NEW h \in Handlers, FindInside(h) \/ FindWas(h) PROVE Accounted'
  BY <1>10, <1>12 DEF FindInside, FindWas, Goto, redis, request, taken, budget, Labels
<1>13. ASSUME NEW h \in Handlers, RecordEvents(h) \/ Respond(h) PROVE Accounted'
  BY <1>10, <1>13 DEF RecordEvents, Respond, Goto, redis, job, request, taken, budget, Labels
<1>14. ASSUME NEW h \in Handlers, SwallowGeofenceError(h) \/ Fail(h) PROVE Accounted'
  BY <1>14 DEF SwallowGeofenceError, Fail, Accounted, Typed
<1>15. ASSUME UNCHANGED <<batch, asked, next, accepted, count, pc, reply, failures>>,
              claims' \subseteq claims
       PROVE  Accounted'
  <2>1. SameSettled
    BY <1>1, <1>15 DEF Owned
  <2>2. \A g \in Handlers : Finished(g) => Finished(g)'
    BY <1>15 DEF Finished
  <2> QED BY <1>15, <2>1, <2>2, AccountedKept
<1>16. ASSUME NEW f \in Fixes, LoseClaim(f) PROVE Accounted'
  BY <1>15, <1>16 DEF LoseClaim, job, request, taken
<1>17. ASSUME LoseLive \/ Tick \/ AdminStep \/ UNCHANGED ingestVars PROVE Accounted'
  BY <1>15, <1>17 DEF LoseLive, Tick, AdminStep, ingestVars, redis, job, request, taken, budget
<1> QED
  BY <1>3, <1>4, <1>5, <1>6, <1>7, <1>8, <1>9, <1>11, <1>12, <1>13, <1>14, <1>16, <1>17
     DEF AnyStep, ServerStep, HandlerStep

\* IInv is inductive.
LEMMA NextIInv == IInv /\ AnyStep => IInv'
  BY TypedStep, ShapedStep, ExclusiveStep, AccountedStep, LiveStep DEF IInv

\* The inductive invariant holds of every behaviour of the ingest
\* (LocationService.ingest_batch, location_service.py:153-210).
THEOREM AlwaysIInv == IngestSpec => []IInv
  BY InitIInv, NextIInv, NextIsAnyStep, PTL DEF IngestSpec
-----------------------------------------------------------------------------
\* The bound on the rows of a fix is part of the inductive invariant.
LEMMA IInvLimitsDuplicates == IInv => DuplicatesOnlyByLoss
<1> SUFFICES ASSUME IInv, NEW f \in Fixes PROVE count[f] <= 1 + lost
  BY DEF DuplicatesOnlyByLoss
<1>1. count[f] \in Nat /\ lost \in Nat
  BY DEF IInv, Typed
<1>2. count[f] + (IF OwnedBySome(f) THEN 1 ELSE 0) <= lost + (IF f \in claims THEN 1 ELSE 0)
  BY DEF IInv, ClaimsAreExclusive
<1> QED BY <1>1, <1>2

\* However many batches overlap, are sent again or are cut short: a fix has at
\* most one row more than claims have expired or been evicted.
THEOREM FewDuplicates == IngestSpec => []DuplicatesOnlyByLoss
  BY IInvLimitsDuplicates, AlwaysIInv, PTL

\* No claim has been lost yet.
NoneLost == lost = 0

\* While no claim is lost no fix is inserted twice.
THEOREM EachFixOnce == ASSUME MaxLost = 0 PROVE IngestSpec => []NoFixTwice
<1>1. IngestInit => NoneLost
  BY DEF IngestInit, NoneLost
<1>2. NoneLost /\ AnyStep => NoneLost'
  <2> SUFFICES ASSUME lost = 0, AnyStep PROVE lost' = 0
    BY DEF NoneLost
  <2>1. ASSUME NEW f \in Fixes, LoseClaim(f) PROVE FALSE
    BY <2>1 DEF LoseClaim
  <2>2. ~LoseLive
    BY DEF LoseLive
  <2>3. ASSUME NEW h \in Handlers, NEW fixes \in Seq(Fixes), Begin(h, fixes) PROVE lost' = lost
    BY <2>3 DEF Begin
  <2>4. ASSUME NEW h \in Handlers, HandlerStep(h) PROVE lost' = lost
    BY <2>4 DEF HandlerStep, RefuseFuture, Claim, Skip, ReadPrevious, NothingAccepted, Insert,
      HsetLive, ExpireLive, FindInside, FindWas, RecordEvents, Respond, budget
  <2>5. ASSUME NEW h \in Handlers, SwallowGeofenceError(h) \/ Fail(h) PROVE lost' = lost
    BY <2>5 DEF SwallowGeofenceError, Fail
  <2>6. ASSUME Tick \/ AdminStep \/ UNCHANGED ingestVars PROVE lost' = lost
    BY <2>6 DEF Tick, AdminStep, ingestVars, budget
  <2> QED BY <2>1, <2>2, <2>3, <2>4, <2>5, <2>6 DEF AnyStep, ServerStep
<1>3. DuplicatesOnlyByLoss /\ NoneLost => NoFixTwice
  BY DEF DuplicatesOnlyByLoss, NoneLost, NoFixTwice
<1> QED BY <1>1, <1>2, <1>3, NextIsAnyStep, FewDuplicates, PTL DEF IngestSpec

\* The live position is always one of a committed row.
THEOREM LiveIsCommitted == IngestSpec => []LiveIsStored
<1>1. IInv => LiveIsStored
  BY DEF IInv
<1> QED BY <1>1, AlwaysIInv, PTL

\* Without failures an answer of success means that everything in the batch that
\* is not from the future is stored, by whoever claimed it, once nobody is busy.
THEOREM SuccessMeansStored == IngestSpec => []AnsweredIsStoredAtRest
<1>1. IInv => AnsweredIsStoredAtRest
  <2> SUFFICES ASSUME IInv, AtRest, failures = 0, NEW h \in Handlers, reply[h] = "ok",
                      NEW i \in DOMAIN batch[h], batch[h][i] <= asked[h] + Tolerance
               PROVE  batch[h][i] \in Stored
    BY DEF AnsweredIsStoredAtRest
  <2>1. Passed(h) /\ Finished(h)
    BY AccountedParts DEF IInv
  <2>2. i < next[h]
    <3>1. batch[h] \in Seq(Fixes) /\ next[h] \in Nat
      BY DEF IInv, Typed
    <3>2. next[h] > Len(batch[h])
      BY <2>1 DEF Finished
    <3> QED BY <3>1, <3>2
  <2>4. Settled(batch[h][i])
    BY <2>1, <2>2 DEF Passed
  <2>3. ~OwnedBySome(batch[h][i])
    BY DEF AtRest, OwnedBySome, Owned
  <2> QED BY <2>3, <2>4 DEF Settled
<1> QED BY <1>1, AlwaysIInv, PTL
-----------------------------------------------------------------------------
\* The zones that are everybody's or the employee's team's.
OwnZones == {z \in Zones : zone[z].scope = "UNIVERSAL" \/ zone[z].team = team}

\* Until a zone or the membership changes, a handler checks for the team the
\* employee is in, and holds no zone of another team.
ChecksOwn ==
  /\ zoneOps \in Nat
  /\ team \in Teams \cup {NoTeam}
  /\ seenTeam \in [Handlers -> Teams \cup {NoTeam}]
  /\ inside \in [Handlers -> SUBSET Zones]
  /\ was \in [Handlers -> SUBSET Zones]
  /\ zoneOps = 0 =>
       \A h \in Handlers : pc[h] # "idle" =>
         seenTeam[h] = team /\ inside[h] \subseteq OwnZones /\ was[h] \subseteq OwnZones

\* A change of the zones or of the membership is counted, and moves no handler.
LEMMA AdminChecksOwn == ASSUME ChecksOwn, AdminStep PROVE ChecksOwn'
<1>1. /\ zoneOps' = zoneOps + 1
      /\ team' \in Teams \cup {NoTeam}
  BY DEF ChecksOwn, AdminStep, ZoneStep, ZoneOp, CreateZone, UpdateZone, SoftDelete, MoveEmployee
<1>2. UNCHANGED <<seenTeam, inside, was>>
  BY DEF AdminStep, job, request, check
<1> QED BY <1>1, <1>2 DEF ChecksOwn

\* A step that leaves the zones and what the handlers have found alone, and wakes
\* no idle one.
LEMMA ChecksOwnKept ==
  ASSUME ChecksOwn, UNCHANGED <<zoneVars, seenTeam, inside, was>>,
         \A h \in Handlers : pc'[h] # "idle" => pc[h] # "idle"
  PROVE  ChecksOwn'
<1>1. OwnZones' = OwnZones
  BY DEF OwnZones, zoneVars
<1> QED BY <1>1 DEF ChecksOwn, zoneVars

\* Every step keeps it.
LEMMA ChecksOwnStep == ASSUME Typed, ChecksOwn, AnyStep PROVE ChecksOwn'
<1>0. pc \in [Handlers -> Labels]
  BY DEF Typed
<1>1. ASSUME NEW h \in Handlers, NEW fixes \in Seq(Fixes), Begin(h, fixes) PROVE ChecksOwn'
  <2>1. OwnZones' = OwnZones
    BY <1>1 DEF Begin, OwnZones, zoneVars
  <2> QED BY <1>0, <1>1, <2>1 DEF Begin, Goto, ChecksOwn, zoneVars
<1>2. ASSUME NEW h \in Handlers, FindInside(h) PROVE ChecksOwn'
  <2> DEFINE found == Containing(Place[newest[h]], seenTeam[h])
  <2>1. OwnZones' = OwnZones
    BY <1>2 DEF FindInside, OwnZones, zoneVars
  <2>2. found \subseteq Zones /\ (seenTeam[h] = team => found \subseteq OwnZones)
    BY DEF Containing, OwnZones
  <2>3. /\ inside' = [inside EXCEPT ![h] = found]
        /\ pc[h] = "inside"
        /\ UNCHANGED <<seenTeam, was, zoneVars>>
    BY <1>2 DEF FindInside, request
  <2>4. \A g \in Handlers : pc'[g] # "idle" => pc[g] # "idle"
    BY <1>0, <1>2 DEF FindInside, Goto
  <2> HIDE DEF found
  <2> QED BY <2>1, <2>2, <2>3, <2>4 DEF ChecksOwn, zoneVars
<1>3. ASSUME NEW h \in Handlers, FindWas(h) PROVE ChecksOwn'
  <2> DEFINE found == Containing(Place[prev[h]], seenTeam[h])
  <2>1. OwnZones' = OwnZones
    BY <1>3 DEF FindWas, OwnZones, zoneVars
  <2>2. found \subseteq Zones /\ (seenTeam[h] = team => found \subseteq OwnZones)
    BY DEF Containing, OwnZones
  <2>3. /\ was' = [was EXCEPT ![h] = found]
        /\ pc[h] = "was"
        /\ UNCHANGED <<seenTeam, inside, zoneVars>>
    BY <1>3 DEF FindWas, request
  <2>4. \A g \in Handlers : pc'[g] # "idle" => pc[g] # "idle"
    BY <1>0, <1>3 DEF FindWas, Goto
  <2> HIDE DEF found
  <2> QED BY <2>1, <2>2, <2>3, <2>4 DEF ChecksOwn, zoneVars
<1>4. ASSUME NEW h \in Handlers, RefuseFuture(h) \/ Claim(h) \/ Skip(h) PROVE ChecksOwn'
  BY <1>4, ChecksOwnKept DEF RefuseFuture, Claim, Skip, request, check
<1>5. ASSUME NEW h \in Handlers, ReadPrevious(h) PROVE ChecksOwn'
  BY <1>0, <1>5, ChecksOwnKept DEF ReadPrevious, Goto, request
<1>6. ASSUME NEW h \in Handlers,
             NothingAccepted(h) \/ Insert(h) \/ HsetLive(h) \/ ExpireLive(h) PROVE ChecksOwn'
  <2>1. \A g \in Handlers : pc'[g] # "idle" => pc[g] # "idle"
    BY <1>0, <1>6 DEF NothingAccepted, Insert, HsetLive, ExpireLive, Goto
  <2> QED BY <1>6, <2>1, ChecksOwnKept
    DEF NothingAccepted, Insert, HsetLive, ExpireLive, job, request, check
<1>7. ASSUME NEW h \in Handlers,
             RecordEvents(h) \/ Respond(h) \/ SwallowGeofenceError(h) \/ Fail(h) PROVE ChecksOwn'
  <2>1. \A g \in Handlers : pc'[g] # "idle" => pc[g] # "idle"
    BY <1>0, <1>7 DEF RecordEvents, Respond, SwallowGeofenceError, Fail, Goto
  <2> QED BY <1>7, <2>1, ChecksOwnKept
    DEF RecordEvents, Respond, SwallowGeofenceError, Fail, job, request, check
<1>8. ASSUME (\E f \in Fixes : LoseClaim(f)) \/ LoseLive \/ Tick \/ UNCHANGED ingestVars
      PROVE  ChecksOwn'
  BY <1>8, ChecksOwnKept DEF LoseClaim, LoseLive, Tick, ingestVars, job, request, check
<1> QED
  BY <1>1, <1>2, <1>3, <1>4, <1>5, <1>6, <1>7, <1>8, AdminChecksOwn
     DEF AnyStep, ServerStep, HandlerStep

\* Only RecordEvents writes events, and only of zones the handler holds.
LEMMA EventsOfHeldZones ==
  ASSUME AnyStep, NEW z \in Zones, events'[z] # events[z]
  PROVE  \E h \in Handlers : pc[h] = "record" /\ z \in inside[h] \cup was[h]
<1>1. ASSUME events' = events PROVE FALSE
  BY <1>1
<1>2. ASSUME NEW h \in Handlers, HandlerStep(h), ~RecordEvents(h) PROVE FALSE
  BY <1>1, <1>2 DEF HandlerStep, RefuseFuture, Claim, Skip, ReadPrevious, NothingAccepted, Insert,
    HsetLive, ExpireLive, FindInside, FindWas, Respond
<1>3. ASSUME NEW h \in Handlers, SwallowGeofenceError(h) \/ Fail(h) PROVE FALSE
  BY <1>1, <1>3 DEF SwallowGeofenceError, Fail
<1>4. ASSUME NEW h \in Handlers, NEW fixes \in Seq(Fixes), Begin(h, fixes) PROVE FALSE
  BY <1>1, <1>4 DEF Begin
<1>5. ~AdminStep
  BY <1>1 DEF AdminStep, ZoneStep, CreateZone, UpdateZone, SoftDelete, MoveEmployee, ZoneOp
<1>6. ~((\E f \in Fixes : LoseClaim(f)) \/ LoseLive \/ Tick \/ UNCHANGED ingestVars)
  BY <1>1 DEF LoseClaim, LoseLive, Tick, ingestVars
<1>7. PICK h \in Handlers : RecordEvents(h)
  BY <1>2, <1>3, <1>4, <1>5, <1>6 DEF AnyStep, ServerStep
<1>8. z \in inside[h] \cup was[h]
  BY <1>7 DEF RecordEvents, Recorded
<1> QED BY <1>7, <1>8 DEF RecordEvents

\* While the zones and the membership stay as they are, whatever handlers are
\* under way, an event is of a zone for everybody or of the employee's team
\* (GeofenceService.check_geofence_events with the team of the request's session).
THEOREM EventsAreOfOwnZones == IngestSpec => EventsOnlyOfOwnTeam
<1>1. IngestInit => ChecksOwn
  BY DEF IngestInit, GeofenceInit, ChecksOwn
<1>2. IInv /\ ChecksOwn /\ [IngestNext]_ingestVars => ChecksOwn'
  BY ChecksOwnStep, NextIsAnyStep DEF IInv
<1>3. ASSUME ChecksOwn, [IngestNext]_ingestVars
      PROVE  [zoneOps = 0 => \A z \in Zones : events'[z] # events[z] =>
                zone[z].scope = "UNIVERSAL" \/ zone[z].team = team]_events
  <2> SUFFICES ASSUME zoneOps = 0, NEW z \in Zones, events'[z] # events[z]
               PROVE  zone[z].scope = "UNIVERSAL" \/ zone[z].team = team
    OBVIOUS
  <2>1. PICK h \in Handlers : pc[h] = "record" /\ z \in inside[h] \cup was[h]
    BY <1>3, EventsOfHeldZones, NextIsAnyStep
  <2>2. z \in OwnZones
    BY <1>3, <2>1 DEF ChecksOwn
  <2> QED BY <2>2 DEF OwnZones
<1> QED BY <1>1, <1>2, <1>3, AlwaysIInv, PTL DEF IngestSpec, EventsOnlyOfOwnTeam
-----------------------------------------------------------------------------
(***************************************************************************)
(* What a device may forget: the end-to-end guarantee of SyncEngine, for   *)
(* any number of uploaders, fixes, handlers, lost answers and kills.  It   *)
(* rests on the invariant of the server, which holds for any sequence of   *)
(* batches.                                                                *)
(***************************************************************************)

\* While no handler fails, what is about to be marked is stored or in hand.
Delivered ==
  failures = 0 =>
    \A u \in Uploaders : up[u] = "mark" =>
      \A i \in DOMAIN sent[u] : sent[u][i] <= Tolerance => Settled(sent[u][i])

SyncInv == IInv /\ SyncTypeOK /\ Delivered /\ SyncedIsSafe
-----------------------------------------------------------------------------
\* The steps of the device that leave the server alone.
Local(u) ==
  \/ SyncNow(u) \/ Offline(u) \/ Flush(u) \/ Online(u) \/ Requeue(u) \/ ReadBatch(u)
  \/ NothingLeft(u) \/ Refused(u) \/ MarkFailed(u) \/ Answered(u) \/ MarkSynced(u)
  \/ Finish(u) \/ Lost(u)

\* The cases of a step of the system.
LEMMA SyncCases ==
  ASSUME [SyncNext]_syncVars
  PROVE  \/ \E f \in Fixes : Record(f)
         \/ \E u \in Uploaders : Local(u)
         \/ \E u \in Uploaders, h \in Handlers : Post(u, h)
         \/ Kill
         \/ ServerStep /\ UNCHANGED deviceVars
         \/ AdminStep /\ UNCHANGED deviceVars
         \/ UNCHANGED syncVars
  BY DEF SyncNext, DeviceStep, PassStep, Local

\* A Local step of u leaves the server as it is.
LEMMA LocalIsLocal == ASSUME NEW u \in Uploaders, Local(u) PROVE UNCHANGED ingestVars
  BY DEF Local, SyncNow, Offline, Flush, Online, Requeue, ReadBatch, NothingLeft, Refused,
    MarkFailed, Answered, MarkSynced, Finish, Lost

\* To the server, a step of the system is one of its own, of an administrator,
\* or the arrival of a batch.
LEMMA ServerSide == ASSUME SyncTypeOK, [SyncNext]_syncVars PROVE AnyStep
<1>1. ASSUME NEW f \in Fixes, Record(f) PROVE AnyStep
  BY <1>1 DEF Record, AnyStep
<1>2. ASSUME NEW u \in Uploaders, Local(u) PROVE AnyStep
  BY <1>2, LocalIsLocal DEF AnyStep
<1>3. ASSUME NEW u \in Uploaders, NEW h \in Handlers, Post(u, h) PROVE AnyStep
  BY <1>3 DEF Post, AnyStep, SyncTypeOK, DeviceTypeOK
<1>4. CASE Kill
  BY <1>4 DEF Kill, AnyStep
<1>5. CASE ServerStep \/ AdminStep
  BY <1>5 DEF AnyStep
<1>6. CASE UNCHANGED syncVars
  BY <1>6 DEF syncVars, AnyStep
<1> QED BY <1>1, <1>2, <1>3, <1>4, <1>5, <1>6, SyncCases
-----------------------------------------------------------------------------
\* Who is doing what to a batch: only an arrival changes it.
LEMMA BatchStays ==
  ASSUME ServerStep \/ AdminStep \/ UNCHANGED ingestVars PROVE batch' = batch
<1>1. ASSUME NEW h \in Handlers, HandlerStep(h) PROVE batch' = batch
  BY <1>1 DEF HandlerStep, RefuseFuture, Claim, Skip, ReadPrevious, NothingAccepted, Insert,
    HsetLive, ExpireLive, FindInside, FindWas, RecordEvents, Respond, job, request
<1>2. ASSUME NEW h \in Handlers, SwallowGeofenceError(h) \/ Fail(h) PROVE batch' = batch
  BY <1>2 DEF SwallowGeofenceError, Fail, job, request
<1>3. ASSUME NEW f \in Fixes, LoseClaim(f) PROVE batch' = batch
  BY <1>3 DEF LoseClaim, job, request
<1>4. ASSUME Tick \/ LoseLive \/ AdminStep \/ UNCHANGED ingestVars PROVE batch' = batch
  BY <1>4 DEF Tick, LoseLive, AdminStep, ingestVars, job, request
<1> QED BY <1>1, <1>2, <1>3, <1>4 DEF ServerStep

\* A request without a handler is told apart from one with.
LEMMA NoHandlerIsNone == NoHandler \notin Handlers
  BY SyncAssumption

\* An uploader that has read nothing has read a sequence of fixes.
LEMMA NothingIsASequence == <<>> \in Seq(Fixes)
  OBVIOUS

\* What markFailed leaves of a batch.
LEMMA TailOfBatch ==
  ASSUME NEW s \in Seq(Fixes), Len(s) > 0
  PROVE  Tail(s) \in Seq(Fixes) /\ (Len(s) # 1 => Len(Tail(s)) > 0)
<1>1. s # <<>> /\ Len(s) \in Nat
  OBVIOUS
<1>2. Tail(s) \in Seq(Fixes) /\ Len(Tail(s)) = Len(s) - 1
  BY <1>1, HeadTailProperties, Zenon
<1> QED BY <1>1, <1>2

\* The device starts idle, with nobody holding the lock.
LEMMA SyncTypeOKInit == SyncInit => SyncTypeOK
<1> SUFFICES ASSUME SyncInit PROVE SyncTypeOK
  OBVIOUS
<1>1. up \in [Uploaders -> PassLabels]
  BY DEF SyncInit, PassLabels
<1>2. sent \in [Uploaders -> Seq(Fixes)]
  BY NothingIsASequence DEF SyncInit
<1>3. DeviceTypeOK
  BY <1>1, <1>2 DEF SyncInit, DeviceTypeOK
<1>4. HandlersAreOwn /\ LockIsHeld
  BY DEF SyncInit, HandlersAreOwn, LockIsHeld
<1> QED BY <1>3, <1>4 DEF SyncTypeOK

\* Every step keeps the types of the device's state.
LEMMA DeviceTypeOKStep == ASSUME DeviceTypeOK, [SyncNext]_syncVars PROVE DeviceTypeOK'
<1> USE DEF DeviceTypeOK, PassLabels, Move
<1>1. ASSUME NEW f \in Fixes, Record(f) PROVE DeviceTypeOK'
  BY <1>1 DEF Record
<1>2. ASSUME NEW u \in Uploaders, Local(u) PROVE DeviceTypeOK'
  <2>1. CASE SyncNow(u) \/ Offline(u) \/ Flush(u)
    BY <2>1 DEF SyncNow, Offline, Flush
  <2>2. CASE Online(u)
    BY <2>2 DEF Online
  <2>3. CASE Requeue(u)
    <3>1. queue' \in [Fixes -> {"none", "pending", "failed", "synced"}]
      BY <2>3 DEF Requeue
    <3> QED BY <2>3, <3>1 DEF Requeue
  <2>4. CASE ReadBatch(u)
    <3>1. Batches \subseteq Seq(Fixes)
      BY IngestAssumption
    <3> QED BY <2>4, <3>1 DEF ReadBatch
  <2>5. CASE NothingLeft(u)
    BY <2>5 DEF NothingLeft
  <2>6. CASE Refused(u)
    <3>1. Len(sent[u]) > 0
      BY <2>6 DEF Refused, IsPoison
    <3> QED BY <2>6, <3>1 DEF Refused
  <2>7. CASE MarkFailed(u)
    <3>1. sent[u] \in Seq(Fixes) /\ Len(sent[u]) > 0
      BY <2>7 DEF MarkFailed
    <3>2. Tail(sent[u]) \in Seq(Fixes) /\ (Len(sent[u]) # 1 => Len(Tail(sent[u])) > 0)
      BY <3>1, TailOfBatch
    <3>3. queue' \in [Fixes -> {"none", "pending", "failed", "synced"}]
      BY <2>7 DEF MarkFailed
    <3> QED BY <2>7, <3>2, <3>3 DEF MarkFailed
  <2>8. CASE Answered(u)
    BY <2>8 DEF Answered
  <2>9. CASE MarkSynced(u)
    <3>1. queue' \in [Fixes -> {"none", "pending", "failed", "synced"}]
      BY <2>9 DEF MarkSynced
    <3> QED BY <2>9, <3>1 DEF MarkSynced
  <2>10. CASE Finish(u)
    <3>1. running' \in BOOLEAN
      BY <2>10 DEF Finish
    <3>2. sent' \in [Uploaders -> Seq(Fixes)]
      BY <2>10, NothingIsASequence DEF Finish
    <3>3. up' \in [Uploaders -> PassLabels] /\ up'[u] = "idle"
          /\ \A v \in Uploaders : v # u => up'[v] = up[v] /\ sent'[v] = sent[v]
      BY <2>10 DEF Finish
    <3> QED BY <2>10, <3>1, <3>2, <3>3 DEF Finish
  <2>11. CASE Lost(u)
    BY <2>11 DEF Lost
  <2> QED BY <1>2, <2>1, <2>2, <2>3, <2>4, <2>5, <2>6, <2>7, <2>8, <2>9, <2>10, <2>11 DEF Local
<1>3. ASSUME NEW u \in Uploaders, NEW h \in Handlers, Post(u, h) PROVE DeviceTypeOK'
  BY <1>3 DEF Post
<1>4. CASE Kill
  <2>1. sent' \in [Uploaders -> Seq(Fixes)]
    BY <1>4, NothingIsASequence DEF Kill
  <2>2. up' \in [Uploaders -> PassLabels] /\ \A u \in Uploaders : up'[u] = "idle"
    BY <1>4 DEF Kill
  <2> QED BY <1>4, <2>1, <2>2 DEF Kill
<1>5. CASE UNCHANGED deviceVars
  BY <1>5 DEF deviceVars
<1>6. CASE UNCHANGED syncVars
  BY <1>5, <1>6 DEF syncVars
<1> HIDE DEF DeviceTypeOK, PassLabels, Move
<1> QED BY <1>1, <1>2, <1>3, <1>4, <1>5, <1>6, SyncCases

\* Every step keeps the lock with a pass: the one that ends releases it, and a
\* pass that still runs may be left without it.
LEMMA LockIsHeldStep ==
  ASSUME DeviceTypeOK, LockIsHeld, [SyncNext]_syncVars PROVE LockIsHeld'
<1> USE DEF LockIsHeld, InPass, Move
<1>0. Engines \subseteq Uploaders /\ DOMAIN up = Uploaders
  BY DEF Uploaders, DeviceTypeOK
<1>1. ASSUME NEW f \in Fixes, Record(f) PROVE LockIsHeld'
  BY <1>1 DEF Record
<1>2. ASSUME NEW u \in Uploaders, Local(u) PROVE LockIsHeld'
  <2>1. CASE Online(u)
    BY <1>0, <2>1 DEF Online
  <2>2. CASE Finish(u)
    <3>1. CASE u \in Engines
      BY <2>2, <3>1 DEF Finish
    <3>2. CASE u \notin Engines
      BY <1>0, <2>2, <3>2 DEF Finish
    <3> QED BY <3>1, <3>2
  <2>3. CASE ~Online(u) /\ ~Finish(u)
    <3>1. /\ running' = running
          /\ \E label \in PassLabels :
               /\ up' = [up EXCEPT ![u] = label]
               /\ up[u] \in {"idle", "probe"} \/ label \notin {"idle", "probe"}
      BY <1>2, <2>3 DEF Local, SyncNow, Offline, Flush, Requeue, ReadBatch, NothingLeft, Refused,
        MarkFailed, Answered, MarkSynced, Lost, PassLabels
    <3> QED BY <1>0, <3>1
  <2> QED BY <2>1, <2>2, <2>3
<1>3. ASSUME NEW u \in Uploaders, NEW h \in Handlers, Post(u, h) PROVE LockIsHeld'
  BY <1>0, <1>3 DEF Post
<1>4. CASE Kill
  BY <1>4 DEF Kill
<1>5. CASE UNCHANGED deviceVars
  BY <1>5 DEF deviceVars
<1>6. CASE UNCHANGED syncVars
  BY <1>5, <1>6 DEF syncVars
<1> HIDE DEF LockIsHeld, InPass, Move
<1> QED BY <1>1, <1>2, <1>3, <1>4, <1>5, <1>6, SyncCases

\* Every step keeps each request with a handler of its own.
LEMMA HandlersAreOwnStep ==
  ASSUME Typed, DeviceTypeOK, HandlersAreOwn, [SyncNext]_syncVars PROVE HandlersAreOwn'
<1> USE DEF HandlersAreOwn, Move
<1>0. DOMAIN up = Uploaders /\ DOMAIN via = Uploaders /\ DOMAIN sent = Uploaders
  BY DEF DeviceTypeOK
<1>1. ASSUME NEW f \in Fixes, Record(f) PROVE HandlersAreOwn'
  BY <1>1, BatchStays DEF Record
<1>2. ASSUME NEW u \in Uploaders, Local(u) PROVE HandlersAreOwn'
  <2>0. batch' = batch
    BY <1>2, LocalIsLocal, BatchStays
  <2>1. CASE Answered(u)
    BY <1>0, <2>0, <2>1 DEF Answered
  <2>2. CASE Lost(u)
    BY <1>0, <2>0, <2>2 DEF Lost
  <2>3. CASE ~Answered(u) /\ ~Lost(u)
    <3>1. /\ via' = via /\ up[u] # "wait"
          /\ \E label \in PassLabels \ {"wait"} : up' = [up EXCEPT ![u] = label]
          /\ \A v \in Uploaders : v # u => sent'[v] = sent[v]
      BY <1>0, <1>2, <2>3 DEF Local, SyncNow, Offline, Flush, Online, Requeue, ReadBatch,
        NothingLeft, Refused, MarkFailed, MarkSynced, Finish, PassLabels
    <3> QED BY <1>0, <2>0, <3>1
  <2> QED BY <2>1, <2>2, <2>3
<1>3. ASSUME NEW u \in Uploaders, NEW h \in Handlers, Post(u, h) PROVE HandlersAreOwn'
  <2>1. /\ batch' = [batch EXCEPT ![h] = sent[u]] /\ sent' = sent
        /\ up' = [up EXCEPT ![u] = "wait"] /\ via' = [via EXCEPT ![u] = h]
        /\ up[u] = "post" /\ \A v \in Uploaders : via[v] # h
    BY <1>3 DEF Post, Begin
  <2>2. \A v \in Uploaders : via[v] \in Handlers \cup {NoHandler}
    BY DEF DeviceTypeOK
  <2>3. batch'[h] = sent[u]
    BY <2>1 DEF Typed
  <2>4. \A v \in Uploaders : v # u /\ up[v] = "wait" => batch'[via[v]] = batch[via[v]]
    BY <2>1
  <2>6. /\ up'[u] = "wait" /\ via'[u] = h
        /\ \A v \in Uploaders : v # u => up'[v] = up[v] /\ via'[v] = via[v] /\ via[v] # h
    BY <1>0, <2>1
  <2> QED BY <2>1, <2>2, <2>3, <2>4, <2>6, NoHandlerIsNone
<1>4. CASE Kill
  BY <1>4, NoHandlerIsNone DEF Kill
<1>5. CASE (ServerStep \/ AdminStep) /\ UNCHANGED deviceVars
  BY <1>5, BatchStays DEF deviceVars
<1>6. CASE UNCHANGED syncVars
  BY <1>6, BatchStays DEF syncVars, deviceVars
<1> HIDE DEF HandlersAreOwn, Move
<1> QED BY <1>1, <1>2, <1>3, <1>4, <1>5, <1>6, SyncCases

\* The three together.
LEMMA SyncTypeOKStep == ASSUME Typed, SyncTypeOK, [SyncNext]_syncVars PROVE SyncTypeOK'
  BY DeviceTypeOKStep, LockIsHeldStep, HandlersAreOwnStep DEF SyncTypeOK
-----------------------------------------------------------------------------
\* What a fix keeps: a handler lets go of a claimed fix only by storing it, or by
\* failing.
LEMMA FailuresGrow == ASSUME Typed, AnyStep, failures' = 0 PROVE failures = 0
<1>1. ASSUME NEW h \in Handlers, SwallowGeofenceError(h) \/ Fail(h) PROVE FALSE
  BY <1>1 DEF SwallowGeofenceError, Fail, Typed
<1>2. ASSUME NEW h \in Handlers, HandlerStep(h) PROVE failures' = failures
  BY <1>2 DEF HandlerStep, RefuseFuture, Claim, Skip, ReadPrevious, NothingAccepted, Insert,
    HsetLive, ExpireLive, FindInside, FindWas, RecordEvents, Respond, budget
<1>3. ASSUME NEW h \in Handlers, NEW fixes \in Seq(Fixes), Begin(h, fixes)
      PROVE  failures' = failures
  BY <1>3 DEF Begin
<1>4. ASSUME NEW f \in Fixes, LoseClaim(f) PROVE failures' = failures
  BY <1>4 DEF LoseClaim
<1>5. ASSUME Tick \/ LoseLive \/ AdminStep \/ UNCHANGED ingestVars
      PROVE  failures' = failures
  BY <1>5 DEF Tick, LoseLive, AdminStep, ingestVars, budget
<1> QED BY <1>1, <1>2, <1>3, <1>4, <1>5 DEF AnyStep, ServerStep

\* A fix that is stored or in the hands of a handler stays so at every step of the
\* server in which no handler fails.
LEMMA SettledStays ==
  ASSUME Typed, Shaped, AnyStep, failures' = 0, NEW f \in Fixes, Settled(f)
  PROVE  Settled(f)'
<1> DEFINE Kept == count' = count /\ \A g \in Handlers : Owned(g) \subseteq Owned(g)'
<1>1. ASSUME Kept PROVE Settled(f)'
  BY <1>1, StoredStays DEF Settled, OwnedBySome
<1>2. ASSUME NEW h \in Handlers, NEW label \in Labels, count' = count, accepted' = accepted,
             pc' = [pc EXCEPT ![h] = label],
             \/ pc[h] \notin {"claim", "insert"}
             \/ label \in {"claim", "insert"}
             \/ accepted[h] = {}
      PROVE  Kept
  BY <1>2 DEF Owned, Typed
<1>3. ASSUME NEW h \in Handlers, NEW fixes \in Seq(Fixes), Begin(h, fixes) PROVE Kept
  BY <1>3 DEF Begin, Goto, Owned, Typed
<1>4. ASSUME NEW h \in Handlers, RefuseFuture(h) \/ Skip(h) PROVE Kept
  BY <1>4 DEF RefuseFuture, Skip, Owned
<1>5. ASSUME NEW h \in Handlers, Claim(h) PROVE Kept
  BY <1>5 DEF Claim, Owned, Typed
<1>6. ASSUME NEW h \in Handlers, ReadPrevious(h) PROVE Kept
  BY <1>2, <1>6 DEF ReadPrevious, Goto, taken, Labels
<1>7. ASSUME NEW h \in Handlers, NothingAccepted(h) PROVE Kept
  <2>1. accepted[h] = {}
    <3>1. 0 \notin accepted[h]
      BY FixesAreNumbers DEF Typed
    <3> QED BY <1>7, <3>1 DEF NothingAccepted, Shaped
  <2> QED BY <1>2, <1>7, <2>1 DEF NothingAccepted, Goto, job, taken, Labels
<1>8. ASSUME NEW h \in Handlers, Insert(h) PROVE Settled(f)'
  <2>1. \A g \in Handlers : g # h => Owned(g)' = Owned(g)
    BY <1>8 DEF Insert, Goto, job, taken, Owned, Typed
  <2>2. Owned(h) = accepted[h] /\ Stored' = Stored \cup accepted[h]
    BY <1>8, InsertStores DEF Insert, Owned
  <2> QED BY <2>1, <2>2 DEF Settled, OwnedBySome
<1>9. ASSUME NEW h \in Handlers, HsetLive(h) \/ ExpireLive(h) PROVE Kept
  BY <1>2, <1>9 DEF HsetLive, ExpireLive, Goto, job, taken, Labels
<1>10. ASSUME NEW h \in Handlers, FindInside(h) \/ FindWas(h) PROVE Kept
  BY <1>2, <1>10 DEF FindInside, FindWas, Goto, taken, Labels
<1>11. ASSUME NEW h \in Handlers, RecordEvents(h) \/ Respond(h) PROVE Kept
  BY <1>2, <1>11 DEF RecordEvents, Respond, Goto, job, taken, Labels
<1>12. ASSUME NEW h \in Handlers, SwallowGeofenceError(h) \/ Fail(h) PROVE FALSE
  BY <1>12 DEF SwallowGeofenceError, Fail, Typed
<1>13. ASSUME NEW g \in Fixes, LoseClaim(g) PROVE Kept
  BY <1>13 DEF LoseClaim, job, taken, Owned
<1>14. ASSUME Tick \/ LoseLive \/ AdminStep \/ UNCHANGED ingestVars PROVE Kept
  BY <1>14 DEF Tick, LoseLive, AdminStep, ingestVars, job, taken, Owned
<1> HIDE DEF Kept
<1> QED
  BY <1>1, <1>3, <1>4, <1>5, <1>6, <1>7, <1>8, <1>9, <1>10, <1>11, <1>12, <1>13, <1>14
     DEF AnyStep, ServerStep, HandlerStep

\* An answer of success stands for every fix of the batch.
LEMMA SuccessSettles ==
  ASSUME IInv, failures = 0, NEW h \in Handlers, reply[h] = "ok",
         NEW i \in DOMAIN batch[h], batch[h][i] <= Tolerance
  PROVE  Settled(batch[h][i])
<1>1. Passed(h) /\ Finished(h)
  BY AccountedParts DEF IInv
<1>2. batch[h] \in Seq(Fixes) /\ next[h] \in Nat /\ asked[h] \in Nat
  BY DEF IInv, Typed
<1>3. i < next[h]
  BY <1>1, <1>2 DEF Finished
<1>4. batch[h][i] <= asked[h] + Tolerance
  <2>1. batch[h][i] \in Nat
    BY <1>2, FixesAreNumbers
  <2> QED BY <1>2, <2>1, ToleranceIsNumber
<1> QED BY <1>1, <1>3, <1>4 DEF Passed
-----------------------------------------------------------------------------
\* Every step keeps Delivered: only an answer of success leads to a mark.
LEMMA DeliveredStep ==
  ASSUME IInv, SyncTypeOK, Delivered, [SyncNext]_syncVars PROVE Delivered'
<1> SUFFICES ASSUME failures' = 0, NEW u \in Uploaders, up'[u] = "mark",
                    NEW i \in DOMAIN sent'[u], sent'[u][i] <= Tolerance
             PROVE  Settled(sent[u][i])'
  BY DEF Delivered
<1>1. AnyStep /\ failures = 0
  BY ServerSide, FailuresGrow DEF IInv
<1>2. ASSUME i \in DOMAIN sent[u], Settled(sent[u][i]), sent'[u] = sent[u]
      PROVE  Settled(sent[u][i])'
  <2>1. PICK f \in Fixes : f = sent[u][i]
    BY <1>2 DEF SyncTypeOK, DeviceTypeOK
  <2>2. Settled(f)'
    BY <1>1, <1>2, <2>1, SettledStays DEF IInv
  <2> QED BY <1>2, <2>1, <2>2 DEF Settled, OwnedBySome
<1>3. CASE up[u] = "mark" /\ sent'[u] = sent[u]
  <2>1. i \in DOMAIN sent[u] /\ sent[u][i] <= Tolerance
    BY <1>3
  <2>2. Settled(sent[u][i])
    BY <1>1, <1>3, <2>1 DEF Delivered
  <2> QED BY <1>2, <1>3, <2>1, <2>2
<1>4. CASE Answered(u)
  <2>1. /\ up[u] = "wait" /\ sent' = sent /\ via[u] \in Handlers
        /\ reply[via[u]] = "ok" /\ batch[via[u]] = sent[u]
    <3>1. /\ up[u] = "wait" /\ sent' = sent
          /\ up' = [up EXCEPT ![u] = IF reply[via[u]] = "ok" THEN "mark" ELSE "done"]
      BY <1>4 DEF Answered, Move
    <3>2. up \in [Uploaders -> PassLabels] /\ via \in [Uploaders -> Handlers \cup {NoHandler}]
      BY DEF SyncTypeOK, DeviceTypeOK
    <3>3. via[u] # NoHandler /\ batch[via[u]] = sent[u]
      BY <3>1 DEF SyncTypeOK, HandlersAreOwn
    <3>4. up'[u] = IF reply[via[u]] = "ok" THEN "mark" ELSE "done"
      BY <3>1, <3>2
    <3>5. reply[via[u]] = "ok"
      BY <3>4
    <3> QED BY <3>1, <3>2, <3>3, <3>5
  <2>2. i \in DOMAIN batch[via[u]] /\ batch[via[u]][i] <= Tolerance
    BY <2>1
  <2>3. Settled(batch[via[u]][i])
    BY <1>1, <2>1, <2>2, SuccessSettles
  <2> QED BY <1>2, <2>1, <2>2, <2>3
<1>5. CASE ~Answered(u)
  <2>0. up \in [Uploaders -> PassLabels] /\ sent \in [Uploaders -> Seq(Fixes)]
    BY DEF SyncTypeOK, DeviceTypeOK
  <2>1. ASSUME NEW v \in Uploaders, Local(v) PROVE up[u] = "mark" /\ sent'[u] = sent[u]
    <3>1. \A w \in Uploaders : w # v => up'[w] = up[w] /\ sent'[w] = sent[w]
      BY <2>0, <2>1 DEF Local, SyncNow, Offline, Flush, Online, Requeue, ReadBatch, NothingLeft,
        Refused, MarkFailed, Answered, MarkSynced, Finish, Lost, Move
    <3>2. up'[v] = "mark" => Answered(v)
      BY <2>0, <2>1 DEF Local, SyncNow, Offline, Flush, Online, Requeue, ReadBatch, NothingLeft,
        Refused, MarkFailed, MarkSynced, Finish, Lost, Move
    <3> QED BY <1>5, <3>1, <3>2
  <2>2. ASSUME NEW v \in Uploaders, NEW h \in Handlers, Post(v, h)
        PROVE  up[u] = "mark" /\ sent'[u] = sent[u]
    BY <2>0, <2>2 DEF Post, Move
  <2>3. ASSUME NEW f \in Fixes, Record(f) PROVE up[u] = "mark" /\ sent'[u] = sent[u]
    BY <2>3 DEF Record
  <2>4. ~Kill
    BY DEF Kill
  <2>5. ASSUME UNCHANGED deviceVars \/ UNCHANGED syncVars
        PROVE  up[u] = "mark" /\ sent'[u] = sent[u]
    BY <2>5 DEF deviceVars, syncVars
  <2> QED BY <1>3, <2>1, <2>2, <2>3, <2>4, <2>5, SyncCases
<1> QED BY <1>4, <1>5

\* Every step keeps SyncedIsSafe: a row is marked synced only out of Delivered.
LEMMA SyncedIsSafeStep ==
  ASSUME IInv, SyncTypeOK, Delivered, SyncedIsSafe, [SyncNext]_syncVars PROVE SyncedIsSafe'
<1> SUFFICES ASSUME failures' = 0, NEW f \in Fixes, queue'[f] = "synced", f <= Tolerance
             PROVE  Settled(f)'
  BY DEF SyncedIsSafe, Settled
<1>1. AnyStep /\ failures = 0
  BY ServerSide, FailuresGrow DEF IInv
<1>2. Settled(f) => Settled(f)'
  BY <1>1, SettledStays DEF IInv
<1>3. queue[f] = "synced" => Settled(f)
  BY <1>1 DEF SyncedIsSafe, Settled
<1>4. ASSUME NEW u \in Uploaders, MarkSynced(u) PROVE Settled(f)
  <2>1. CASE \E i \in DOMAIN sent[u] : sent[u][i] = f
    BY <1>1, <1>4, <2>1 DEF MarkSynced, Delivered
  <2>2. CASE ~\E i \in DOMAIN sent[u] : sent[u][i] = f
    BY <1>3, <1>4, <2>2 DEF MarkSynced
  <2> QED BY <2>1, <2>2
<1>5. ASSUME ~\E u \in Uploaders : MarkSynced(u) PROVE queue[f] = "synced"
  <2>0. DOMAIN queue = Fixes
    BY DEF SyncTypeOK, DeviceTypeOK
  <2>1. ASSUME NEW u \in Uploaders, Local(u) PROVE queue[f] = "synced"
    BY <1>5, <2>0, <2>1 DEF Local, SyncNow, Offline, Flush, Online, Requeue, ReadBatch,
      NothingLeft, Refused, MarkFailed, Answered, Finish, Lost
  <2>2. ASSUME NEW u \in Uploaders, NEW h \in Handlers, Post(u, h) PROVE queue[f] = "synced"
    BY <2>2 DEF Post
  <2>3. ASSUME NEW g \in Fixes, Record(g) PROVE queue[f] = "synced"
    BY <2>0, <2>3 DEF Record
  <2>4. ASSUME Kill \/ UNCHANGED deviceVars \/ UNCHANGED syncVars PROVE queue[f] = "synced"
    BY <2>4 DEF Kill, deviceVars, syncVars
  <2> QED BY <2>1, <2>2, <2>3, <2>4, SyncCases
<1> QED BY <1>2, <1>3, <1>4, <1>5

\* Initially no row is recorded, so none is marked.
LEMMA InitSyncInv == SyncInit => SyncInv
<1>1. SyncInit => Delivered /\ SyncedIsSafe
  BY DEF SyncInit, Delivered, SyncedIsSafe
<1> QED BY <1>1, InitIInv, SyncTypeOKInit DEF SyncInit, SyncInv

\* SyncInv is inductive.
LEMMA NextSyncInv == SyncInv /\ [SyncNext]_syncVars => SyncInv'
<1> SUFFICES ASSUME SyncInv, [SyncNext]_syncVars PROVE SyncInv'
  OBVIOUS
<1>1. IInv /\ Typed
  BY DEF SyncInv, IInv
<1>2. IInv'
  BY <1>1, ServerSide, NextIInv DEF SyncInv
<1>3. SyncTypeOK'
  BY <1>1, SyncTypeOKStep DEF SyncInv
<1> QED BY <1>1, <1>2, <1>3, DeliveredStep, SyncedIsSafeStep DEF SyncInv

\* The inductive invariant of the device and the server together holds of every
\* behaviour of SyncEngine (sync_engine.dart:95-216).
THEOREM AlwaysSyncInv == SyncSpec => []SyncInv
  BY InitSyncInv, NextSyncInv, PTL DEF SyncSpec
-----------------------------------------------------------------------------
\* The lock of the engine is never left behind, and an answer is always that to
\* the batch it is taken for, across kills and lost answers.
THEOREM DeviceIsConsistent == SyncSpec => []SyncTypeOK
<1>1. SyncInv => SyncTypeOK
  BY DEF SyncInv
<1> QED BY <1>1, AlwaysSyncInv, PTL

\* While no handler fails, the device forgets no fix: what it marks as synced is
\* stored, or claimed by a handler that is about to store it.
THEOREM NothingIsForgotten == SyncSpec => []SyncedIsSafe
<1>1. SyncInv => SyncedIsSafe
  BY DEF SyncInv
<1> QED BY <1>1, AlwaysSyncInv, PTL

\* With all uploaders of the device in play a fix still gets at most one row more
\* than claims were lost: the deduplication holds end to end.
THEOREM FewDuplicatesEndToEnd == SyncSpec => []DuplicatesOnlyByLoss
<1>1. SyncInv => DuplicatesOnlyByLoss
  BY IInvLimitsDuplicates DEF SyncInv
<1> QED BY <1>1, AlwaysSyncInv, PTL
-----------------------------------------------------------------------------
(***************************************************************************)
(* The device and the server together implement FixDelivery.  A request    *)
(* carries only what the device has recorded, which is an invariant of its *)
(* own; the rest of the step simulation rests on SyncInv.                  *)
(***************************************************************************)

\* What has been read for an upload, or has been sent, is recorded.
Only(s) == \A i \in DOMAIN s : queue[s[i]] # "none"
OnlyRecorded ==
  /\ \A u \in Uploaders : Only(sent[u])
  /\ \A h \in Handlers : Only(batch[h])

\* A row that is recorded is never unrecorded.
LEMMA RecordedStays ==
  ASSUME DeviceTypeOK, [SyncNext]_syncVars, NEW f \in Fixes, queue[f] # "none"
  PROVE  queue'[f] # "none"
<1>0. queue \in [Fixes -> {"none", "pending", "failed", "synced"}]
  BY DEF DeviceTypeOK
<1>1. ASSUME NEW u \in Uploaders, Local(u) PROVE queue'[f] # "none"
  <2>1. CASE Requeue(u) \/ MarkSynced(u) \/ MarkFailed(u)
    BY <1>0, <2>1 DEF Requeue, MarkSynced, MarkFailed
  <2>2. CASE ~(Requeue(u) \/ MarkSynced(u) \/ MarkFailed(u))
    BY <1>1, <2>2 DEF Local, SyncNow, Offline, Flush, Online, ReadBatch, NothingLeft, Refused,
      Answered, Finish, Lost
  <2> QED BY <2>1, <2>2
<1>2. ASSUME NEW u \in Uploaders, NEW h \in Handlers, Post(u, h) PROVE queue'[f] # "none"
  BY <1>2 DEF Post
<1>3. ASSUME NEW g \in Fixes, Record(g) PROVE queue'[f] # "none"
  BY <1>0, <1>3 DEF Record
<1>4. ASSUME Kill \/ UNCHANGED deviceVars \/ UNCHANGED syncVars PROVE queue'[f] # "none"
  BY <1>4 DEF Kill, deviceVars, syncVars
<1> QED BY <1>1, <1>2, <1>3, <1>4, SyncCases

\* So what is known to hold recorded rows only goes on doing so.
LEMMA OnlyStays ==
  ASSUME DeviceTypeOK, [SyncNext]_syncVars, NEW s \in Seq(Fixes), Only(s)
  PROVE  \A i \in DOMAIN s : queue'[s[i]] # "none"
<1> SUFFICES ASSUME NEW i \in DOMAIN s PROVE queue'[s[i]] # "none"
  OBVIOUS
<1>1. s[i] \in Fixes /\ queue[s[i]] # "none"
  BY DEF Only
<1> QED BY <1>1, RecordedStays

\* Every step keeps OnlyRecorded: a batch is read from the rows that are there.
LEMMA OnlyRecordedStep ==
  ASSUME Typed, SyncTypeOK, OnlyRecorded, [SyncNext]_syncVars PROVE OnlyRecorded'
<1>0. /\ DeviceTypeOK
      /\ sent \in [Uploaders -> Seq(Fixes)] /\ batch \in [Handlers -> Seq(Fixes)]
  BY DEF SyncTypeOK, DeviceTypeOK, Typed
<1>1. ASSUME NEW s \in Seq(Fixes), Only(s) PROVE \A i \in DOMAIN s : queue'[s[i]] # "none"
  BY <1>0, <1>1, OnlyStays
<1>2. \A u \in Uploaders : sent'[u] = sent[u] => Only(sent[u])'
  BY <1>0, <1>1 DEF OnlyRecorded, Only
<1>3. \A h \in Handlers : batch'[h] = batch[h] => Only(batch[h])'
  BY <1>0, <1>1 DEF OnlyRecorded, Only
<1>4. ASSUME NEW u \in Uploaders, Local(u) PROVE OnlyRecorded'
  <2>1. batch' = batch
    BY <1>4, LocalIsLocal DEF ingestVars, job, request
  <2>2. \A v \in Uploaders : v # u => sent'[v] = sent[v]
    BY <1>0, <1>4 DEF Local, SyncNow, Offline, Flush, Online, Requeue, ReadBatch, NothingLeft,
      Refused, MarkFailed, Answered, MarkSynced, Finish, Lost
  <2>3. Only(sent[u])'
    <3>1. CASE ReadBatch(u)
      <4>1. PICK b \in Batches : OldestPending(b) /\ sent' = [sent EXCEPT ![u] = b]
        BY <3>1 DEF ReadBatch
      <4>2. sent'[u] = b /\ queue' = queue
        BY <1>0, <3>1, <4>1 DEF ReadBatch
      <4>3. \A i \in DOMAIN b : queue[b[i]] = "pending"
        BY <4>1 DEF OldestPending, Pending
      <4> QED BY <4>2, <4>3 DEF Only
    <3>2. CASE MarkFailed(u)
      <4>1. sent'[u] = Tail(sent[u]) /\ sent[u] \in Seq(Fixes) /\ Len(sent[u]) > 0
        BY <1>0, <3>2 DEF MarkFailed, DeviceTypeOK
      <4>2. \A i \in DOMAIN sent[u] : queue'[sent[u][i]] # "none"
        BY <1>0, <1>1 DEF OnlyRecorded
      <4>3. \A i \in 1 .. Len(sent[u]) - 1 :
               Tail(sent[u])[i] = sent[u][i + 1] /\ i + 1 \in DOMAIN sent[u]
        BY <4>1
      <4>4. DOMAIN Tail(sent[u]) = 1 .. Len(sent[u]) - 1
        BY <4>1
      <4> QED BY <4>1, <4>2, <4>3, <4>4 DEF Only
    <3>3. CASE MarkSynced(u) \/ Finish(u)
      <4>1. sent'[u] = <<>>
        BY <1>0, <3>3 DEF MarkSynced, Finish
      <4> QED BY <4>1 DEF Only
    <3>4. CASE ~(ReadBatch(u) \/ MarkFailed(u) \/ MarkSynced(u) \/ Finish(u))
      <4>1. sent'[u] = sent[u]
        BY <1>4, <3>4 DEF Local, SyncNow, Offline, Flush, Online, Requeue, NothingLeft, Refused,
          Answered, Lost
      <4> QED BY <1>2, <4>1
    <3> QED BY <3>1, <3>2, <3>3, <3>4
  <2> QED BY <1>2, <1>3, <2>1, <2>2, <2>3 DEF OnlyRecorded
<1>5. ASSUME NEW u \in Uploaders, NEW h \in Handlers, Post(u, h) PROVE OnlyRecorded'
  <2>1. sent' = sent /\ queue' = queue /\ batch' = [batch EXCEPT ![h] = sent[u]]
    BY <1>5 DEF Post, Begin
  <2>2. batch'[h] = sent[u] /\ \A g \in Handlers : g # h => batch'[g] = batch[g]
    BY <1>0, <2>1
  <2>3. Only(batch[h])'
    BY <2>1, <2>2 DEF OnlyRecorded, Only
  <2> QED BY <1>2, <1>3, <2>1, <2>2, <2>3 DEF OnlyRecorded
<1>6. ASSUME NEW f \in Fixes, Record(f) PROVE OnlyRecorded'
  BY <1>2, <1>3, <1>6 DEF Record, ingestVars, job, request, OnlyRecorded
<1>7. CASE Kill
  <2>1. batch' = batch /\ sent' = [u \in Uploaders |-> <<>>]
    BY <1>7 DEF Kill, ingestVars, job, request
  <2>2. \A u \in Uploaders : Only(sent[u])'
    BY <2>1 DEF Only
  <2> QED BY <1>3, <2>1, <2>2 DEF OnlyRecorded
<1>8. CASE (ServerStep \/ AdminStep) /\ UNCHANGED deviceVars
  <2>1. batch' = batch /\ sent' = sent
    BY <1>8, BatchStays DEF deviceVars
  <2> QED BY <1>2, <1>3, <2>1 DEF OnlyRecorded
<1>9. CASE UNCHANGED syncVars
  BY <1>2, <1>3, <1>9 DEF syncVars, deviceVars, ingestVars, job, request, OnlyRecorded
<1> QED BY <1>4, <1>5, <1>6, <1>7, <1>8, <1>9, SyncCases
-----------------------------------------------------------------------------
\* The fixes handlers have in hand, and what a step leaves alone that is not seen
\* by FixDelivery.
InHand == {f \in Fixes : OwnedBySome(f)}
Quiet ==
  /\ UNCHANGED <<claims, count, failures>>
  /\ \A h \in Handlers : Owned(h)' = Owned(h)

\* What the steps of the server are to FixDelivery: a claim, an insert, a failure,
\* a claim that is lost, or nothing.
LEMMA ServerCases ==
  ASSUME Typed, Shaped, AnyStep
  PROVE  \/ \E h \in Handlers :
              Claim(h) \/ Insert(h) \/ Fail(h) \/ SwallowGeofenceError(h)
         \/ \E f \in Fixes : LoseClaim(f)
         \/ Quiet
<1>1. ASSUME NEW h \in Handlers, NEW label \in Labels,
             UNCHANGED <<claims, count, failures, accepted>>, pc' = [pc EXCEPT ![h] = label],
             \/ pc[h] \in {"claim", "insert"} /\ label \in {"claim", "insert"}
             \/ pc[h] \notin {"claim", "insert"} /\ label \notin {"claim", "insert"}
             \/ accepted[h] = {}
      PROVE  Quiet
  BY <1>1 DEF Quiet, Owned, Typed
<1>2. ASSUME NEW h \in Handlers, NEW fixes \in Seq(Fixes), Begin(h, fixes) PROVE Quiet
  <2>1. /\ accepted' = [accepted EXCEPT ![h] = {}] /\ pc' = [pc EXCEPT ![h] = "claim"]
        /\ pc[h] = "idle" /\ UNCHANGED <<claims, count, failures>>
    BY <1>2 DEF Begin, Goto, redis
  <2> QED BY <2>1 DEF Quiet, Owned, Typed
<1>3. ASSUME NEW h \in Handlers, RefuseFuture(h) \/ Skip(h) PROVE Quiet
  BY <1>3 DEF RefuseFuture, Skip, Quiet, Owned, redis, budget
<1>4. ASSUME NEW h \in Handlers, ReadPrevious(h) PROVE Quiet
  BY <1>1, <1>4 DEF ReadPrevious, Goto, redis, taken, budget, Labels
<1>5. ASSUME NEW h \in Handlers, NothingAccepted(h) PROVE Quiet
  <2>1. accepted[h] = {}
    <3>1. 0 \notin accepted[h]
      BY FixesAreNumbers DEF Typed
    <3> QED BY <1>5, <3>1 DEF NothingAccepted, Shaped
  <2> QED BY <1>1, <1>5, <2>1 DEF NothingAccepted, Goto, redis, job, taken, budget, Labels
<1>6. ASSUME NEW h \in Handlers, HsetLive(h) \/ ExpireLive(h) PROVE Quiet
  BY <1>1, <1>6 DEF HsetLive, ExpireLive, Goto, job, taken, budget, Labels
<1>7. ASSUME NEW h \in Handlers, FindInside(h) \/ FindWas(h) PROVE Quiet
  BY <1>1, <1>7 DEF FindInside, FindWas, Goto, redis, taken, budget, Labels
<1>8. ASSUME NEW h \in Handlers, RecordEvents(h) \/ Respond(h) PROVE Quiet
  BY <1>1, <1>8 DEF RecordEvents, Respond, Goto, redis, job, taken, budget, Labels
<1>9. ASSUME Tick \/ LoseLive \/ AdminStep \/ UNCHANGED ingestVars PROVE Quiet
  BY <1>9 DEF Tick, LoseLive, AdminStep, ingestVars, redis, job, taken, budget, Quiet, Owned
<1> QED
  BY <1>2, <1>3, <1>4, <1>5, <1>6, <1>7, <1>8, <1>9 DEF AnyStep, ServerStep, HandlerStep

\* A quiet step leaves what handlers have in hand.
LEMMA QuietHand == Quiet => InHand' = InHand
  BY DEF Quiet, InHand, OwnedBySome

\* A handler that lets go of all it owns takes nothing from the others.
LEMMA LetGo ==
  ASSUME Typed, ClaimsAreExclusive, NEW h \in Handlers, NEW label \in Labels,
         accepted' = accepted, pc' = [pc EXCEPT ![h] = label],
         label \notin {"claim", "insert"}
  PROVE  InHand' = InHand \ Owned(h) /\ Owned(h) \subseteq InHand
<1>1. \A g \in Handlers : g # h => Owned(g)' = Owned(g) /\ Owned(g) \cap Owned(h) = {}
  BY DEF Typed, Owned, ClaimsAreExclusive
<1>2. Owned(h)' = {}
  BY DEF Typed, Owned
<1>3. Owned(h) \subseteq Fixes
  BY DEF Typed, Owned
<1>4. ASSUME NEW f \in Fixes PROVE f \in InHand' <=> f \in InHand \ Owned(h)
  BY <1>1, <1>2 DEF InHand, OwnedBySome
<1>5. InHand \subseteq Fixes /\ InHand' \subseteq Fixes
  BY DEF InHand
<1> QED BY <1>3, <1>4, <1>5 DEF InHand, OwnedBySome
-----------------------------------------------------------------------------
\* What FixDelivery sees of the device's rows.
Rows == {f \in Fixes : queue[f] # "none"}
Marked == {f \in Fixes : queue[f] = "synced"}

\* A step that leaves the device's rows and what is seen of the server alone is a
\* stutter.
LEMMA AsStutter ==
  ASSUME UNCHANGED <<Rows, Marked, claims, InHand, count, failures>>
  PROVE  UNCHANGED Delivery!vars
  BY DEF Delivery!vars, Rows, Marked, InHand

\* The steps of the handlers that FixDelivery sees.
LEMMA HandlersImplement ==
  ASSUME SyncInv, OnlyRecorded, AnyStep, UNCHANGED <<Rows, Marked>>
  PROVE  Delivery!Next \/ UNCHANGED Delivery!vars
<1>0. /\ Typed /\ Shaped /\ ClaimsAreExclusive
      /\ pc \in [Handlers -> Labels] /\ accepted \in [Handlers -> SUBSET Fixes]
      /\ count \in [Fixes -> Nat] /\ claims \subseteq Fixes /\ failures \in Nat
  BY DEF SyncInv, IInv, Typed
<1>1. ASSUME NEW h \in Handlers, Claim(h) PROVE Delivery!Next
  <2> DEFINE f == Current(h)
  <2>1. /\ pc[h] = "claim" /\ pc' = pc /\ f \notin claims /\ claims' = claims \cup {f}
        /\ accepted' = [accepted EXCEPT ![h] = @ \cup {f}]
        /\ UNCHANGED <<count, failures>>
    BY <1>1 DEF Claim, HasNext, budget
  <2>2. f \in Rows
    <3>1. next[h] \in Nat \ {0} /\ next[h] <= Len(batch[h]) /\ batch[h] \in Seq(Fixes)
      BY <1>0, <1>1 DEF Claim, HasNext, Typed
    <3>2. next[h] \in DOMAIN batch[h]
      BY <3>1
    <3>3. batch[h][next[h]] \in Fixes /\ queue[batch[h][next[h]]] # "none"
      BY <3>1, <3>2 DEF OnlyRecorded, Only
    <3> QED BY <3>3 DEF Current, Rows
  <2>3. InHand' = InHand \cup {f}
    <3>1. Owned(h)' = Owned(h) \cup {f} /\ \A g \in Handlers : g # h => Owned(g)' = Owned(g)
      BY <1>0, <2>1 DEF Owned
    <3>2. f \in Fixes
      BY <2>2 DEF Rows
    <3> HIDE DEF f
    <3>3. \A g \in Fixes : OwnedBySome(g)' <=> OwnedBySome(g) \/ g = f
      BY <3>1 DEF OwnedBySome
    <3> QED BY <3>2, <3>3 DEF InHand
  <2> HIDE DEF f
  <2>4. Delivery!Take(f)
    BY <2>1, <2>2, <2>3 DEF Delivery!Take, Rows, Marked, InHand
  <2>5. f \in Fixes
    BY <2>2 DEF Rows
  <2> QED BY <2>4, <2>5 DEF Delivery!Next
<1>2. ASSUME NEW h \in Handlers, Insert(h) PROVE Delivery!Next
  <2>1. /\ pc[h] = "insert" /\ pc' = [pc EXCEPT ![h] = "live"] /\ accepted' = accepted
        /\ UNCHANGED <<claims, failures>>
    BY <1>2 DEF Insert, Goto, redis, job, taken, budget
  <2>2. InHand' = InHand \ Owned(h) /\ Owned(h) \subseteq InHand
    BY <1>0, <2>1, LetGo DEF Labels
  <2>3. count' = [f \in Fixes |-> IF f \in Owned(h) THEN count[f] + 1 ELSE count[f]]
    BY <1>2, <2>1 DEF Insert, Owned
  <2>4. Delivery!Store(Owned(h))
    BY <2>1, <2>2, <2>3 DEF Delivery!Store, Rows, Marked, InHand
  <2> QED BY <2>2, <2>4 DEF Delivery!Next, InHand
<1>3. ASSUME NEW h \in Handlers, Fail(h) PROVE Delivery!Next
  <2>1. /\ pc' = [pc EXCEPT ![h] = "idle"] /\ accepted' = accepted
        /\ UNCHANGED <<claims, count>> /\ failures' = failures + 1
    BY <1>3 DEF Fail, Goto, redis, job, taken
  <2>2. InHand' = InHand \ Owned(h) /\ Owned(h) \subseteq InHand
    BY <1>0, <2>1, LetGo DEF Labels
  <2>3. failures' > 0
    BY <1>0, <2>1
  <2>4. Delivery!CutShort(Owned(h))
    BY <2>1, <2>2, <2>3 DEF Delivery!CutShort, Rows, Marked, InHand
  <2> QED BY <2>2, <2>4 DEF Delivery!Next, InHand
<1>4. ASSUME NEW h \in Handlers, SwallowGeofenceError(h) PROVE Delivery!Next
  <2>1. /\ pc' = [pc EXCEPT ![h] = "respond"] /\ accepted' = accepted
        /\ UNCHANGED <<claims, count>> /\ failures' = failures + 1
    BY <1>4 DEF SwallowGeofenceError, Goto, redis, job, taken
  <2>2. InHand' = InHand \ Owned(h) /\ Owned(h) \subseteq InHand
    BY <1>0, <2>1, LetGo DEF Labels
  <2>3. failures' > 0
    BY <1>0, <2>1
  <2>4. Delivery!CutShort(Owned(h))
    BY <2>1, <2>2, <2>3 DEF Delivery!CutShort, Rows, Marked, InHand
  <2> QED BY <2>2, <2>4 DEF Delivery!Next, InHand
<1>5. ASSUME NEW f \in Fixes, LoseClaim(f) PROVE Delivery!Next
  <2>1. /\ f \in claims /\ claims' = claims \ {f}
        /\ UNCHANGED <<pc, accepted, count, failures>>
        /\ \A h \in Handlers : pc[h] = "idle" \/ f \notin accepted[h]
    BY <1>5 DEF LoseClaim, job, taken
  <2>2. f \notin InHand /\ InHand' = InHand
    BY <2>1 DEF InHand, OwnedBySome, Owned
  <2>3. Delivery!Forget(f)
    BY <2>1, <2>2 DEF Delivery!Forget, Rows, Marked, InHand
  <2> QED BY <2>3 DEF Delivery!Next
<1>6. CASE Quiet
  <2>1. UNCHANGED <<claims, count, failures, InHand>>
    BY <1>6, QuietHand DEF Quiet
  <2> QED BY <2>1, AsStutter
<1> QED BY <1>0, <1>1, <1>2, <1>3, <1>4, <1>5, <1>6, ServerCases

\* The steps of the device that FixDelivery sees: a row is recorded, marked or no
\* longer marked.
LEMMA DeviceImplements ==
  ASSUME SyncInv, OnlyRecorded, NEW u \in Uploaders, Local(u)
  PROVE  Delivery!Next \/ UNCHANGED Delivery!vars
<1>0. /\ queue \in [Fixes -> {"none", "pending", "failed", "synced"}]
      /\ sent \in [Uploaders -> Seq(Fixes)]
  BY DEF SyncInv, SyncTypeOK, DeviceTypeOK
<1>1. UNCHANGED <<claims, InHand, count, failures>>
  BY LocalIsLocal
     DEF ingestVars, redis, budget, job, taken, InHand, OwnedBySome, Owned
<1>2. CASE MarkSynced(u)
  <2> DEFINE S == {f \in Fixes : \E i \in DOMAIN sent[u] : sent[u][i] = f}
  <2>1. /\ up[u] = "mark"
        /\ queue' = [f \in Fixes |-> IF f \in S THEN "synced" ELSE queue[f]]
    BY <1>2 DEF MarkSynced
  <2>2. S \subseteq Rows
    BY DEF OnlyRecorded, Only, Rows
  <2>3. failures > 0 \/ \A f \in S \ {f \in Fixes : f > Tolerance} : Settled(f)
    <3>1. SUFFICES ASSUME failures = 0, NEW f \in S, ~(f > Tolerance) PROVE Settled(f)
      BY DEF SyncInv, IInv, Typed
    <3>2. PICK i \in DOMAIN sent[u] : sent[u][i] = f
      OBVIOUS
    <3>3. f <= Tolerance
      BY <3>1, FixesAreNumbers, ToleranceIsNumber
    <3> QED BY <2>1, <3>1, <3>2, <3>3 DEF SyncInv, Delivered
  <2>4. S \in SUBSET Fixes
    OBVIOUS
  <2> HIDE DEF S
  <2>5. Rows' = Rows /\ Marked' = Marked \cup S
    BY <2>1, <2>2, <2>4 DEF Rows, Marked
  <2>6. \A f \in Fixes : Settled(f) => f \in InHand \/ count[f] > 0
    BY DEF Settled, Stored, InHand
  <2>7. failures > 0 \/ \A f \in S \ {f \in Fixes : f > Tolerance} : f \in InHand \/ count[f] > 0
    BY <2>3, <2>4, <2>6
  <2>8. Delivery!Mark(S)
    BY <1>1, <2>2, <2>5, <2>7 DEF Delivery!Mark, Delivery!IsSafe, Rows, Marked, InHand
  <2>9. PICK T \in SUBSET Fixes : T = S
    BY <2>4
  <2>10. Delivery!Mark(T)
    BY <2>8, <2>9 DEF Delivery!Mark
  <2>11. Delivery!Next
    BY <2>10 DEF Delivery!Next
  <2> QED BY <2>11
<1>3. CASE MarkFailed(u)
  <2> DEFINE f == Head(sent[u])
  <2>1. queue' = [queue EXCEPT ![f] = "failed"]
    BY <1>3 DEF MarkFailed
  <2>2. f \in Fixes /\ f \in Rows
    <3>1. sent[u] \in Seq(Fixes) /\ Len(sent[u]) > 0
      BY <1>0, <1>3 DEF MarkFailed, SyncInv, SyncTypeOK, DeviceTypeOK
    <3>2. 1 \in DOMAIN sent[u] /\ f = sent[u][1]
      BY <3>1
    <3> QED BY <3>1, <3>2 DEF OnlyRecorded, Only, Rows
  <2> HIDE DEF f
  <2>3. Rows' = Rows /\ Marked' = Marked \ {f}
    BY <1>0, <2>1, <2>2 DEF Rows, Marked
  <2>4. Delivery!Unmark(f)
    BY <1>1, <2>3 DEF Delivery!Unmark, Rows, Marked, InHand
  <2>5. PICK g \in Fixes : g = f
    BY <2>2
  <2>6. Delivery!Unmark(g)
    BY <2>4, <2>5 DEF Delivery!Unmark
  <2>7. Delivery!Next
    BY <2>6 DEF Delivery!Next
  <2> QED BY <2>7
<1>4. CASE ~MarkSynced(u) /\ ~MarkFailed(u)
  <2>1. CASE Requeue(u)
    <3>1. Rows' = Rows /\ Marked' = Marked
      BY <1>0, <2>1 DEF Requeue, Rows, Marked
    <3> QED BY <1>1, <3>1, AsStutter
  <2>2. CASE ~Requeue(u)
    <3>1. queue' = queue
      BY <1>4, <2>2 DEF Local, SyncNow, Offline, Flush, Online, ReadBatch, NothingLeft, Refused,
        Answered, Finish, Lost
    <3>2. UNCHANGED <<Rows, Marked>>
      BY <3>1 DEF Rows, Marked
    <3> QED BY <1>1, <3>2, AsStutter
  <2> QED BY <2>1, <2>2
<1> QED BY <1>2, <1>3, <1>4

\* Every step of the system is a step of FixDelivery or a stutter.
LEMMA StepImplementsDelivery ==
  ASSUME SyncInv, OnlyRecorded, [SyncNext]_syncVars
  PROVE  Delivery!Next \/ UNCHANGED Delivery!vars
<1>1. AnyStep
  BY ServerSide DEF SyncInv
<1>2. ASSUME queue' = queue PROVE Delivery!Next \/ UNCHANGED Delivery!vars
  <2>1. UNCHANGED <<Rows, Marked>>
    BY <1>2 DEF Rows, Marked
  <2> QED BY <1>1, <2>1, HandlersImplement
<1>3. ASSUME NEW f \in Fixes, Record(f) PROVE Delivery!Next
  <2>1. /\ queue \in [Fixes -> {"none", "pending", "failed", "synced"}]
        /\ queue[f] = "none" /\ queue' = [queue EXCEPT ![f] = "pending"]
        /\ UNCHANGED <<claims, count, failures, pc, accepted>>
    BY <1>3 DEF Record, ingestVars, redis, budget, job, taken, SyncInv, SyncTypeOK, DeviceTypeOK
  <2>2. f \notin Rows /\ Rows' = Rows \cup {f} /\ Marked' = Marked
    BY <2>1 DEF Rows, Marked
  <2>3. InHand' = InHand
    BY <2>1 DEF InHand, OwnedBySome, Owned
  <2>4. Delivery!Record(f)
    BY <2>1, <2>2, <2>3 DEF Delivery!Record, Rows, Marked, InHand
  <2> QED BY <2>4 DEF Delivery!Next
<1>4. ASSUME NEW u \in Uploaders, NEW h \in Handlers, Post(u, h) PROVE queue' = queue
  BY <1>4 DEF Post
<1>5. ASSUME Kill \/ UNCHANGED deviceVars \/ UNCHANGED syncVars PROVE queue' = queue
  BY <1>5 DEF Kill, deviceVars, syncVars
<1> QED BY <1>2, <1>3, <1>4, <1>5, DeviceImplements, SyncCases

\* Initially nothing is recorded, read or sent.
LEMMA InitOnlyRecorded == SyncInit => OnlyRecorded /\ Delivery!Init
<1> SUFFICES ASSUME SyncInit PROVE OnlyRecorded /\ Delivery!Init
  OBVIOUS
<1>1. OnlyRecorded
  BY DEF SyncInit, IngestInit, OnlyRecorded, Only
<1>2. \A f \in Fixes : ~OwnedBySome(f)
  BY DEF SyncInit, IngestInit, OwnedBySome, Owned
<1>3. Delivery!Init
  BY <1>2 DEF SyncInit, IngestInit, Delivery!Init
<1> QED BY <1>1, <1>3

\* The device's queue, its uploaders and the handlers implement FixDelivery,
\* however uploads overlap, answers are lost, handlers fail, claims expire and the
\* app is killed (sync_engine.dart:32-35, location_service.py:6-9).
THEOREM DeviceImplementsDelivery == SyncSpec => ImplementsDelivery
<1>1. SyncInit => SyncInv /\ OnlyRecorded /\ Delivery!Init
  BY InitSyncInv, InitOnlyRecorded
<1>2. SyncInv /\ OnlyRecorded /\ [SyncNext]_syncVars => (SyncInv /\ OnlyRecorded)'
  BY NextSyncInv, OnlyRecordedStep DEF SyncInv, IInv
<1>3. SyncInv /\ OnlyRecorded /\ [SyncNext]_syncVars => [Delivery!Next]_(Delivery!vars)
  BY StepImplementsDelivery
<1> QED BY <1>1, <1>2, <1>3, PTL DEF SyncSpec, ImplementsDelivery, Delivery!Spec
=============================================================================
