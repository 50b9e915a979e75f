----------------------------- MODULE ViewProofs -----------------------------
(***************************************************************************)
(* What is read off the stored rows: the pages of a list, the simplified   *)
(* track of a day, the live map, the time in a zone and the worked day,    *)
(* for every list, track, interleaving and order of insertion.             *)
(***************************************************************************)
EXTENDS ReportProofs, Pages, Trail, LiveFeed, ZoneTimes, DayLogs, TapScreen,
        WellFoundedInduction

(***************************************************************************)
(* Keyset pages, for every size of a page and every list: what has been    *)
(* shown is up to the cursor, what has stayed and was not shown is behind  *)
(* it, whatever rows come and go.                                          *)
(***************************************************************************)

ShownIsPassed ==
  walk = "on" => \A i \in shown : cursor # 0 /\ (i = cursor \/ Precedes(i, cursor))

StayedIsAhead ==
  walk = "on" => \A i \in stayed : i \in shown \/ cursor = 0 \/ Precedes(cursor, i)

WalkInv == PagesTypeOK /\ ShownIsPassed /\ StayedIsAhead /\ WalkIsExact
-----------------------------------------------------------------------------
\* Every row has its place in the order of the list.
LEMMA PrecedesIsOrder ==
  ASSUME NEW i \in Int, NEW j \in Int, NEW k \in Int
  PROVE  /\ ~Precedes(i, i)
         /\ Precedes(i, j) /\ Precedes(j, k) => Precedes(i, k)
         /\ ~(Precedes(i, j) /\ Precedes(j, i))
  BY DEF Precedes

\* A page shows rows that were not shown before, and leaves those behind it
\* behind its cursor.
LEMMA FetchKeeps == ASSUME WalkInv, FetchPage PROVE WalkInv'
<1> USE DEF WalkInv
<1>1. PICK P \in SUBSET Rest :
        /\ IsPage(P) /\ walk = "on"
        /\ shown' = shown \cup P /\ twice' = twice \cup (shown \cap P)
        /\ IF P = Rest THEN walk' = "done" /\ UNCHANGED cursor
           ELSE walk' = "on" /\ \E last \in Ids : MayFollow(P, last) /\ cursor' = last
        /\ UNCHANGED <<drawn, listed, newest, stayed>>
  BY DEF FetchPage
<1>2. listed \subseteq Ids /\ Ids \subseteq Int /\ 0 \notin Ids /\ shown \subseteq Ids /\ stayed \subseteq listed
  BY PagesAssumption DEF PagesTypeOK, Ids
<1>3. Rest \subseteq listed /\ P \subseteq listed
  BY DEF Rest
<1>4. \A i \in P : i \notin shown
  <2> SUFFICES ASSUME NEW i \in P, i \in shown PROVE FALSE
    OBVIOUS
  <2>1. cursor # 0 /\ (i = cursor \/ Precedes(i, cursor)) /\ Precedes(cursor, i)
    BY <1>1 DEF ShownIsPassed, Rest
  <2>2. i \in Int /\ cursor \in Int
    BY <1>2, <1>3 DEF PagesTypeOK
  <2> QED BY <2>1, <2>2 DEF Precedes
<1>5. twice' = {}
  BY <1>1, <1>4 DEF WalkIsExact
<1>6. PagesTypeOK'
  <2>1. shown' \subseteq Ids /\ twice' \subseteq shown'
    BY <1>1, <1>2, <1>3 DEF PagesTypeOK
  <2>2. walk' \in {"off", "on", "done"} /\ cursor' \in 0 .. MaxRows
    BY <1>1 DEF PagesTypeOK, Ids
  <2> QED BY <1>1, <2>1, <2>2 DEF PagesTypeOK, Ids
<1>7. CASE P = Rest
  <2>1. walk' = "done"
    BY <1>1, <1>7
  <2>2. stayed' \subseteq shown'
    BY <1>1, <1>2, <1>7 DEF StayedIsAhead, Rest
  <2> QED BY <1>5, <1>6, <2>1, <2>2 DEF WalkIsExact, ShownIsPassed, StayedIsAhead
<1>8. CASE P # Rest
  <2>1. walk' = "on" /\ newest' = newest
    BY <1>1, <1>8
  <2>2. PICK last \in Ids : MayFollow(P, last) /\ cursor' = last
    BY <1>1, <1>8
  <2>3. last \in P /\ \A j \in P : j = last \/ Precedes(j, last)
    BY <2>2 DEF MayFollow
  <2>4. last \in Int /\ last # 0 /\ cursor \in Int
    BY <1>2, <2>2 DEF PagesTypeOK
  <2>5. ShownIsPassed'
    <3> SUFFICES ASSUME NEW i \in shown' PROVE i = last \/ Precedes(i, last)
      BY <2>1, <2>2, <2>4 DEF ShownIsPassed, Precedes
    <3>1. CASE i \in P
      BY <2>3, <3>1
    <3>2. CASE i \in shown
      <4>1. i \in Int /\ cursor # 0 /\ (i = cursor \/ Precedes(i, cursor))
        BY <1>1, <1>2, <3>2 DEF ShownIsPassed
      <4>2. Precedes(cursor, last)
        BY <2>3, <4>1 DEF Rest
      <4> QED BY <2>4, <4>1, <4>2, PrecedesIsOrder
    <3> QED BY <1>1, <3>1, <3>2
  <2>6. StayedIsAhead'
    <3> SUFFICES ASSUME NEW i \in stayed, i \notin shown, i \notin P PROVE Precedes(last, i)
      BY <1>1, <2>1, <2>2 DEF StayedIsAhead, Precedes
    <3>1. i \in Rest
      BY <1>1, <1>2 DEF StayedIsAhead, Rest
    <3> QED BY <1>1, <2>3, <3>1 DEF IsPage
  <2> QED BY <1>5, <1>6, <2>1, <2>5, <2>6 DEF WalkIsExact
<1> QED BY <1>7, <1>8

\* Rows come and go, and a walk begins.
LEMMA ListKeeps ==
  ASSUME WalkInv, Draw \/ StartWalk \/ \E i \in Ids : Enter(i) \/ Leave(i)
  PROVE  WalkInv'
<1> USE PagesAssumption DEF WalkInv, ShownIsPassed, StayedIsAhead, WalkIsExact, Ids, Precedes
<1>1. CASE Draw
  BY <1>1 DEF Draw, PagesTypeOK
<1>2. CASE StartWalk
  BY <1>2 DEF StartWalk, PagesTypeOK
<1>3. ASSUME NEW i \in Ids, Enter(i) PROVE WalkInv'
  BY <1>3 DEF Enter, PagesTypeOK
<1>4. ASSUME NEW i \in Ids, Leave(i) PROVE WalkInv'
  BY <1>4 DEF Leave, PagesTypeOK
<1> QED BY <1>1, <1>2, <1>3, <1>4

\* WalkInv holds in every state.
THEOREM WalkInvariant == PagesSpec => []WalkInv
<1>1. PagesInit => WalkInv
  BY PagesAssumption DEF PagesInit, WalkInv, PagesTypeOK, ShownIsPassed, StayedIsAhead,
    WalkIsExact
<1>2. WalkInv /\ [PagesNext]_pageVars => WalkInv'
  <2> SUFFICES ASSUME WalkInv, [PagesNext]_pageVars PROVE WalkInv'
    OBVIOUS
  <2>1. CASE UNCHANGED pageVars
    BY <2>1 DEF pageVars, WalkInv, PagesTypeOK, ShownIsPassed, StayedIsAhead,
      WalkIsExact, Precedes
  <2> QED BY <2>1, FetchKeeps, ListKeeps DEF PagesNext
<1> QED BY <1>1, <1>2, PTL DEF PagesSpec

\* A walk that ends has shown every row that was listed all the while, and no
\* row twice, for every size of a page and whatever is inserted and deleted
\* (common.py:3-13).
THEOREM WalksAreExact == PagesSpec => []WalkIsExact
<1>1. WalkInv => WalkIsExact
  BY DEF WalkInv
<1> QED BY <1>1, WalkInvariant, PTL
-----------------------------------------------------------------------------
(***************************************************************************)
(* The simplified track, for every length, every set of distances and      *)
(* every tolerance.  A point is dropped only when the farthest point       *)
(* between its neighbours is near; the proof shows that a farthest point   *)
(* exists and that what has left the stack stays settled.                  *)
(***************************************************************************)
\* The two ends are kept.
EndsKept == {1, Points} \subseteq keep

\* What lies between two neighbours that are not on the stack is near.
SettledIsNear ==
  \A s \in Segments : Adjacent(s) /\ s \notin stack
    => \A i \in Between(s) : dist[<<s, i>>] <= Tolerance

TrailInv == TrailTypeOK /\ EndsKept /\ StackIsAdjacent /\ SettledIsNear
-----------------------------------------------------------------------------
\* A set of naturals that is not empty has a least element.
LEMMA LeastExists ==
  ASSUME NEW T \in SUBSET Nat, T # {}
  PROVE  \E x \in T : \A y \in T : x <= y
<1> DEFINE L == {p \in Nat \X Nat : p[1] < p[2]}
<1>1. IsWellFoundedOn(L, Nat)
  <2>1. L = OpToRel(<, Nat)
    BY DEF OpToRel
  <2> QED BY <2>1, NatLessThanWellFounded, Zenon
<1> HIDE DEF L
<1>2. PICK x \in T : \A y \in T : ~(<<y, x>> \in L)
  BY <1>1, WFMin
<1>3. \A y \in T : ~(y < x)
  <2> TAKE y \in T
  <2>1. <<y, x>> \in Nat \X Nat /\ ~(<<y, x>> \in L)
    BY <1>2
  <2> QED BY <2>1 DEF L
<1> QED BY <1>3

\* Of the points between two others one is the first of the farthest.
LEMMA FarthestExists ==
  ASSUME TrailTypeOK, NEW s \in Segments, NEW b \in Between(s)
  PROVE  \E i \in Between(s) : IsFarthest(s, i)
<1> DEFINE D(j) == dist[<<s, j>>]
           R == {MaxDist - D(j) : j \in Between(s)}
<1>1. \A j \in Between(s) : j \in Nat /\ D(j) \in Nat /\ MaxDist - D(j) \in Nat
  <2> TAKE j \in Between(s)
  <2>1. j \in Track /\ <<s, j>> \in Inner
    BY DEF Between, Inner
  <2>2. j \in Nat /\ D(j) \in 0 .. MaxDist
    BY <2>1 DEF TrailTypeOK, Track
  <2> QED BY <2>2, TrailAssumption
<1> HIDE DEF D
<1>2. R \in SUBSET Nat /\ R # {}
  BY <1>1
<1> HIDE DEF R
<1>3. PICK r \in R : \A q \in R : r <= q
  BY <1>2, LeastExists
<1> USE DEF R
<1>4. PICK k \in Between(s) : r = MaxDist - D(k)
  BY <1>3
<1>5. \A j \in Between(s) : D(j) <= D(k)
  BY <1>1, <1>3, <1>4, TrailAssumption
<1> DEFINE F == {j \in Between(s) : D(j) = D(k)}
<1>6. F \in SUBSET Nat /\ F # {}
  BY <1>1
<1>7. PICK i \in F : \A j \in F : i <= j
  BY <1>6, LeastExists
<1>8. i \in Between(s) /\ D(i) = D(k)
  BY <1>7
<1>9. \A j \in Between(s) : D(j) <= D(i) /\ (D(j) = D(i) => i <= j)
  BY <1>5, <1>7, <1>8
<1> QED BY <1>8, <1>9 DEF IsFarthest, D
-----------------------------------------------------------------------------
\* At first the whole track is on the stack.
LEMMA TrailInvInit == ASSUME TrailInit PROVE TrailInv
<1> USE TrailAssumption DEF TrailInit
<1>1. TrailTypeOK
  BY DEF TrailTypeOK, Segments, Track
<1>2. EndsKept
  BY DEF EndsKept
<1>3. StackIsAdjacent
  BY DEF StackIsAdjacent, Adjacent, Between, Track
<1>4. SettledIsNear
  <2> SUFFICES ASSUME NEW s \in Segments, Adjacent(s), s \notin stack PROVE FALSE
    BY DEF SettledIsNear
  <2>1. s = <<s[1], s[2]>> /\ s[1] \in 1 .. Points /\ s[2] \in 1 .. Points /\ s[1] < s[2]
    BY DEF Segments, Track
  <2>2. s[1] \in {1, Points} /\ s[2] \in {1, Points}
    BY DEF Adjacent
  <2>3. s[1] = 1 /\ s[2] = Points /\ Points # 1
    BY <2>1, <2>2
  <2> QED BY <2>1, <2>3
<1> QED BY <1>1, <1>2, <1>3, <1>4 DEF TrailInv

\* A segment whose farthest point is near leaves the stack settled.
LEMMA DropKeeps ==
  ASSUME TrailInv, NEW s \in Segments, DropBetween(s) PROVE TrailInv'
<1> USE DEF TrailInv
<1>1. s \in stack /\ stack' = stack \ {s} /\ UNCHANGED <<dist, mock, keep>>
  BY DEF DropBetween, Popped
<1>2. TrailTypeOK' /\ EndsKept'
  BY <1>1 DEF TrailTypeOK, EndsKept
<1>3. StackIsAdjacent'
  BY <1>1 DEF StackIsAdjacent, Adjacent
<1>4. \A i \in Between(s) : dist[<<s, i>>] <= Tolerance
  <2> TAKE b \in Between(s)
  <2>1. PICK i \in Between(s) : IsFarthest(s, i)
    BY FarthestExists
  <2>2. ~ (dist[<<s, i>>] > Tolerance)
    BY <2>1 DEF DropBetween, Far
  <2>3. dist[<<s, b>>] <= dist[<<s, i>>]
    BY <2>1 DEF IsFarthest
  <2>4. <<s, i>> \in Inner /\ <<s, b>> \in Inner
    BY DEF Inner, Between
  <2>5. dist[<<s, i>>] \in Nat /\ dist[<<s, b>>] \in Nat
    BY <2>4 DEF TrailTypeOK
  <2> QED BY <2>2, <2>3, <2>5, TrailAssumption
<1>5. SettledIsNear'
  BY <1>1, <1>4 DEF SettledIsNear, Adjacent
<1> QED BY <1>2, <1>3, <1>5

\* A split keeps one point more, and leaves its two sides on the stack.
LEMMA SplitKeeps ==
  ASSUME TrailInv, NEW s \in Segments, NEW i \in Track, Split(s, i) PROVE TrailInv'
<1> USE DEF TrailInv
<1>1. /\ s \in stack /\ i \in Between(s) /\ dist' = dist /\ mock' = mock
      /\ stack' = (stack \ {s}) \cup {<<s[1], i>>, <<i, s[2]>>} /\ keep' = keep \cup {i}
  BY DEF Split, Popped, Halves, Kept, IsFarthest
<1>2. /\ s = <<s[1], s[2]>> /\ s[1] \in Track /\ s[2] \in Track
      /\ s[1] < i /\ i < s[2]
  BY <1>1 DEF Segments, Between
<1>3. TrailTypeOK' /\ EndsKept'
  BY <1>1, <1>2 DEF TrailTypeOK, EndsKept, Segments
<1>4. Adjacent(s)
  BY <1>1 DEF StackIsAdjacent
<1>5. \A t \in Segments : Adjacent(t) /\ t # s => i \notin Between(t)
  <2> SUFFICES ASSUME NEW t \in Segments, Adjacent(t), i \in Between(t) PROVE t = s
    OBVIOUS
  <2>1. t = <<t[1], t[2]>> /\ t[1] \in Track /\ t[2] \in Track /\ t[1] < i /\ i < t[2]
    BY DEF Segments, Between
  <2>2. t[1] \notin Between(s) /\ t[2] \notin Between(s) /\ s[1] \notin Between(t) /\ s[2] \notin Between(t)
    BY <1>4 DEF Adjacent
  <2>3. t[1] = s[1] /\ t[2] = s[2]
    BY <1>2, <2>1, <2>2 DEF Between, Track
  <2> QED BY <1>2, <2>1, <2>3
<1>6. StackIsAdjacent'
  <2> SUFFICES ASSUME NEW t \in stack' PROVE Adjacent(t)'
    BY DEF StackIsAdjacent
  <2>1. CASE t \in stack /\ t # s
    <3>1. t \in Segments /\ Adjacent(t)
      BY <2>1 DEF StackIsAdjacent, TrailTypeOK
    <3> QED BY <1>1, <1>5, <2>1, <3>1 DEF Adjacent
  <2>2. CASE t = <<s[1], i>>
    BY <1>1, <1>2, <1>4, <2>2 DEF Adjacent, Between, Track
  <2>3. CASE t = <<i, s[2]>>
    BY <1>1, <1>2, <1>4, <2>3 DEF Adjacent, Between, Track
  <2> QED BY <1>1, <2>1, <2>2, <2>3
<1>7. SettledIsNear'
  <2> SUFFICES ASSUME NEW t \in Segments, Adjacent(t)', t \notin stack'
               PROVE  \A j \in Between(t) : dist[<<t, j>>] <= Tolerance
    BY <1>1 DEF SettledIsNear
  <2>1. t = <<t[1], t[2]>> /\ t[1] \in Track /\ t[2] \in Track /\ t[1] < t[2]
    BY DEF Segments
  <2>2. t # s
    BY <1>1, <1>2 DEF Adjacent
  <2>3. t[1] # i
    <3> SUFFICES ASSUME t[1] = i PROVE FALSE
      OBVIOUS
    <3>1. s[2] \notin Between(t) /\ t[2] \notin Between(s)
      BY <1>1, <1>4, <2>1 DEF Adjacent, Between, Track
    <3>2. t[2] = s[2]
      BY <1>2, <2>1, <3>1 DEF Between, Track
    <3> QED BY <1>1, <2>1, <3>2
  <2>4. t[2] # i
    <3> SUFFICES ASSUME t[2] = i PROVE FALSE
      OBVIOUS
    <3>1. s[1] \notin Between(t) /\ t[1] \notin Between(s)
      BY <1>1, <1>4, <2>1 DEF Adjacent, Between, Track
    <3>2. t[1] = s[1]
      BY <1>2, <2>1, <3>1 DEF Between, Track
    <3> QED BY <1>1, <2>1, <3>2
  <2>5. Adjacent(t) /\ t \notin stack
    BY <1>1, <2>2, <2>3, <2>4 DEF Adjacent
  <2> QED BY <2>5 DEF SettledIsNear
<1> QED BY <1>3, <1>6, <1>7

\* Every step keeps the invariant.
LEMMA TrailInvStep == ASSUME TrailInv, [TrailNext]_trailVars PROVE TrailInv'
<1>1. ASSUME NEW s \in Segments, DropBetween(s) PROVE TrailInv'
  BY <1>1, DropKeeps
<1>2. ASSUME NEW s \in Segments, NEW i \in Track, Split(s, i) PROVE TrailInv'
  BY <1>2, SplitKeeps
<1>3. CASE UNCHANGED trailVars
  BY <1>3 DEF TrailInv, TrailTypeOK, EndsKept, StackIsAdjacent, SettledIsNear, Adjacent, trailVars
<1> QED BY <1>1, <1>2, <1>3 DEF TrailNext

\* TrailInv holds in every state.
THEOREM TrailInvariant == TrailSpec => []TrailInv
<1>1. TrailInit => TrailInv
  BY TrailInvInit
<1>2. TrailInv /\ [TrailNext]_trailVars => TrailInv'
  BY TrailInvStep
<1> QED BY <1>1, <1>2, PTL DEF TrailSpec

\* Segments on the stack of _douglas_peucker join two kept neighbours, whatever
\* the track.
THEOREM StackJoinsNeighbours == TrailSpec => []StackIsAdjacent
<1>1. TrailInv => StackIsAdjacent
  BY DEF TrailInv
<1> QED BY <1>1, TrailInvariant, PTL

\* For every track and tolerance and whichever points are mock GPS, what the
\* replay leaves out lies within the tolerance of the segment that joins its
\* neighbours in the mask (_douglas_peucker and route, location_service.py:105-126
\* and 343-350).
THEOREM NothingFarIsDropped == TrailSpec => []DroppedAreNear
<1>1. TrailInv => DroppedAreNear
  BY DEF TrailInv, DroppedAreNear, Drawn, EndsKept, SettledIsNear
<1> QED BY <1>1, TrailInvariant, PTL
-----------------------------------------------------------------------------
(***************************************************************************)
(* The live map, for any number of batches, cuts and lost messages, in any *)
(* order.  A fix that is no stray comes alone and after all the others, so *)
(* what the hash, a snapshot or the database held before it is behind it.  *)
(***************************************************************************)

\* The types the proofs need.
FeedTyped ==
  /\ stored \in Nat /\ hash \in Nat /\ seen \in Nat /\ sent \in Nat
  /\ stepOf \in [Fixes -> Working \cup {"new", "done"}]

Reported(x) == x = 0 \/ (x \in Fixes /\ stepOf[x] # "new")

\* What is shown, about to be shown, cached and stored was reported before.
KnownOK ==
  /\ Reported(stored) /\ Reported(hash) /\ Reported(seen) /\ Reported(sent)
  /\ hash <= stored /\ seen <= stored /\ sent <= stored
  /\ \A f \in Fixes : stepOf[f] = "hset" => f <= stored

\* While a fix that is no stray is in hand, nothing later has been reported.
LastOK ==
  \A f \in Fixes : stepOf[f] \in Working /\ f \notin strays =>
    \A g \in Fixes : (g # f => stepOf[g] \notin Working) /\ (g > f => stepOf[g] = "new")

\* From x the map does not go back to y without a stray.
Onward(x, y) == x <= y \/ x \in strays \/ y \in strays

\* Nor from what it shows, or is about to, to what it would show next.
OnwardOK ==
  /\ hash # 0 => Onward(sent, hash)
  /\ feed = "query" /\ seen # 0 => Onward(sent, seen)
  /\ feed = "query" /\ seen # 0 /\ hash # 0 => Onward(seen, hash)
  /\ feed = "query" /\ seen = 0 /\ hash # 0 => Onward(stored, hash)

FeedInv == FeedTyped /\ KnownOK /\ LastOK /\ OnwardOK

\* At first nothing is stored.
LEMMA FeedInvInit == ASSUME LiveFeedInit PROVE FeedInv
BY DEF LiveFeedInit, FeedInv, FeedTyped, KnownOK, Reported, LastOK, OnwardOK, Working, Fixes

\* Every step keeps the types.
LEMMA FeedTypedStep == ASSUME FeedTyped, LiveFeedNext PROVE FeedTyped'
<1> USE LiveFeedAssumption DEF FeedTyped, Fixes, Working, Step
<1>1. ASSUME NEW f \in Fixes, ReportFix(f) \/ CommitFix(f) \/ HsetFix(f) PROVE FeedTyped'
  BY <1>1 DEF ReportFix, CommitFix, HsetFix
<1>2. ASSUME NEW f \in Fixes, ExpireFix(f) \/ PublishFix(f) \/ CutFix(f) PROVE FeedTyped'
  BY <1>2 DEF ExpireFix, PublishFix, CutFix, CutShort
<1>3. CASE FixGrowsOld \/ HashExpires \/ Connect \/ LoseMessage \/ Disconnect
  BY <1>3 DEF FixGrowsOld, HashExpires, Connect, LoseMessage, Disconnect, CutShort
<1>4. CASE AdminLive
  BY <1>4 DEF AdminLive, ReadHashes, SendSnapshot, WaitMessage
<1> QED BY <1>1, <1>2, <1>3, <1>4 DEF LiveFeedNext

\* A step of the loop, or one that only takes time.
LEMMA LoopKeeps ==
  ASSUME FeedInv,
         FixGrowsOld \/ HashExpires \/ Connect \/ LoseMessage \/ Disconnect \/ AdminLive
  PROVE  KnownOK' /\ LastOK' /\ OnwardOK'
<1> USE DEF FeedInv
<1>1. stepOf' = stepOf /\ strays' = strays /\ stored' = stored
  BY DEF FixGrowsOld, HashExpires, Connect, LoseMessage, Disconnect, AdminLive, ReadHashes,
    SendSnapshot, WaitMessage
<1>2. LastOK'
  BY <1>1 DEF LastOK
<1>3. stored \in Nat /\ hash \in Nat /\ seen \in Nat /\ sent \in Nat
  BY DEF FeedTyped
<1>4. CASE FixGrowsOld \/ LoseMessage \/ Connect
  <2>1. hash' = hash /\ seen' = seen /\ (sent' = sent \/ sent' = 0)
        /\ (feed' = feed \/ feed' = "read")
    BY <1>4 DEF FixGrowsOld, LoseMessage, Connect
  <2> QED BY <1>1, <1>2, <1>3, <2>1 DEF KnownOK, Reported, OnwardOK, Onward
<1>5. CASE HashExpires \/ Disconnect
  <2>1. sent' = sent /\ \/ hash' = 0 /\ seen' = seen /\ feed' = feed
                        \/ hash' = hash /\ seen' = 0 /\ feed' = "closed"
    BY <1>5 DEF HashExpires, Disconnect
  <2> QED BY <1>1, <1>2, <1>3, <2>1 DEF KnownOK, Reported, OnwardOK, Onward
<1>6. CASE AdminLive
  <2>1. hash' = hash
    BY <1>6 DEF AdminLive, ReadHashes, SendSnapshot, WaitMessage
  <2>2. CASE ReadHashes
    BY <1>1, <1>2, <1>3, <2>1, <2>2 DEF ReadHashes, KnownOK, Reported, OnwardOK, Onward
  <2>3. CASE SendSnapshot
    BY <1>1, <1>2, <1>3, <2>1, <2>3 DEF SendSnapshot, KnownOK, Reported, OnwardOK, Onward
  <2>4. CASE WaitMessage
    BY <1>1, <1>2, <1>3, <2>1, <2>4 DEF WaitMessage, KnownOK, Reported, OnwardOK, Onward
  <2> QED BY <1>6, <2>2, <2>3, <2>4 DEF AdminLive
<1> QED BY <1>4, <1>5, <1>6

\* A step of a handler.
LEMMA HandlerKeeps ==
  ASSUME FeedInv, NEW f \in Fixes,
         ReportFix(f) \/ CommitFix(f) \/ HsetFix(f) \/ ExpireFix(f) \/ PublishFix(f) \/ CutFix(f)
  PROVE  KnownOK' /\ LastOK' /\ OnwardOK'
<1> USE DEF FeedInv
<1>1. /\ stored \in Nat /\ hash \in Nat /\ seen \in Nat /\ sent \in Nat
      /\ Fixes \subseteq Nat \ {0} /\ f \in Fixes
      /\ stepOf \in [Fixes -> Working \cup {"new", "done"}]
  BY LiveFeedAssumption DEF FeedTyped, Fixes
<1>2. CASE ReportFix(f)
  <2> DEFINE beside == {g \in Fixes : stepOf[g] \in Working}
             isLate == \E g \in Fixes : g > f /\ stepOf[g] # "new"
  <2>1. /\ stepOf[f] = "new" /\ stepOf' = [stepOf EXCEPT ![f] = "commit"]
        /\ strays' = strays \cup beside \cup (IF beside # {} \/ isLate THEN {f} ELSE {})
        /\ UNCHANGED <<stored, hash, feed, seen, sent>>
    BY <1>2 DEF ReportFix, Step
  <2>2. KnownOK'
    BY <1>1, <2>1 DEF KnownOK, Reported
  <2>3. LastOK'
    <3> SUFFICES ASSUME NEW h \in Fixes, stepOf'[h] \in Working, h \notin strays', NEW g \in Fixes
                 PROVE  (g # h => stepOf'[g] \notin Working) /\ (g > h => stepOf'[g] = "new")
      BY DEF LastOK
    <3>1. h \notin beside
      BY <2>1
    <3>2. h = f
      BY <1>1, <2>1, <3>1
    <3>3. beside = {} /\ ~isLate
      BY <2>1, <3>2
    <3> QED BY <1>1, <2>1, <3>2, <3>3
  <2>4. OnwardOK'
    BY <2>1 DEF OnwardOK, Onward
  <2> QED BY <2>2, <2>3, <2>4
<1>3. CASE CommitFix(f)
  <2>1. /\ stepOf[f] = "commit" /\ stepOf' = [stepOf EXCEPT ![f] = "hset"]
        /\ stored' = (IF f > stored THEN f ELSE stored)
        /\ strays' = IF feed = "query" /\ seen = 0 /\ hash # 0 THEN strays \cup {f} ELSE strays
        /\ UNCHANGED <<hash, feed, seen, sent>>
    BY <1>3 DEF CommitFix, Step, Stores
  <2>2. KnownOK'
    BY <1>1, <2>1 DEF KnownOK, Reported
  <2>3. LastOK'
    BY <1>1, <2>1 DEF LastOK, Working
  <2>4. OnwardOK'
    BY <1>1, <2>1 DEF OnwardOK, Onward
  <2> QED BY <2>2, <2>3, <2>4
<1>4. CASE HsetFix(f)
  <2>1. /\ stepOf[f] = "hset" /\ stepOf' = [stepOf EXCEPT ![f] = "expire"]
        /\ hash' = f /\ UNCHANGED <<stored, strays, feed, seen, sent>>
    BY <1>4 DEF HsetFix, Step
  <2>2. KnownOK'
    BY <1>1, <2>1 DEF KnownOK, Reported
  <2>3. LastOK'
    BY <1>1, <2>1 DEF LastOK, Working
  <2>4. \A x \in Nat : Reported(x) => Onward(x, f)
    <3> TAKE x \in Nat
    <3>1. f \notin strays => \A g \in Fixes : g > f => stepOf[g] = "new"
      BY <2>1 DEF LastOK, Working
    <3> QED BY <1>1, <3>1 DEF Reported, Onward
  <2>5. OnwardOK'
    BY <1>1, <2>1, <2>4 DEF OnwardOK, Onward, KnownOK
  <2> QED BY <2>2, <2>3, <2>5
<1>5. CASE ExpireFix(f) \/ PublishFix(f) \/ CutFix(f)
  <2>1. /\ stepOf[f] \in Working /\ \E to \in {"publish", "done"} : stepOf' = [stepOf EXCEPT ![f] = to]
        /\ UNCHANGED <<stored, strays, hash, feed, seen, sent>>
    BY <1>5 DEF ExpireFix, PublishFix, CutFix, Step, Working
  <2>2. KnownOK'
    BY <1>1, <2>1 DEF KnownOK, Reported
  <2>3. LastOK'
    BY <1>1, <2>1 DEF LastOK, Working
  <2> QED BY <2>1, <2>2, <2>3 DEF OnwardOK, Onward
<1> QED BY <1>2, <1>3, <1>4, <1>5

\* FeedInv holds in every state.
THEOREM FeedInvariant == LiveFeedSpec => []FeedInv
<1>1. LiveFeedInit => FeedInv
  BY FeedInvInit
<1>2. FeedInv /\ [LiveFeedNext]_feedVars => FeedInv'
  <2> SUFFICES ASSUME FeedInv, [LiveFeedNext]_feedVars PROVE FeedInv'
    OBVIOUS
  <2>1. CASE UNCHANGED feedVars
    BY <2>1 DEF feedVars, FeedInv, FeedTyped, KnownOK, Reported, LastOK, OnwardOK, Onward
  <2>2. CASE LiveFeedNext
    <3>1. FeedTyped'
      BY <2>2, FeedTypedStep DEF FeedInv
    <3>2. KnownOK' /\ LastOK' /\ OnwardOK'
      BY <2>2, LoopKeeps, HandlerKeeps DEF LiveFeedNext
    <3> QED BY <3>1, <3>2 DEF FeedInv
  <2> QED BY <2>1, <2>2
<1> QED BY <1>1, <1>2, PTL DEF LiveFeedSpec

\* In whatever order batches come and however many are cut and messages lost, an
\* open map goes back only between two fixes of which one came beside another,
\* after a later one, or between the two reads of one snapshot
\* (_update_live_cache, all_live and latest_for_user).
THEOREM MapNeverGoesBack == LiveFeedSpec => FeedNeverGoesBack
<1>1. FeedInv /\ [LiveFeedNext]_feedVars =>
        [feed # "closed" /\ feed' # "closed" /\ sent' < sent => {sent, sent'} \cap strays # {}]_feedVars
  <2> SUFFICES ASSUME FeedInv, LiveFeedNext, feed # "closed", sent' < sent
               PROVE  {sent, sent'} \cap strays # {}
    OBVIOUS
  <2>1. stored \in Nat /\ hash \in Nat /\ seen \in Nat /\ sent \in Nat
    BY DEF FeedInv, FeedTyped
  <2>2. CASE SendSnapshot
    BY <2>1, <2>2 DEF SendSnapshot, FeedInv, KnownOK, OnwardOK, Onward
  <2>3. CASE ~SendSnapshot
    BY <2>1, <2>3 DEF LiveFeedNext, ReportFix, CommitFix, HsetFix, ExpireFix, PublishFix, CutFix,
        FixGrowsOld, HashExpires, Connect, LoseMessage, Disconnect, AdminLive, ReadHashes, WaitMessage
  <2> QED BY <2>2, <2>3
<1> QED BY <1>1, FeedInvariant, PTL DEF LiveFeedSpec, FeedNeverGoesBack

\* The dot on the map, in the employee list and on the team screen is one, in
\* every state the cache can be in: the three derivations (_derive_live_status,
\* _derive_live, _derive_status) are one function of the hash.
THEOREM ScreensGiveOneDot == LiveFeedSpec => []ScreensAgree
<1> DEFINE Flags == old \in BOOLEAN /\ moving \in BOOLEAN
<1>1. LiveFeedInit => Flags
  BY DEF LiveFeedInit
<1>2. Flags /\ [LiveFeedNext]_feedVars => Flags'
  <2> SUFFICES ASSUME Flags, [LiveFeedNext]_feedVars PROVE Flags'
    OBVIOUS
  <2>1. CASE UNCHANGED feedVars
    BY <2>1 DEF feedVars
  <2>2. CASE LiveFeedNext
    BY <2>2 DEF LiveFeedNext, ReportFix, CommitFix, HsetFix, ExpireFix, PublishFix, CutFix,
      FixGrowsOld, HashExpires, Connect, LoseMessage, Disconnect, AdminLive, ReadHashes,
      SendSnapshot, WaitMessage
  <2> QED BY <2>1, <2>2
<1>3. Flags => ScreensAgree
  <2>1. CASE hash = 0
    <3>1. LiveStatus = "OFFLINE" /\ TeamStatus = "OFFLINE"
      BY <2>1, Zenon DEF LiveStatus, TeamStatus
    <3>2. EmployeeStatus = "OFFLINE"
      BY <2>1 DEF EmployeeStatus
    <3> QED BY <3>1, <3>2 DEF ScreensAgree
  <2>2. CASE hash # 0 /\ ~old /\ moving
    <3>1. LiveStatus = "ACTIVE" /\ TeamStatus = "ACTIVE"
      BY <2>2, Zenon DEF LiveStatus, TeamStatus
    <3>2. EmployeeStatus = "ACTIVE"
      BY <2>2 DEF EmployeeStatus
    <3> QED BY <3>1, <3>2 DEF ScreensAgree
  <2>3. CASE hash # 0 /\ (old \/ ~moving)
    <3>1. LiveStatus = "IDLE" /\ TeamStatus = "IDLE"
      BY <2>3, Zenon DEF LiveStatus, TeamStatus
    <3>2. EmployeeStatus = "IDLE"
      <4>1. ~(hash = 0) /\ ~(hash # 0 /\ ~old /\ moving)
        BY <2>3, Zenon
      <4> QED BY <4>1 DEF EmployeeStatus
    <3> QED BY <3>1, <3>2 DEF ScreensAgree
  <2> QED BY <2>1, <2>2, <2>3, Zenon
<1> QED BY <1>1, <1>2, <1>3, PTL DEF LiveFeedSpec

-----------------------------------------------------------------------------
(***************************************************************************)
(* Events and sessions in the order of their instants.  What was read off  *)
(* an ordered log, by whatever pass, is the instants between an opening    *)
(* and a closing next to it; a pass is a fold of the community modules and *)
(* its invariant says how many of them it has counted.                     *)
(***************************************************************************)

\* How many elements of s are up to the i-th, by their instants, and which is
\* the k-th of them.
Rank(s, i) == Cardinality({j \in DOMAIN s : s[j].ts <= s[i].ts})
Ranked(s, k) == CHOOSE i \in DOMAIN s : Rank(s, i) = k

\* At distinct instants the order by rank is an order of all elements.
LEMMA RankOrders ==
  ASSUME NEW n \in Nat, NEW s, DOMAIN s = 1 .. n, \A i \in 1 .. n : s[i].ts \in Int,
         \A i, j \in 1 .. n : i # j => s[i].ts # s[j].ts
  PROVE  /\ \A k \in 1 .. n : Ranked(s, k) \in 1 .. n
         /\ \A k, l \in 1 .. n : k < l => s[Ranked(s, k)].ts < s[Ranked(s, l)].ts
         /\ \A i \in 1 .. n : Rank(s, i) \in 1 .. n /\ Ranked(s, Rank(s, i)) = i
<1> DEFINE D == 1 .. n
           B(i) == {j \in D : s[j].ts <= s[i].ts}
           r == [i \in D |-> Cardinality(B(i))]
<1>1. IsFiniteSet(D) /\ Cardinality(D) = n
  BY FS_Interval
<1>2. \A i \in D : B(i) \in SUBSET D /\ i \in B(i)
  OBVIOUS
<1>3. \A i \in D : IsFiniteSet(B(i)) /\ Cardinality(B(i)) <= n /\ Cardinality(B(i)) \in Nat
  <2> HIDE DEF B, D
  <2> QED BY <1>1, <1>2, FS_Subset, FS_CardinalityType
<1>4. \A i \in D : Cardinality(B(i)) # 0
  <2> HIDE DEF B, D
  <2> QED BY <1>2, <1>3, FS_EmptySet
<1>5. \A i \in D : r[i] \in D
  <2>1. \A i \in D : Cardinality(B(i)) \in D
    <3> HIDE DEF B
    <3> QED BY <1>3, <1>4
  <2>2. QED BY <2>1
<1>6. ASSUME NEW i \in D, NEW j \in D, s[i].ts < s[j].ts PROVE r[i] < r[j]
  <2>1. B(i) \in SUBSET B(j) /\ j \in B(j) /\ j \notin B(i)
    BY <1>6
  <2>2. Cardinality(B(i)) <= Cardinality(B(j)) /\ Cardinality(B(i)) # Cardinality(B(j))
    <3> HIDE DEF B, D
    <3> QED BY <1>3, <2>1, FS_Subset
  <2>3. Cardinality(B(i)) < Cardinality(B(j))
    <3> HIDE DEF B, D
    <3> QED BY <1>3, <2>2
  <2>4. QED BY <2>3
<1>7. \A i \in D : r[i] = Rank(s, i)
  BY DEF Rank
<1> HIDE DEF r, B
<1>8. \A i, j \in D : r[i] = r[j] => i = j
  <2> SUFFICES ASSUME NEW i \in D, NEW j \in D, i # j PROVE r[i] # r[j]
    OBVIOUS
  <2>1. s[i].ts < s[j].ts \/ s[j].ts < s[i].ts
    OBVIOUS
  <2>2. r[i] \in Int /\ r[j] \in Int /\ (r[i] < r[j] \/ r[j] < r[i])
    BY <1>5, <1>6, <2>1
  <2>3. QED BY <2>2
<1>9. \A k \in D : \E i \in D : r[i] = k
  <2>1. r \in Injection(D, D)
    BY <1>5, <1>8 DEF Injection, IsInjective, r
  <2>2. r \in Surjection(D, D)
    <3> HIDE DEF D
    <3> QED BY <1>1, <2>1, FS_Injection
  <2>3. QED BY <2>2 DEF Surjection
<1>10. \A k \in D : Ranked(s, k) \in D /\ r[Ranked(s, k)] = k
  BY <1>7, <1>9 DEF Ranked
<1>11. ASSUME NEW k \in D, NEW l \in D, k < l PROVE s[Ranked(s, k)].ts < s[Ranked(s, l)].ts
  <2> DEFINE i == Ranked(s, k)
             j == Ranked(s, l)
  <2>1. i \in D /\ j \in D /\ r[i] = k /\ r[j] = l
    BY <1>10
  <2> HIDE DEF i, j
  <2>2. i # j /\ ~(s[j].ts < s[i].ts)
    BY <1>6, <1>11, <2>1
  <2>3. s[i].ts < s[j].ts
    BY <2>1, <2>2
  <2>4. QED BY <2>3 DEF i, j
<1>12. ASSUME NEW i \in D PROVE Rank(s, i) \in D /\ Ranked(s, Rank(s, i)) = i
  <2>1. Rank(s, i) \in D /\ r[i] = Rank(s, i)
    BY <1>5, <1>7
  <2>2. Ranked(s, r[i]) \in D /\ r[Ranked(s, r[i])] = r[i]
    BY <1>10, <2>1
  <2>3. QED BY <1>8, <2>1, <2>2
<1>13. QED BY <1>10, <1>11, <1>12

\* The instants between an opening among 1 .. k (positions in O) and a closing
\* next to it, and those the k-th position closes.
Spans(ts, O, k) ==
  {t \in Nat : \E i \in O : i + 1 \in (1 .. k) \ O /\ ts[i] <= t /\ t < ts[i + 1]}
Closed(ts, O, k) == IF k - 1 \in O /\ k \notin O THEN ts[k] - ts[k - 1] ELSE 0

\* Each position adds what it closes.
LEMMA SpansGrow ==
  ASSUME NEW n \in Nat, NEW ts, \A k \in 1 .. n : ts[k] \in Nat,
         \A k, l \in 1 .. n : k < l => ts[k] < ts[l], NEW O \in SUBSET (1 .. n)
  PROVE  /\ Cardinality(Spans(ts, O, 0)) = 0
         /\ \A k \in 0 .. n : Cardinality(Spans(ts, O, k)) \in Nat
         /\ \A k \in 1 .. n :
              /\ Closed(ts, O, k) \in Nat
              /\ Cardinality(Spans(ts, O, k)) =
                   Cardinality(Spans(ts, O, k - 1)) + Closed(ts, O, k)
<1> DEFINE S(k) == Spans(ts, O, k)
           G(k) == IF k - 1 \in O /\ k \notin O THEN ts[k - 1] .. (ts[k] - 1) ELSE {}
<1>1. S(0) = {}
  BY DEF Spans
<1>2. ASSUME NEW k \in 1 .. n
      PROVE  /\ IsFiniteSet(G(k)) /\ Cardinality(G(k)) = Closed(ts, O, k) /\ Closed(ts, O, k) \in Nat
  <2>1. CASE k - 1 \in O /\ k \notin O
    <3>1. k - 1 \in 1 .. n /\ k - 1 < k
      BY <2>1
    <3>2. ts[k - 1] \in Nat /\ ts[k] \in Nat /\ ts[k - 1] < ts[k]
      BY <3>1
    <3>3. G(k) = ts[k - 1] .. (ts[k] - 1) /\ Closed(ts, O, k) = ts[k] - ts[k - 1]
      BY <2>1 DEF Closed
    <3> DEFINE a == ts[k - 1]
               b == ts[k] - 1
    <3>4. G(k) = a .. b /\ Closed(ts, O, k) = b - a + 1 /\ a \in Int /\ b \in Int /\ ~(a > b)
      BY <3>2, <3>3
    <3> HIDE DEF a, b, G
    <3>5. b - a + 1 \in Nat
      BY <3>4
    <3>6. QED BY <3>4, <3>5, FS_Interval
  <2>2. CASE ~(k - 1 \in O /\ k \notin O)
    BY <2>2, FS_EmptySet DEF Closed
  <2>3. QED BY <2>1, <2>2
<1>3. ASSUME NEW k \in 1 .. n PROVE S(k) = S(k - 1) \cup G(k)
  <2>1. ASSUME NEW t \in S(k) PROVE t \in S(k - 1) \cup G(k)
    <3>1. PICK i \in O : i + 1 \in (1 .. k) \ O /\ ts[i] <= t /\ t < ts[i + 1] /\ t \in Nat
      BY <2>1 DEF Spans
    <3>2. CASE i + 1 = k
      <4>1. i = k - 1 /\ i \in 1 .. n
        BY <3>2
      <4>2. t \in ts[k - 1] .. (ts[k] - 1) /\ k - 1 \in O /\ k \notin O
        BY <3>1, <3>2, <4>1
      <4>3. QED BY <4>2
    <3>3. CASE i + 1 # k
      <4>1. i + 1 \in (1 .. (k - 1)) \ O
        BY <3>1, <3>3
      <4>2. QED BY <3>1, <4>1 DEF Spans
    <3>4. QED BY <3>2, <3>3
  <2>2. ASSUME NEW t \in S(k - 1) PROVE t \in S(k)
    <3>1. PICK i \in O : i + 1 \in (1 .. (k - 1)) \ O /\ ts[i] <= t /\ t < ts[i + 1] /\ t \in Nat
      BY <2>2 DEF Spans
    <3>2. i + 1 \in (1 .. k) \ O
      BY <3>1
    <3>3. QED BY <3>1, <3>2 DEF Spans
  <2>3. ASSUME NEW t \in G(k) PROVE t \in S(k)
    <3>1. k - 1 \in O /\ k \notin O /\ t \in ts[k - 1] .. (ts[k] - 1)
      BY <2>3
    <3> DEFINE i == k - 1
    <3>2. i \in O /\ i + 1 = k /\ ts[i] \in Nat /\ ts[k] \in Nat
      BY <3>1
    <3>3. t \in Nat /\ ts[i] <= t /\ t < ts[k] /\ k \in (1 .. k) \ O
      BY <3>1, <3>2
    <3> HIDE DEF i
    <3>4. QED BY <3>2, <3>3 DEF Spans
  <2>4. QED
    <3> HIDE DEF S, G
    <3> QED BY <2>1, <2>2, <2>3
<1>4. ASSUME NEW k \in 1 .. n PROVE S(k - 1) \cap G(k) = {}
  <2> SUFFICES ASSUME NEW t \in S(k - 1), t \in G(k) PROVE FALSE
    OBVIOUS
  <2>1. k - 1 \in O /\ t \in ts[k - 1] .. (ts[k] - 1)
    <3>1. k - 1 \in O /\ k \notin O
      OBVIOUS
    <3>2. QED BY <3>1
  <2>2. PICK i \in O : i + 1 \in (1 .. (k - 1)) \ O /\ ts[i] <= t /\ t < ts[i + 1]
    BY DEF Spans
  <2>3. i + 1 \in 1 .. n /\ k - 1 \in 1 .. n /\ k \in 1 .. n /\ i + 1 < k - 1
    BY <2>1, <2>2
  <2> DEFINE j == i + 1
             h == k - 1
  <2>4. ts[j] \in Nat /\ ts[h] \in Nat /\ ts[j] < ts[h]
    BY <2>3
  <2>5. t \in Int /\ ts[h] <= t /\ t < ts[j]
    BY <2>1, <2>2, <2>4
  <2> HIDE DEF j, h
  <2>6. QED BY <2>4, <2>5
<1> HIDE DEF S, G
<1> DEFINE P == {k \in 0 .. n : IsFiniteSet(S(k))}
<1>5. 0 .. n \subseteq P
  <2>1. 0 \in P
    BY <1>1, FS_EmptySet
  <2>2. ASSUME NEW k \in 1 .. n, k - 1 \in P PROVE k \in P
    <3>1. k \in 0 .. n /\ IsFiniteSet(S(k - 1)) /\ IsFiniteSet(G(k))
      BY <1>2, <2>2
    <3>2. S(k) = S(k - 1) \cup G(k)
      BY <1>3
    <3>3. IsFiniteSet(S(k - 1) \cup G(k))
      BY <3>1, FS_Union
    <3>4. QED BY <3>1, <3>2, <3>3
  <2> HIDE DEF P
  <2>3. QED BY <2>1, <2>2, Scan!SetInduction
<1>6. ASSUME NEW k \in 1 .. n
      PROVE  Cardinality(S(k)) = Cardinality(S(k - 1)) + Closed(ts, O, k)
  <2>1. IsFiniteSet(S(k - 1)) /\ IsFiniteSet(G(k)) /\ k - 1 \in 0 .. n
    BY <1>2, <1>5
  <2>2. Cardinality(S(k)) = Cardinality(S(k - 1)) + Cardinality(G(k)) - Cardinality(S(k - 1) \cap G(k))
    BY <1>3, <2>1, FS_Union
  <2>3. Cardinality(S(k - 1) \cap G(k)) = 0 /\ Cardinality(S(k - 1)) \in Nat
    BY <1>4, <2>1, FS_EmptySet, FS_CardinalityType
  <2>4. QED BY <1>2, <2>2, <2>3
<1>7. \A k \in 0 .. n : Cardinality(S(k)) \in Nat
  BY <1>5, FS_CardinalityType
<1>8. Cardinality(S(0)) = 0
  BY <1>1, FS_EmptySet
<1>9. QED BY <1>2, <1>6, <1>7, <1>8 DEF S

-----------------------------------------------------------------------------
(* The time in a zone.                                                     *)

Events == [type : {"ENTER", "EXIT"}, ts : 1 .. MaxInstant]

\* The events of a day and what was told at them.
EventsOK ==
  /\ events \in Seq(Events) /\ told \in Seq(Nat) /\ Len(told) = Len(events)
  /\ \A i, j \in DOMAIN events : i # j => events[i].ts # events[j].ts

\* The timeline has the events in the order of their instants.
LEMMA TimelineIs ==
  ASSUME EventsOK
  PROVE  /\ Len(events) \in Nat /\ DOMAIN events = 1 .. Len(events)
         /\ DOMAIN Timeline = 1 .. Len(events) /\ Timeline \in Seq(Events)
         /\ Len(Timeline) = Len(events)
         /\ \A k \in 1 .. Len(events) : /\ Timeline[k] = events[Ranked(events, k)]
                                        /\ Ranked(events, k) \in 1 .. Len(events)
                                        /\ Timeline[k] \in Events
         /\ \A k, l \in 1 .. Len(events) : k < l => Timeline[k].ts < Timeline[l].ts
<1> DEFINE n == Len(events)
<1>1. n \in Nat /\ DOMAIN events = 1 .. n /\ \A i \in 1 .. n : events[i] \in Events
  BY ElementOfSeq DEF EventsOK
<1>2. \A i \in 1 .. n : events[i].ts \in Int
  BY <1>1, ZoneTimesAssumption DEF Events
<1>3. \A i, j \in 1 .. n : i # j => events[i].ts # events[j].ts
  BY <1>1 DEF EventsOK
<1> HIDE DEF n
<1>4. /\ \A k \in 1 .. n : Ranked(events, k) \in 1 .. n
      /\ \A k, l \in 1 .. n : k < l => events[Ranked(events, k)].ts < events[Ranked(events, l)].ts
  BY <1>1, <1>2, <1>3, RankOrders
<1>5. Timeline = [k \in 1 .. n |-> events[Ranked(events, k)]]
  BY <1>1 DEF Timeline, Ranked, Rank
<1>6. \A k \in 1 .. n : Timeline[k] = events[Ranked(events, k)] /\ Timeline[k] \in Events
  BY <1>1, <1>4, <1>5
<1>7. DOMAIN Timeline = 1 .. n /\ Timeline \in [1 .. n -> Events]
  BY <1>5, <1>6
<1>8. Timeline \in Seq(Events) /\ Len(Timeline) = n
  BY <1>1, <1>7
<1>9. QED BY <1>1, <1>4, <1>6, <1>7, <1>8 DEF n

\* The pass of the two reports, as a fold over the positions of the timeline.
PassAt(acc, k, s) == Pass(acc, s[k])
EventPass == INSTANCE FoldFacts WITH Op <- PassAt, Pick <- Max

\* What a pass over the events of a timeline folds is a scan of them.
LEMMA EventsAreScanned ==
  ASSUME NEW b, NEW n \in Nat, DOMAIN b = 1 .. n, NEW base
  PROVE  EventPass!ScansTo(FoldLeft(Pass, base, b), base, b, n)
<1>1. FoldLeft(Pass, base, b) = (CHOOSE g : EventPass!Folds(g, base, b, 1 .. n))[1 .. n]
  BY DEF FoldLeft, MapThenFoldSet, EventPass!Folds, PassAt
<1>2. EventPass!Picks(1 .. n)
  BY LastIsPicked DEF EventPass!Picks, Scan!Picks
<1>3. \A k \in 1 .. n : Max(1 .. k) = k
  BY LastIsPicked
<1>4. QED BY <1>1, <1>2, <1>3, EventPass!ChosenScans

\* The instants of the timeline.
Instants == [k \in DOMAIN Timeline |-> Timeline[k].ts]

\* How long the timeline says the employee was inside up to the k-th event.
Inside(k) == Cardinality(Spans(Instants, Enters, k))

\* Each event of the timeline either opens or closes a stay, and the time inside
\* grows by what it closes.
LEMMA InsideGrows ==
  ASSUME EventsOK
  PROVE  /\ Len(events) \in Nat /\ Enters \in SUBSET (1 .. Len(events)) /\ Inside(0) = 0
         /\ \A k \in 0 .. Len(events) : Inside(k) \in Nat
         /\ \A k \in 1 .. Len(events) :
              /\ Timeline[k].ts \in 1 .. MaxInstant /\ Instants[k] = Timeline[k].ts
              /\ k \in Enters <=> Timeline[k].type = "ENTER"
              /\ k \notin Enters <=> Timeline[k].type = "EXIT"
              /\ Closed(Instants, Enters, k) \in Nat
              /\ Inside(k) = Inside(k - 1) + Closed(Instants, Enters, k)
<1> DEFINE n == Len(events)
<1>1. /\ n \in Nat /\ DOMAIN Timeline = 1 .. n
      /\ \A k \in 1 .. n : Timeline[k] \in Events
      /\ \A k, l \in 1 .. n : k < l => Timeline[k].ts < Timeline[l].ts
  BY TimelineIs
<1> HIDE DEF n
<1>2. \A k \in 1 .. n : /\ Timeline[k].ts \in 1 .. MaxInstant /\ Instants[k] = Timeline[k].ts
                        /\ Timeline[k].type \in {"ENTER", "EXIT"}
  BY <1>1 DEF Instants, Events
<1>3. \A k \in 1 .. n : /\ k \in Enters <=> Timeline[k].type = "ENTER"
                        /\ k \notin Enters <=> Timeline[k].type = "EXIT"
  BY <1>1, <1>2 DEF Enters
<1>4. Enters \in SUBSET (1 .. n)
  BY <1>1 DEF Enters
<1>5. /\ \A k \in 1 .. n : Instants[k] \in Nat
      /\ \A k, l \in 1 .. n : k < l => Instants[k] < Instants[l]
  BY <1>1, <1>2, ZoneTimesAssumption
<1>6. /\ Cardinality(Spans(Instants, Enters, 0)) = 0
      /\ \A k \in 0 .. n : Cardinality(Spans(Instants, Enters, k)) \in Nat
      /\ \A k \in 1 .. n :
           /\ Closed(Instants, Enters, k) \in Nat
           /\ Cardinality(Spans(Instants, Enters, k)) =
                Cardinality(Spans(Instants, Enters, k - 1)) + Closed(Instants, Enters, k)
  BY <1>1, <1>4, <1>5, SpansGrow
<1>7. QED BY <1>1, <1>2, <1>3, <1>4, <1>6 DEF Inside, n

\* What the pass makes of the first k events.
Passed(k) == [visits |-> Cardinality(Enters \cap (1 .. k)),
              open   |-> IF k \in Enters THEN Timeline[k].ts ELSE 0,
              dwell  |-> Inside(k)]

\* The three cases of the pass.
LEMMA PassForms ==
  ASSUME NEW v, NEW o, NEW d, NEW acc, acc = [visits |-> v, open |-> o, dwell |-> d], NEW e
  PROVE  /\ e.type = "ENTER" => Pass(acc, e) = [visits |-> v + 1, open |-> e.ts, dwell |-> d]
         /\ e.type # "ENTER" /\ o = 0 => Pass(acc, e) = acc
         /\ e.type # "ENTER" /\ o # 0 =>
              Pass(acc, e) = [visits |-> v, open |-> 0, dwell |-> d + (e.ts - o)]
<1> DEFINE a == v + 1
           b == d + (e.ts - o)
<1>1. [acc EXCEPT !.visits = @ + 1] = [visits |-> a, open |-> o, dwell |-> d]
  OBVIOUS
<1>2. [acc EXCEPT !.visits = @ + 1, !.open = e.ts] = [[acc EXCEPT !.visits = @ + 1] EXCEPT !.open = e.ts]
  OBVIOUS
<1>3. [[visits |-> a, open |-> o, dwell |-> d] EXCEPT !.open = e.ts] =
        [visits |-> a, open |-> e.ts, dwell |-> d]
  <2> HIDE DEF a
  <2> QED OBVIOUS
<1>4. [acc EXCEPT !.dwell = @ + (e.ts - o)] = [visits |-> v, open |-> o, dwell |-> b]
  OBVIOUS
<1>5. [acc EXCEPT !.dwell = @ + (e.ts - o), !.open = 0] =
        [[acc EXCEPT !.dwell = @ + (e.ts - o)] EXCEPT !.open = 0]
  OBVIOUS
<1>6. [[visits |-> v, open |-> o, dwell |-> b] EXCEPT !.open = 0] =
        [visits |-> v, open |-> 0, dwell |-> b]
  <2> HIDE DEF b
  <2> QED OBVIOUS
<1>7. acc.open = o
  OBVIOUS
<1>8. [acc EXCEPT !.visits = @ + 1, !.open = e.ts] = [visits |-> a, open |-> e.ts, dwell |-> d]
  <2> HIDE DEF a
  <2> QED BY <1>1, <1>2, <1>3
<1>9. [acc EXCEPT !.dwell = @ + (e.ts - o), !.open = 0] = [visits |-> v, open |-> 0, dwell |-> b]
  <2> HIDE DEF b
  <2> QED BY <1>4, <1>5, <1>6
<1>10. QED
  <2>1. /\ e.type = "ENTER" => Pass(acc, e) = [acc EXCEPT !.visits = @ + 1, !.open = e.ts]
        /\ e.type # "ENTER" /\ o = 0 => Pass(acc, e) = acc
        /\ e.type # "ENTER" /\ o # 0 => Pass(acc, e) = [acc EXCEPT !.dwell = @ + (e.ts - o), !.open = 0]
    BY <1>7 DEF Pass
  <2>2. QED BY <1>8, <1>9, <2>1, Zenon

\* One event of the pass.
LEMMA PassStep ==
  ASSUME EventsOK, NEW k \in 1 .. Len(events)
  PROVE  Pass(Passed(k - 1), Timeline[k]) = Passed(k)
<1> DEFINE n == Len(events)
           A == Enters \cap (1 .. (k - 1))
           B == Enters \cap (1 .. k)
           v == Cardinality(A)
           d == Inside(k - 1)
           o == IF k - 1 \in Enters THEN Timeline[k - 1].ts ELSE 0
           x == Timeline[k].ts
<1>1. /\ n \in Nat /\ k \in 1 .. n /\ Enters \in SUBSET (1 .. n) /\ Inside(k - 1) \in Nat
      /\ Timeline[k].ts \in 1 .. MaxInstant /\ Instants[k] = Timeline[k].ts
      /\ k \in Enters <=> Timeline[k].type = "ENTER"
      /\ Inside(k) = Inside(k - 1) + Closed(Instants, Enters, k)
      /\ k - 1 \in Enters => /\ Instants[k - 1] = Timeline[k - 1].ts
                             /\ Timeline[k - 1].ts \in 1 .. MaxInstant
  BY InsideGrows
<1> HIDE DEF n
<1>2. IsFiniteSet(A)
  <2>1. A \in SUBSET (1 .. (k - 1)) /\ IsFiniteSet(1 .. (k - 1))
    BY FS_Interval, <1>1
  <2>2. QED BY <2>1, FS_Subset
<1>3. B = IF k \in Enters THEN A \cup {k} ELSE A
  BY <1>1
<1>4. k \notin A
  BY <1>1
<1> HIDE DEF A, B
<1>5. Cardinality(B) = (IF k \in Enters THEN v + 1 ELSE v) /\ v \in Nat
  BY <1>2, <1>3, <1>4, FS_AddElement, FS_CardinalityType
<1>6. Passed(k - 1) = [visits |-> v, open |-> o, dwell |-> d]
  BY DEF Passed, A
<1>7. Passed(k) = [visits |-> Cardinality(B), open |-> IF k \in Enters THEN x ELSE 0, dwell |-> Inside(k)]
  BY DEF Passed, B
<1>8. Inside(k) = d + (IF k - 1 \in Enters /\ k \notin Enters THEN x - o ELSE 0) /\ d \in Nat
  BY <1>1 DEF Closed
<1>9. o = 0 <=> k - 1 \notin Enters
  BY <1>1
<1> HIDE DEF v, d
<1>10. d + 0 = d
  BY <1>8
<1>11. CASE k \in Enters
  <2>1. Pass(Passed(k - 1), Timeline[k]) = [visits |-> v + 1, open |-> x, dwell |-> d]
    <3> HIDE DEF o
    <3>1. QED BY <1>1, <1>6, <1>11, PassForms
  <2> HIDE DEF o, x
  <2>2. QED BY <1>5, <1>7, <1>8, <1>10, <1>11, <2>1
<1>12. CASE k \notin Enters /\ k - 1 \notin Enters
  <2>1. Pass(Passed(k - 1), Timeline[k]) = Passed(k - 1)
    <3> HIDE DEF o
    <3>1. QED BY <1>1, <1>6, <1>9, <1>12, PassForms
  <2>2. o = 0
    BY <1>9, <1>12
  <2> HIDE DEF o, x
  <2>3. QED BY <1>5, <1>6, <1>7, <1>8, <1>10, <1>12, <2>1, <2>2
<1>13. CASE k \notin Enters /\ k - 1 \in Enters
  <2>1. Pass(Passed(k - 1), Timeline[k]) = [visits |-> v, open |-> 0, dwell |-> d + (x - o)]
    <3> HIDE DEF o
    <3>1. QED BY <1>1, <1>6, <1>9, <1>13, PassForms
  <2> HIDE DEF o, x
  <2>2. QED BY <1>5, <1>7, <1>8, <1>13, <2>1
<1>14. QED BY <1>11, <1>12, <1>13

\* The pass over the whole timeline.
LEMMA PassIs == ASSUME EventsOK PROVE ZoneDayCompliance = Passed(Len(events))
<1> DEFINE n == Len(events)
           base == [visits |-> 0, open |-> 0, dwell |-> 0]
<1>1. n \in Nat /\ DOMAIN Timeline = 1 .. n /\ Inside(0) = 0 /\ Enters \in SUBSET (1 .. n)
  BY InsideGrows, TimelineIs
<1>2. PICK acc : EventPass!Scans(acc, base, Timeline, n) /\ acc[n] = ZoneDayCompliance
  BY <1>1, EventsAreScanned DEF EventPass!ScansTo, ZoneDayCompliance
<1> DEFINE P == {k \in 0 .. n : acc[k] = Passed(k)}
<1>3. 0 \in P
  <2>1. Enters \cap (1 .. 0) = {} /\ 0 \notin Enters
    BY <1>1
  <2>2. Passed(0) = base
    BY <1>1, <2>1, FS_EmptySet DEF Passed
  <2>3. QED BY <1>1, <1>2, <2>2 DEF EventPass!Scans
<1>4. ASSUME NEW k \in 1 .. n, k - 1 \in P PROVE k \in P
  <2>1. acc[k] = Pass(acc[k - 1], Timeline[k])
    BY <1>2 DEF EventPass!Scans, PassAt
  <2>2. QED BY <1>1, <1>4, <2>1, PassStep
<1>5. 0 .. n \subseteq P
  <2> HIDE DEF P
  <2> QED BY <1>1, <1>3, <1>4, Scan!SetInduction
<1>6. QED BY <1>1, <1>2, <1>5

\* The greatest and the least of a set of numbers.
LEMMA ExtremeIs ==
  ASSUME NEW S, NEW m \in S, \A y \in S : y \in Int
  PROVE  /\ (\A y \in S : m >= y) => Max(S) = m
         /\ (\A y \in S : m <= y) => Min(S) = m
<1>1. ASSUME \A y \in S : m >= y PROVE Max(S) = m
  <2>1. \A x \in S : (\A y \in S : x >= y) => x = m
    BY <1>1
  <2>2. QED BY <1>1, <2>1 DEF Max
<1>2. ASSUME \A y \in S : m <= y PROVE Min(S) = m
  <2>1. \A x \in S : (\A y \in S : x <= y) => x = m
    BY <1>2
  <2>2. QED BY <1>2, <2>1 DEF Min
<1>3. QED BY <1>1, <1>2

\* A nonempty set of positions has a greatest and a least one.
LEMMA ExtremesExist ==
  ASSUME NEW n \in Nat, NEW S \in SUBSET (1 .. n), S # {}
  PROVE  /\ Max(S) \in S /\ \A y \in S : Max(S) >= y
         /\ Min(S) \in S /\ \A y \in S : Min(S) <= y
<1>1. \E x \in S : \A y \in S : x >= y
  BY Scan!GreatestExists
<1>2. \E x \in S : \A y \in S : x <= y
  <2> DEFINE T == {n + 1 - y : y \in S}
  <2>1. T \in SUBSET (1 .. n) /\ T # {}
    <3>1. \A y \in S : n + 1 - y \in 1 .. n
      OBVIOUS
    <3>2. QED BY <3>1
  <2> HIDE DEF T
  <2>2. PICK z \in T : \A y \in T : z >= y
    BY <2>1, Scan!GreatestExists
  <2>3. PICK x \in S : z = n + 1 - x
    BY DEF T
  <2>4. ASSUME NEW y \in S PROVE x <= y
    <3>1. n + 1 - y \in T
      BY DEF T
    <3>2. z >= n + 1 - y
      BY <2>2, <3>1
    <3>3. QED BY <2>3, <3>2
  <2>5. QED BY <2>4
<1>3. QED BY <1>1, <1>2 DEF Max, Min

\* The instants inside that an exit follows.
LEMMA StayedIs ==
  ASSUME EventsOK
  PROVE  Cardinality({t \in 1 .. MaxInstant : Stayed(t)}) = Inside(Len(events))
<1> DEFINE n == Len(events)
           X == {t \in 1 .. MaxInstant : Stayed(t)}
<1>1. /\ n \in Nat /\ DOMAIN Timeline = 1 .. n /\ Enters \in SUBSET (1 .. n)
      /\ \A k, l \in 1 .. n : k < l => Timeline[k].ts < Timeline[l].ts
      /\ \A k \in 1 .. n : /\ Timeline[k].ts \in 1 .. MaxInstant /\ Instants[k] = Timeline[k].ts
                           /\ k \in Enters <=> Timeline[k].type = "ENTER"
                           /\ k \notin Enters <=> Timeline[k].type = "EXIT"
  BY TimelineIs, InsideGrows
<1> HIDE DEF n
<1>2. ASSUME NEW t \in X PROVE t \in Spans(Instants, Enters, n)
  <2> DEFINE m == Max(UpTo(t))
             p == Min(Beyond(t))
  <2>1. UpTo(t) # {} /\ Timeline[m].type = "ENTER" /\ Beyond(t) # {} /\ Timeline[p].type = "EXIT"
        /\ t \in 1 .. MaxInstant
    BY <1>2 DEF Stayed, WasInside
  <2>2. UpTo(t) \in SUBSET (1 .. n) /\ Beyond(t) \in SUBSET (1 .. n)
    BY <1>1 DEF UpTo, Beyond
  <2>3. m \in UpTo(t) /\ (\A y \in UpTo(t) : m >= y) /\ p \in Beyond(t) /\ (\A y \in Beyond(t) : p <= y)
    BY <1>1, <2>1, <2>2, ExtremesExist
  <2> HIDE DEF m, p
  <2>4. m \in 1 .. n /\ p \in 1 .. n /\ Timeline[m].ts <= t /\ t < Timeline[p].ts
        /\ Timeline[m].ts \in Int /\ Timeline[p].ts \in Int
    BY <1>1, <2>1, <2>3 DEF UpTo, Beyond
  <2>5. m < p
    BY <1>1, <2>1, <2>4
  <2> DEFINE q == m + 1
  <2>6. q \in 1 .. n /\ q <= p /\ m < q
    BY <1>1, <2>4, <2>5
  <2> HIDE DEF q
  <2>7. q \in UpTo(t) \/ q \in Beyond(t)
    BY <1>1, <2>1, <2>6 DEF UpTo, Beyond
  <2>8. q = p
    BY <2>3, <2>4, <2>6, <2>7
  <2>9. m \in Enters /\ q \notin Enters
    BY <1>1, <2>1, <2>4, <2>8
  <2>10. Instants[m] <= t /\ t < Instants[q] /\ t \in Nat /\ q \in (1 .. n) \ Enters
    BY <1>1, <2>1, <2>4, <2>6, <2>8, <2>9
  <2>11. QED BY <2>9, <2>10 DEF Spans, q
<1>3. ASSUME NEW t \in Spans(Instants, Enters, n) PROVE t \in X
  <2>1. PICK m \in Enters : m + 1 \in (1 .. n) \ Enters /\ Instants[m] <= t /\ t < Instants[m + 1] /\ t \in Nat
    BY <1>3 DEF Spans
  <2> DEFINE q == m + 1
  <2>2. m \in 1 .. n /\ q \in 1 .. n /\ m < q /\ q \notin Enters
    BY <1>1, <2>1
  <2>3. Timeline[m].ts <= t /\ t < Timeline[q].ts /\ t \in 1 .. MaxInstant
    BY <1>1, <2>1, <2>2, ZoneTimesAssumption
  <2>4. m \in UpTo(t) /\ \A y \in UpTo(t) : y \in Int /\ m >= y
    <3>1. ASSUME NEW y \in 1 .. n, Timeline[y].ts <= t PROVE m >= y
      <4>1. ~(q <= y)
        BY <1>1, <2>2, <2>3, <3>1
      <4>2. QED BY <2>2, <4>1
    <3>2. QED BY <1>1, <2>2, <2>3, <3>1 DEF UpTo
  <2>5. q \in Beyond(t) /\ \A y \in Beyond(t) : y \in Int /\ q <= y
    <3>1. ASSUME NEW y \in 1 .. n, Timeline[y].ts > t PROVE q <= y
      <4>1. ~(y <= m)
        BY <1>1, <2>2, <2>3, <3>1
      <4>2. QED BY <2>2, <4>1
    <3>2. QED BY <1>1, <2>2, <2>3, <3>1 DEF Beyond
  <2>6. Max(UpTo(t)) = m /\ Min(Beyond(t)) = q
    <3> HIDE DEF q
    <3>1. Max(UpTo(t)) = m
      BY <2>4, ExtremeIs
    <3>2. Min(Beyond(t)) = q
      BY <2>5, ExtremeIs
    <3>3. QED BY <3>1, <3>2
  <2>7. Timeline[m].type = "ENTER" /\ Timeline[q].type = "EXIT"
    BY <1>1, <2>2
  <2> HIDE DEF q
  <2>8. QED BY <2>3, <2>4, <2>5, <2>6, <2>7 DEF Stayed, WasInside
<1>4. X = Spans(Instants, Enters, n)
  BY <1>2, <1>3
<1>5. QED BY <1>4 DEF Inside, n

\* The presence queries add up the same time.
LEMMA PresenceIs == ASSUME EventsOK PROVE PresenceMinutes = Inside(Len(events))
<1> DEFINE n == Len(events)
           d == [i \in Enters |-> Duration(i)]
           W(k) == SumFunctionOnSet(d, Enters \cap (1 .. k))
<1>1. /\ n \in Nat /\ DOMAIN Timeline = 1 .. n /\ Len(Timeline) = n /\ Enters \in SUBSET (1 .. n)
      /\ Inside(0) = 0
      /\ \A k \in 0 .. n : Inside(k) \in Nat
      /\ \A k \in 1 .. n : /\ Instants[k] = Timeline[k].ts
                           /\ k \notin Enters <=> Timeline[k].type = "EXIT"
                           /\ Closed(Instants, Enters, k) \in Nat
                           /\ Inside(k) = Inside(k - 1) + Closed(Instants, Enters, k)
  BY TimelineIs, InsideGrows
<1> HIDE DEF n
<1>2. \A i \in Enters : d[i] = IF i = n THEN 0 ELSE Closed(Instants, Enters, i + 1)
  <2> SUFFICES ASSUME NEW i \in Enters PROVE d[i] = IF i = n THEN 0 ELSE Closed(Instants, Enters, i + 1)
    OBVIOUS
  <2>1. CASE i = n
    BY <1>1, <2>1 DEF Duration, Paired
  <2>2. CASE i # n
    <3> DEFINE j == i + 1
    <3>1. i \in 1 .. n /\ j \in 1 .. n /\ i < n /\ j - 1 = i
      BY <1>1, <2>2
    <3>2. d[i] = IF Timeline[j].type = "EXIT" THEN Timeline[j].ts - Timeline[i].ts ELSE 0
      BY <1>1, <3>1 DEF Duration, Paired
    <3>3. Closed(Instants, Enters, j) = IF j \notin Enters THEN Instants[j] - Instants[i] ELSE 0
      BY <3>1 DEF Closed
    <3> HIDE DEF d
    <3>4. d[i] = Closed(Instants, Enters, j)
      <4> HIDE DEF j
      <4> QED BY <1>1, <3>1, <3>2, <3>3
    <3>5. QED BY <2>2, <3>4
  <2>3. QED BY <2>1, <2>2
<1>3. \A i \in Enters : d[i] \in Nat
  <2> SUFFICES ASSUME NEW i \in Enters PROVE d[i] \in Nat
    OBVIOUS
  <2>1. i # n => i + 1 \in 1 .. n
    BY <1>1
  <2> HIDE DEF d
  <2>2. QED BY <1>1, <1>2, <2>1
<1>4. IsFiniteSet(Enters)
  <2>1. IsFiniteSet(1 .. n)
    BY <1>1, FS_Interval
  <2>2. QED BY <1>1, <2>1, FS_Subset
<1>5. PresenceMinutes = SumFunctionOnSet(d, Enters)
  BY DEF PresenceMinutes, SumFunction
<1> HIDE DEF d
<1>6. /\ SumFunctionOnSet(d, {}) = 0
      /\ \A t \in SUBSET Enters : SumFunctionOnSet(d, t) \in Nat
      /\ \A t \in SUBSET Enters : \A x \in t : SumFunctionOnSet(d, t) = d[x] + SumFunctionOnSet(d, t \ {x})
  BY <1>3, <1>4, SumIsNat
<1>7. W(0) = 0
  <2>1. Enters \cap (1 .. 0) = {}
    OBVIOUS
  <2>2. QED BY <1>6, <2>1
<1>8. ASSUME NEW k \in 1 .. n
      PROVE  W(k) = W(k - 1) + (IF k \in Enters THEN d[k] ELSE 0) /\ W(k - 1) \in Nat
  <2> DEFINE A == Enters \cap (1 .. (k - 1))
             B == Enters \cap (1 .. k)
  <2>1. A \in SUBSET Enters /\ B \in SUBSET Enters
    OBVIOUS
  <2>2. k \notin Enters => A = B
    BY <1>1
  <2>3. k \in Enters => k \in B /\ B \ {k} = A
    <3>1. (1 .. k) \ {k} = 1 .. (k - 1) /\ k \in 1 .. k
      OBVIOUS
    <3>2. QED BY <3>1
  <2> DEFINE x == SumFunctionOnSet(d, A)
  <2> HIDE DEF A, B
  <2>4. x \in Nat
    BY <1>6, <2>1
  <2>5. CASE k \in Enters
    <3>1. SumFunctionOnSet(d, B) = d[k] + x /\ d[k] \in Nat
      BY <1>3, <1>6, <2>1, <2>3, <2>5
    <3> HIDE DEF x
    <3>2. SumFunctionOnSet(d, B) = x + d[k]
      BY <2>4, <3>1
    <3>3. QED BY <2>4, <2>5, <3>2 DEF x, A, B
  <2>6. CASE k \notin Enters
    <3>1. SumFunctionOnSet(d, B) = x
      BY <2>2, <2>6
    <3> HIDE DEF x
    <3>2. x + 0 = x
      BY <2>4
    <3>3. SumFunctionOnSet(d, B) = x + 0
      BY <3>1, <3>2
    <3>4. QED BY <2>4, <2>6, <3>3 DEF x, A, B
  <2>7. QED BY <2>5, <2>6
<1>9. W(n) = SumFunctionOnSet(d, Enters)
  <2>1. Enters \cap (1 .. n) = Enters
    BY <1>1
  <2>2. QED BY <2>1
<1> HIDE DEF W
<1> DEFINE P == {k \in 0 .. n : k = 0 \/ W(k - 1) = Inside(k)}
<1>10. 0 .. n \subseteq P
  <2>1. 0 \in P
    BY <1>1
  <2>2. ASSUME NEW k \in 1 .. n, k - 1 \in P PROVE k \in P
    <3>1. Inside(k) = Inside(k - 1) + Closed(Instants, Enters, k)
      BY <1>1
    <3>2. CASE k = 1
      <4>1. 0 \notin Enters
        BY <1>1
      <4>2. Closed(Instants, Enters, 1) = 0
        BY <4>1 DEF Closed
      <4>3. QED BY <1>1, <1>7, <3>1, <3>2, <4>2
    <3>3. CASE k # 1
      <4> DEFINE h == k - 1
      <4>1. h \in 1 .. n /\ h # n /\ h + 1 = k /\ h \in 0 .. n
        BY <1>1, <3>3
      <4>2. W(h) = W(h - 1) + (IF h \in Enters THEN d[h] ELSE 0) /\ W(h - 1) = Inside(h)
        BY <1>8, <2>2, <4>1
      <4>3. h \in Enters => d[h] = Closed(Instants, Enters, k)
        BY <1>2, <4>1
      <4>4. h \notin Enters => Closed(Instants, Enters, k) = 0
        BY DEF Closed
      <4>5. W(h) = Inside(h) + Closed(Instants, Enters, k)
        <5> HIDE DEF h
        <5> QED BY <4>2, <4>3, <4>4
      <4>6. QED BY <3>1, <4>5
    <3>4. QED BY <3>2, <3>3
  <2> HIDE DEF P
  <2>3. QED BY <1>1, <2>1, <2>2, Scan!SetInduction
<1>11. W(n) = Inside(n)
  <2>1. CASE n = 0
    BY <1>1, <1>7, <2>1
  <2>2. CASE n # 0
    <3>1. n \in 1 .. n /\ n \in 0 .. n
      BY <1>1, <2>2
    <3>2. W(n - 1) = Inside(n) /\ Inside(n) \in Nat
      BY <1>1, <1>10, <2>2, <3>1
    <3>3. W(n) = W(n - 1) + (IF n \in Enters THEN d[n] ELSE 0)
      BY <1>8, <3>1
    <3>4. n \in Enters => d[n] = 0
      BY <1>2
    <3>5. QED BY <3>2, <3>3, <3>4
  <2>3. QED BY <2>1, <2>2
<1>12. QED BY <1>5, <1>9, <1>11 DEF n

\* The zone time report counts an open visit up to the END of the day.
LEMMA EndIs ==
  ASSUME EventsOK, NEW end \in 0 .. (MaxInstant + 1)
  PROVE  ZoneDurations(end) =
           Inside(Len(events)) +
             IF CurrentlyInside THEN Cardinality(Last(Timeline).ts .. end - 1) ELSE 0
<1> DEFINE n == Len(events)
           o == ZoneDayCompliance.open
           d == Inside(n)
<1>1. n \in Nat /\ Len(Timeline) = n /\ Enters \in SUBSET (1 .. n) /\ d \in Nat
  BY TimelineIs, InsideGrows
<1>2. /\ ZoneDayCompliance.dwell = d
      /\ o = IF n \in Enters THEN Timeline[n].ts ELSE 0
  BY PassIs DEF Passed
<1>3. n \in Enters => n \in 1 .. n /\ Timeline[n].ts \in 1 .. MaxInstant
  BY <1>1, InsideGrows
<1>4. CurrentlyInside <=> n \in Enters
  <2>1. events # <<>> <=> n # 0
    BY DEF EventsOK
  <2>2. n # 0 => n \in 1 .. n
    BY <1>1
  <2>3. n # 0 => (Timeline[n].type = "ENTER" <=> n \in Enters)
    BY <2>2, InsideGrows
  <2>4. Last(Timeline) = Timeline[n]
    BY <1>1 DEF Last
  <2>5. 0 \notin Enters
    BY <1>1
  <2>6. QED BY <2>1, <2>3, <2>4, <2>5 DEF CurrentlyInside
<1>5. Last(Timeline) = Timeline[n]
  BY <1>1 DEF Last
<1> HIDE DEF n, o, d
<1>6. CASE n \in Enters
  <2>1. o \in Int /\ end \in Int /\ o # 0 /\ o = Timeline[n].ts
    BY <1>2, <1>3, <1>6, ZoneTimesAssumption
  <2>2. Cardinality(o .. (end - 1)) = IF o > end - 1 THEN 0 ELSE (end - 1) - o + 1
    <3> DEFINE b == end - 1
    <3>1. b \in Int
      BY <2>1
    <3> HIDE DEF b
    <3>2. Cardinality(o .. b) = IF o > b THEN 0 ELSE b - o + 1
      BY <2>1, <3>1, FS_Interval
    <3>3. QED BY <3>2 DEF b
  <2>3. Cardinality(o .. (end - 1)) = IF end > o THEN end - o ELSE 0
    BY <2>1, <2>2
  <2>4. ZoneDurations(end) = d + (IF end > o THEN end - o ELSE 0)
    BY <1>2, <2>1 DEF ZoneDurations, ClosedAtEnd, o
  <2>5. QED BY <1>4, <1>5, <1>6, <2>1, <2>3, <2>4 DEF d, n
<1>7. CASE n \notin Enters
  <2>1. o = 0
    BY <1>2, <1>7
  <2>2. ZoneDurations(end) = d + 0
    BY <1>2, <2>1 DEF ZoneDurations, ClosedAtEnd, o
  <2>3. QED BY <1>4, <1>7, <2>2 DEF d, n
<1>8. QED BY <1>6, <1>7

\* What was told at each exit of a regular day.
ToldOK ==
  Regular => \A i \in 1 .. Len(events) :
               told[i] = IF i % 2 = 0 THEN events[i].ts - events[i - 1].ts ELSE 0

ZoneInv == EventsOK /\ ToldOK

\* The events of a regular day came in the order of their instants.
LEMMA RegularIsSorted ==
  ASSUME NEW s, NEW n \in Nat, \A k \in 1 .. n : s[k].ts \in Int,
         \A k \in 1 .. n : k > 1 => s[k - 1].ts < s[k].ts
  PROVE  \A k, l \in 1 .. n : k < l => s[k].ts < s[l].ts
<1> DEFINE P == {l \in 0 .. n : \A k \in 1 .. n : k < l => s[k].ts < s[l].ts}
<1>1. 0 \in P
  OBVIOUS
<1>2. ASSUME NEW l \in 1 .. n, l - 1 \in P PROVE l \in P
  <2> SUFFICES ASSUME NEW k \in 1 .. n, k < l PROVE s[k].ts < s[l].ts
    OBVIOUS
  <2> DEFINE h == l - 1
  <2>1. h \in 1 .. n /\ s[h].ts < s[l].ts /\ (k = h \/ k < h)
    OBVIOUS
  <2>2. k < h => s[k].ts < s[h].ts
    BY <1>2
  <2> HIDE DEF h
  <2>3. QED BY <2>1, <2>2
<1>3. 0 .. n \subseteq P
  <2> HIDE DEF P
  <2> QED BY <1>1, <1>2, Scan!SetInduction
<1>4. QED BY <1>3

\* So the timeline of a regular day is the day as it came.
LEMMA RegularTimeline ==
  ASSUME EventsOK, Regular
  PROVE  \A k \in 1 .. Len(events) : Timeline[k] = events[k]
<1> DEFINE n == Len(events)
<1>1. /\ n \in Nat /\ DOMAIN events = 1 .. n
      /\ \A k \in 1 .. n : Timeline[k] = events[Ranked(events, k)]
  BY TimelineIs
<1>2. \A i \in 1 .. n : events[i] \in Events
  BY <1>1, ElementOfSeq DEF EventsOK
<1>3. \A i \in 1 .. n : events[i].ts \in Int
  BY <1>2, ZoneTimesAssumption DEF Events
<1>4. \A k \in 1 .. n : k > 1 => events[k - 1].ts < events[k].ts
  BY <1>1 DEF Regular
<1> HIDE DEF n
<1>5. \A k, l \in 1 .. n : k < l => events[k].ts < events[l].ts
  BY <1>1, <1>3, <1>4, RegularIsSorted
<1>6. \A i, j \in 1 .. n : i # j => events[i].ts # events[j].ts
  BY <1>1 DEF EventsOK
<1>7. ASSUME NEW k \in 1 .. n PROVE Timeline[k] = events[k]
  <2>1. {j \in 1 .. n : events[j].ts <= events[k].ts} = 1 .. k
    <3>1. ASSUME NEW j \in 1 .. n, events[j].ts <= events[k].ts PROVE j \in 1 .. k
      <4>1. ~(k < j)
        BY <1>3, <1>5, <3>1
      <4>2. QED BY <4>1
    <3>2. ASSUME NEW j \in 1 .. k PROVE j \in 1 .. n /\ events[j].ts <= events[k].ts
      <4>1. j \in 1 .. n /\ (j = k \/ j < k)
        BY <1>1
      <4>2. QED BY <1>3, <1>5, <4>1
    <3>3. QED BY <3>1, <3>2
  <2>2. Rank(events, k) = k
    <3>1. Cardinality(1 .. k) = k
      BY FS_Interval
    <3>2. QED BY <1>1, <2>1, <3>1 DEF Rank
  <2>3. Ranked(events, Rank(events, k)) = k
    BY <1>1, <1>3, <1>6, RankOrders
  <2>4. QED BY <1>1, <2>2, <2>3
<1>8. QED BY <1>7 DEF n

\* What the exit notifications of a regular day told adds up to the time inside.
LEMMA ToldIs ==
  ASSUME ZoneInv, Regular
  PROVE  SumFunction(told) = Inside(Len(events))
<1> DEFINE n == Len(events)
           W(k) == SumFunctionOnSet(told, 1 .. k)
<1>1. EventsOK /\ n \in Nat /\ DOMAIN events = 1 .. n /\ Enters \in SUBSET (1 .. n) /\ Inside(0) = 0
  BY TimelineIs, InsideGrows DEF ZoneInv
<1>2. \A k \in 1 .. n : /\ Timeline[k] = events[k]
                        /\ k \in Enters <=> Timeline[k].type = "ENTER"
                        /\ Instants[k] = Timeline[k].ts
                        /\ Closed(Instants, Enters, k) \in Nat
                        /\ Inside(k) = Inside(k - 1) + Closed(Instants, Enters, k)
  BY <1>1, RegularTimeline, InsideGrows
<1>3. ASSUME NEW k \in 1 .. n PROVE told[k] = Closed(Instants, Enters, k)
  <2>1. told[k] = IF k % 2 = 0 THEN events[k].ts - events[k - 1].ts ELSE 0
    BY <1>1, <1>3 DEF ZoneInv, ToldOK
  <2>2. k \in Enters <=> k % 2 = 1
    BY <1>1, <1>2 DEF Regular
  <2>3. k % 2 = 0 \/ k % 2 = 1
    OBVIOUS
  <2>4. CASE k % 2 = 1
    BY <2>1, <2>2, <2>4 DEF Closed
  <2>5. CASE k % 2 = 0
    <3> DEFINE h == k - 1
    <3>1. h \in 1 .. n /\ h % 2 = 1
      BY <1>1, <2>5
    <3>2. h \in Enters
      BY <1>1, <1>2, <3>1 DEF Regular
    <3>3. Closed(Instants, Enters, k) = Instants[k] - Instants[h]
      BY <2>2, <2>5, <3>2 DEF Closed
    <3> HIDE DEF h
    <3>4. Closed(Instants, Enters, k) = events[k].ts - events[h].ts
      BY <1>2, <3>1, <3>3
    <3>5. QED BY <2>1, <2>5, <3>4 DEF h
  <2>6. QED BY <2>3, <2>4, <2>5
<1>4. DOMAIN told = 1 .. n /\ SumFunction(told) = W(n)
  <2>1. DOMAIN told = 1 .. n
    BY DEF ZoneInv, EventsOK
  <2>2. QED BY <2>1 DEF SumFunction
<1> HIDE DEF n
<1>5. IsFiniteSet(1 .. n) /\ (\A k \in 1 .. n : told[k] \in Nat)
  BY <1>1, <1>2, <1>3, FS_Interval
<1>6. /\ SumFunctionOnSet(told, {}) = 0
      /\ \A t \in SUBSET (1 .. n) : SumFunctionOnSet(told, t) \in Nat
      /\ \A t \in SUBSET (1 .. n) : \A x \in t :
           SumFunctionOnSet(told, t) = told[x] + SumFunctionOnSet(told, t \ {x})
  <2> DEFINE S == 1 .. n
  <2> HIDE DEF S
  <2>1. IsFiniteSet(S) /\ \A k \in S : told[k] \in Nat
    BY <1>5 DEF S
  <2>2. /\ SumFunctionOnSet(told, {}) = 0
        /\ \A t \in SUBSET S : SumFunctionOnSet(told, t) \in Nat
        /\ \A t \in SUBSET S : \A x \in t :
             SumFunctionOnSet(told, t) = told[x] + SumFunctionOnSet(told, t \ {x})
    BY <2>1, SumIsNat
  <2>3. QED BY <2>2 DEF S
<1>7. W(0) = 0
  <2>1. 1 .. 0 = {}
    OBVIOUS
  <2>2. QED BY <1>6, <2>1
<1>8. ASSUME NEW k \in 1 .. n PROVE W(k) = W(k - 1) + told[k] /\ W(k - 1) \in Nat
  <2> DEFINE A == 1 .. (k - 1)
             B == 1 .. k
  <2>1. A \in SUBSET (1 .. n) /\ B \in SUBSET (1 .. n) /\ k \in B /\ B \ {k} = A
    <3>1. B \ {k} = A
      OBVIOUS
    <3>2. QED BY <1>1, <3>1
  <2> DEFINE x == SumFunctionOnSet(told, A)
  <2> HIDE DEF A, B
  <2>2. x \in Nat /\ told[k] \in Nat /\ SumFunctionOnSet(told, B) = told[k] + x
    BY <1>5, <1>6, <2>1
  <2> HIDE DEF x
  <2>3. SumFunctionOnSet(told, B) = x + told[k]
    BY <2>2
  <2>4. QED BY <2>2, <2>3 DEF x, A, B
<1> HIDE DEF W
<1> DEFINE P == {k \in 0 .. n : W(k) = Inside(k)}
<1>9. 0 \in P
  BY <1>1, <1>7
<1>10. ASSUME NEW k \in 1 .. n, k - 1 \in P PROVE k \in P
  BY <1>2, <1>3, <1>8, <1>10
<1>11. 0 .. n \subseteq P
  <2> HIDE DEF P
  <2> QED BY <1>1, <1>9, <1>10, Scan!SetInduction
<1>12. QED BY <1>1, <1>4, <1>11 DEF n

\* The accounts agree on every day of events.
LEMMA DayAgrees == ASSUME ZoneInv PROVE AccountsAgree
<1> DEFINE n == Len(events)
           inside == Cardinality({t \in 1 .. MaxInstant : Stayed(t)})
<1>1. EventsOK /\ n \in Nat /\ Enters \in SUBSET (1 .. n)
  BY InsideGrows DEF ZoneInv
<1>2. inside = Inside(n) /\ PresenceMinutes = Inside(n)
  BY <1>1, StayedIs, PresenceIs
<1>3. ZoneDayCompliance.dwell = Inside(n) /\ ZoneDayCompliance.visits = EmployeeVisits.visits
  <2>1. Enters \cap (1 .. n) = Enters
    BY <1>1
  <2>2. ZoneDayCompliance = [visits |-> Cardinality(Enters \cap (1 .. n)),
                             open   |-> IF n \in Enters THEN Timeline[n].ts ELSE 0,
                             dwell  |-> Inside(n)]
    BY <1>1, PassIs DEF Passed
  <2>3. EmployeeVisits.visits = Cardinality(Enters)
    BY DEF EmployeeVisits
  <2>4. ZoneDayCompliance.visits = Cardinality(Enters) /\ ZoneDayCompliance.dwell = Inside(n)
    <3> HIDE DEF n
    <3> QED BY <2>1, <2>2
  <2>5. QED BY <2>3, <2>4
<1>4. \A end \in 0 .. MaxInstant + 1 :
        ZoneDurations(end) =
          Inside(n) + IF CurrentlyInside THEN Cardinality(Last(Timeline).ts .. end - 1) ELSE 0
  BY <1>1, EndIs
<1>5. Regular => SumFunction(told) = Inside(n)
  BY ToldIs
<1> HIDE DEF n, inside
<1>6. QED BY <1>2, <1>3, <1>4, <1>5 DEF AccountsAgree, inside

\* An event more keeps what is known of a day.
LEMMA InsertKeeps ==
  ASSUME ZoneInv, NEW type \in {"ENTER", "EXIT"}, NEW ts \in 1 .. MaxInstant, InsertEvent(type, ts)
  PROVE  ZoneInv'
<1> DEFINE n == Len(events)
           e == [type |-> type, ts |-> ts]
           d == IF type = "EXIT" THEN DwellMinutes(ts) ELSE 0
           m == n + 1
<1>1. /\ n \in Nat /\ Len(told) = n /\ events \in Seq(Events) /\ told \in Seq(Nat)
      /\ DOMAIN events = 1 .. n /\ DOMAIN told = 1 .. n
      /\ \A i, j \in 1 .. n : i # j => events[i].ts # events[j].ts
  <2>1. /\ n \in Nat /\ Len(told) = n /\ events \in Seq(Events) /\ told \in Seq(Nat)
        /\ \A i, j \in DOMAIN events : i # j => events[i].ts # events[j].ts
    BY DEF ZoneInv, EventsOK
  <2>2. DOMAIN events = 1 .. n /\ DOMAIN told = 1 .. n
    BY <2>1
  <2>3. QED BY <2>1, <2>2
<1>2. /\ events' = Append(events, e) /\ told' = Append(told, d) /\ \A i \in 1 .. n : events[i].ts # ts
  BY <1>1 DEF InsertEvent
<1>3. /\ e \in Events /\ \A i \in 1 .. n : events[i] \in Events
  BY <1>1, ElementOfSeq DEF Events
<1>4. ts \in Nat /\ \A i \in 1 .. n : events[i].ts \in Nat /\ events[i].ts > 0
  BY <1>3, ZoneTimesAssumption DEF Events
<1>5. LastEnter(ts) \subseteq {events[i].ts : i \in 1 .. n} /\ \A x \in LastEnter(ts) : x < ts /\ x \in Nat
  BY <1>1, <1>4 DEF LastEnter
<1>6. Max(LastEnter(ts)) \in LastEnter(ts) \/ LastEnter(ts) = {}
  <2>1. ASSUME LastEnter(ts) # {} PROVE Max(LastEnter(ts)) \in LastEnter(ts)
    <3>1. LastEnter(ts) \in SUBSET (1 .. ts)
      <4>1. \A x \in LastEnter(ts) : x > 0
        BY <1>4, <1>5
      <4>2. QED BY <1>4, <1>5, <4>1
    <3>2. QED BY <1>4, <2>1, <3>1, ExtremesExist
  <2>2. QED BY <2>1
<1>7. d \in Nat
  <2> DEFINE x == Max(LastEnter(ts))
  <2>1. LastEnter(ts) # {} => x \in Nat /\ x < ts
    BY <1>5, <1>6
  <2>2. d = IF type = "EXIT" /\ LastEnter(ts) # {} THEN ts - x ELSE 0
    BY DEF DwellMinutes
  <2> HIDE DEF x, d
  <2>3. QED BY <1>4, <2>1, <2>2
<1> HIDE DEF d, e, n
<1>8. /\ events' \in Seq(Events) /\ told' \in Seq(Nat) /\ Len(events') = m /\ Len(told') = m
      /\ events'[m] = e /\ told'[m] = d
      /\ \A i \in 1 .. n : events'[i] = events[i] /\ told'[i] = told[i]
  <2>1. /\ Append(events, e) \in Seq(Events) /\ Len(Append(events, e)) = n + 1
        /\ Append(events, e)[n + 1] = e
        /\ \A i \in 1 .. n : Append(events, e)[i] = events[i]
    BY <1>1, <1>3, AppendProperties DEF n
  <2>2. /\ Append(told, d) \in Seq(Nat) /\ Len(Append(told, d)) = n + 1
        /\ Append(told, d)[n + 1] = d
        /\ \A i \in 1 .. n : Append(told, d)[i] = told[i]
    BY <1>1, <1>7, AppendProperties DEF n
  <2>3. QED BY <1>2, <2>1, <2>2
<1>9. m \in Nat /\ (\A i \in 1 .. m : i \in 1 .. n \/ i = m) /\ (\A i \in 1 .. n : i \in 1 .. m)
      /\ m \in 1 .. m /\ DOMAIN events' = 1 .. m
  BY <1>1, <1>8
<1>10. EventsOK'
  <2>1. \A i, j \in 1 .. m : i # j => events'[i].ts # events'[j].ts
    <3>1. events'[m].ts = ts
      BY <1>8 DEF e
    <3>2. \A i, j \in 1 .. n : i # j => events'[i].ts # events'[j].ts
      BY <1>1, <1>8
    <3>3. \A i \in 1 .. n : events'[i].ts # events'[m].ts
      BY <1>2, <1>8, <3>1
    <3> HIDE DEF m
    <3>4. QED BY <1>9, <3>2, <3>3
  <2>2. QED BY <1>8, <1>9, <2>1 DEF EventsOK
<1>11. ASSUME Regular' PROVE ToldOK'
  <2>1. \A i \in 1 .. m : /\ i > 1 => events'[i - 1].ts < events'[i].ts
                          /\ events'[i].type = IF i % 2 = 1 THEN "ENTER" ELSE "EXIT"
    BY <1>9, <1>11 DEF Regular
  <2>2. \A i \in 1 .. n : /\ i > 1 => events[i - 1].ts < events[i].ts
                          /\ events[i].type = IF i % 2 = 1 THEN "ENTER" ELSE "EXIT"
    <3>1. \A i \in 1 .. n : i > 1 => i - 1 \in 1 .. n
      BY <1>1
    <3>2. QED BY <1>8, <1>9, <2>1, <3>1
  <2>3. Regular
    BY <1>1, <2>2 DEF Regular
  <2>4. \A i \in 1 .. n : told[i] = IF i % 2 = 0 THEN events[i].ts - events[i - 1].ts ELSE 0
    BY <2>3 DEF ZoneInv, ToldOK, n
  <2>5. ASSUME NEW i \in 1 .. n
        PROVE  told'[i] = IF i % 2 = 0 THEN events'[i].ts - events'[i - 1].ts ELSE 0
    <3>1. i % 2 = 0 => i - 1 \in 1 .. n
      BY <1>1
    <3>2. QED BY <1>8, <2>4, <3>1
  <2>6. d = IF m % 2 = 0 THEN events'[m].ts - events'[m - 1].ts ELSE 0
    <3>1. events'[m].ts = ts /\ events'[m].type = type
      BY <1>8 DEF e
    <3>2. m % 2 = 0 \/ m % 2 = 1
      BY <1>9
    <3>3. CASE m % 2 = 1
      BY <1>9, <2>1, <3>1, <3>3 DEF d
    <3>4. CASE m % 2 = 0
      <4>1. n \in 1 .. n /\ n % 2 = 1 /\ m - 1 = n /\ m > 1
        BY <1>1, <1>9, <3>4
      <4>2. type = "EXIT" /\ events[n].ts < ts /\ events[n].type = "ENTER"
        <5>1. type = "EXIT" /\ events'[m - 1].ts < ts
          <6> HIDE DEF m
          <6>1. /\ m > 1 => events'[m - 1].ts < events'[m].ts
                /\ events'[m].type = IF m % 2 = 1 THEN "ENTER" ELSE "EXIT"
            BY <1>9, <2>1
          <6>2. ~(m % 2 = 1)
            BY <3>4
          <6>3. QED BY <3>1, <4>1, <6>1, <6>2
        <5>2. events[n].type = "ENTER"
          BY <2>2, <4>1
        <5>3. QED BY <1>8, <4>1, <5>1, <5>2
      <4>3. events[n].ts \in LastEnter(ts)
        BY <1>1, <4>1, <4>2 DEF LastEnter
      <4>4. \A x \in LastEnter(ts) : x \in Int /\ events[n].ts >= x
        <5>1. \A k, l \in 1 .. n : k < l => events[k].ts < events[l].ts
          <6>1. \A k \in 1 .. n : events[k].ts \in Int
            BY <1>4
          <6>2. \A k \in 1 .. n : k > 1 => events[k - 1].ts < events[k].ts
            BY <2>2
          <6>3. QED BY <1>1, <6>1, <6>2, RegularIsSorted
        <5>2. \A k \in 1 .. n : events[k].ts <= events[n].ts
          <6>1. \A k \in 1 .. n : k = n \/ k < n
            BY <1>1
          <6>2. QED BY <1>4, <4>1, <5>1, <6>1
        <5>3. QED BY <1>4, <1>5, <4>1, <5>2
      <4>5. Max(LastEnter(ts)) = events[n].ts
        BY <4>3, <4>4, ExtremeIs
      <4>6. d = ts - events[n].ts
        BY <4>2, <4>3, <4>5 DEF d, DwellMinutes
      <4>7. QED BY <1>8, <3>1, <3>4, <4>1, <4>6
    <3>5. QED BY <3>2, <3>3, <3>4
  <2>7. \A i \in 1 .. m : told'[i] = IF i % 2 = 0 THEN events'[i].ts - events'[i - 1].ts ELSE 0
    BY <1>8, <1>9, <2>5, <2>6
  <2>8. QED BY <1>8, <2>7 DEF ToldOK
<1>12. QED BY <1>10, <1>11 DEF ZoneInv, ToldOK

\* AccountsAgree: the presence screen, the visits, the two reports and, on a
\* regular day, the exit notifications tell one time, whatever the events are
\* and in whatever order their handlers inserted them.
THEOREM AccountsTellOneTime == ZoneTimesSpec => []AccountsAgree
<1>1. ZoneTimesInit => ZoneInv
  BY DEF ZoneTimesInit, ZoneInv, EventsOK, ToldOK
<1>2. ZoneInv /\ [ZoneTimesNext]_zoneVars => ZoneInv'
  <2> SUFFICES ASSUME ZoneInv, [ZoneTimesNext]_zoneVars PROVE ZoneInv'
    OBVIOUS
  <2>1. CASE UNCHANGED zoneVars
    BY <2>1 DEF zoneVars, ZoneInv, EventsOK, ToldOK, Regular
  <2>2. CASE ZoneTimesNext
    BY <2>2, InsertKeeps DEF ZoneTimesNext
  <2>3. QED BY <2>1, <2>2
<1>3. QED BY <1>1, <1>2, DayAgrees, PTL DEF ZoneTimesSpec

-----------------------------------------------------------------------------
(* The readers of a log.                                                   *)

LogEntries == [type : SessionTypes, ts : 1 .. MaxTime]

\* A log of sessions at distinct instants, in any order.
LogOK ==
  /\ dayLog \in Seq(LogEntries)
  /\ \A i, j \in DOMAIN dayLog : i # j => dayLog[i].ts # dayLog[j].ts

ByTime == InOrder(dayLog)
ByTimeAt == [k \in DOMAIN ByTime |-> ByTime[k].ts]
Opens == {k \in DOMAIN ByTime : ByTime[k].type \in Opening}

\* How much work the first k sessions make, and what the pass knows after them.
WorkedTo(k) == Cardinality(Spans(ByTimeAt, Opens, k))
Accounted(k) == [total |-> WorkedTo(k), open |-> IF k \in Opens THEN ByTime[k].ts ELSE 0]

\* sorted() orders the log by its instants.
LEMMA ByTimeIs ==
  ASSUME LogOK
  PROVE  /\ Len(dayLog) \in Nat /\ DOMAIN dayLog = 1 .. Len(dayLog)
         /\ DOMAIN ByTime = 1 .. Len(dayLog) /\ Opens \in SUBSET (1 .. Len(dayLog))
         /\ \A i \in 1 .. Len(dayLog) :
              /\ dayLog[i] \in LogEntries /\ dayLog[i].ts \in Nat
              /\ Rank(dayLog, i) \in 1 .. Len(dayLog) /\ ByTime[Rank(dayLog, i)] = dayLog[i]
         /\ \A k \in 1 .. Len(dayLog) :
              /\ Ranked(dayLog, k) \in 1 .. Len(dayLog) /\ ByTime[k] = dayLog[Ranked(dayLog, k)]
              /\ ByTime[k].type \in SessionTypes /\ ByTime[k].ts \in 1 .. MaxTime /\ ByTime[k].ts \in Nat
              /\ ByTimeAt[k] = ByTime[k].ts
         /\ \A k, l \in 1 .. Len(dayLog) : k < l => ByTime[k].ts < ByTime[l].ts
<1> DEFINE n == Len(dayLog)
<1>1. n \in Nat /\ DOMAIN dayLog = 1 .. n /\ \A i \in 1 .. n : dayLog[i] \in LogEntries
  BY ElementOfSeq DEF LogOK
<1>2. \A i \in 1 .. n : dayLog[i].ts \in Int /\ dayLog[i].ts \in Nat
  BY <1>1, DayLogsAssumption DEF LogEntries
<1>3. \A i, j \in 1 .. n : i # j => dayLog[i].ts # dayLog[j].ts
  BY <1>1 DEF LogOK
<1> HIDE DEF n
<1>4. /\ \A k \in 1 .. n : Ranked(dayLog, k) \in 1 .. n
      /\ \A k, l \in 1 .. n : k < l => dayLog[Ranked(dayLog, k)].ts < dayLog[Ranked(dayLog, l)].ts
      /\ \A i \in 1 .. n : Rank(dayLog, i) \in 1 .. n /\ Ranked(dayLog, Rank(dayLog, i)) = i
  BY <1>1, <1>2, <1>3, RankOrders
<1>5. \A i \in 1 .. n : Cardinality(UpToIt(dayLog, i)) = Rank(dayLog, i)
  <2> SUFFICES ASSUME NEW i \in 1 .. n PROVE Cardinality(UpToIt(dayLog, i)) = Rank(dayLog, i)
    OBVIOUS
  <2>1. UpToIt(dayLog, i) = {j \in DOMAIN dayLog : dayLog[j].ts <= dayLog[i].ts}
    <3>1. ASSUME NEW j \in 1 .. n
          PROVE  (dayLog[j].ts < dayLog[i].ts \/ (dayLog[j].ts = dayLog[i].ts /\ j <= i))
                   <=> dayLog[j].ts <= dayLog[i].ts
      <4>1. dayLog[j].ts = dayLog[i].ts => j = i
        BY <1>3
      <4>2. QED BY <1>2, <4>1
    <3>2. QED BY <1>1, <3>1 DEF UpToIt
  <2>2. QED BY <2>1 DEF Rank
<1>6. \A k \in 1 .. n :
        (CHOOSE i \in DOMAIN dayLog : Cardinality(UpToIt(dayLog, i)) = k) = Ranked(dayLog, k)
  <2> SUFFICES ASSUME NEW k \in 1 .. n
               PROVE  (CHOOSE i \in DOMAIN dayLog : Cardinality(UpToIt(dayLog, i)) = k) = Ranked(dayLog, k)
    OBVIOUS
  <2>1. \A i : (i \in DOMAIN dayLog /\ Cardinality(UpToIt(dayLog, i)) = k) <=> (i \in DOMAIN dayLog /\ Rank(dayLog, i) = k)
    BY <1>1, <1>5
  <2>2. QED BY <2>1 DEF Ranked
<1>7. ByTime = [k \in 1 .. n |-> dayLog[Ranked(dayLog, k)]]
  <2>1. ByTime = [k \in DOMAIN dayLog |->
                    dayLog[CHOOSE i \in DOMAIN dayLog : Cardinality(UpToIt(dayLog, i)) = k]]
    BY DEF ByTime, InOrder
  <2> DEFINE c(k) == CHOOSE i \in DOMAIN dayLog : Cardinality(UpToIt(dayLog, i)) = k
  <2>2. ByTime = [k \in 1 .. n |-> dayLog[c(k)]] /\ \A k \in 1 .. n : c(k) = Ranked(dayLog, k)
    BY <1>1, <1>6, <2>1
  <2> HIDE DEF c
  <2>3. QED BY <2>2
<1>8. \A k \in 1 .. n : ByTime[k] = dayLog[Ranked(dayLog, k)] /\ ByTime[k] \in LogEntries
  BY <1>1, <1>4, <1>7
<1>9. DOMAIN ByTime = 1 .. n /\ Opens \in SUBSET (1 .. n)
  BY <1>7 DEF Opens
<1>10. \A k \in 1 .. n : /\ ByTime[k].type \in SessionTypes /\ ByTime[k].ts \in 1 .. MaxTime
                         /\ ByTime[k].ts \in Nat /\ ByTimeAt[k] = ByTime[k].ts
  BY <1>8, <1>9, DayLogsAssumption DEF LogEntries, ByTimeAt
<1>11. \A k, l \in 1 .. n : k < l => ByTime[k].ts < ByTime[l].ts
  BY <1>4, <1>8
<1>12. \A i \in 1 .. n : ByTime[Rank(dayLog, i)] = dayLog[i]
  BY <1>4, <1>8
<1>13. QED BY <1>1, <1>2, <1>4, <1>8, <1>9, <1>10, <1>11, <1>12 DEF n

\* Work grows at each closing next to an opening.
LEMMA WorkGrows ==
  ASSUME LogOK
  PROVE  /\ WorkedTo(0) = 0 /\ 0 \notin Opens
         /\ \A k \in 0 .. Len(dayLog) : WorkedTo(k) \in Nat
         /\ \A k \in 1 .. Len(dayLog) :
              /\ k \in Opens <=> ByTime[k].type \in Opening
              /\ k \notin Opens <=> ByTime[k].type \in Closing
              /\ Closed(ByTimeAt, Opens, k) \in Nat
              /\ WorkedTo(k) = WorkedTo(k - 1) + Closed(ByTimeAt, Opens, k)
<1> DEFINE n == Len(dayLog)
<1>1. /\ n \in Nat /\ DOMAIN ByTime = 1 .. n /\ Opens \in SUBSET (1 .. n)
      /\ \A k \in 1 .. n : /\ ByTime[k].type \in SessionTypes /\ ByTime[k].ts \in Nat
                           /\ ByTimeAt[k] = ByTime[k].ts
      /\ \A k, l \in 1 .. n : k < l => ByTime[k].ts < ByTime[l].ts
  BY ByTimeIs
<1> HIDE DEF n
<1>2. \A k \in 1 .. n : /\ k \in Opens <=> ByTime[k].type \in Opening
                        /\ k \notin Opens <=> ByTime[k].type \in Closing
  BY <1>1 DEF Opens, SessionTypes, Opening, Closing
<1>3. /\ \A k \in 1 .. n : ByTimeAt[k] \in Nat
      /\ \A k, l \in 1 .. n : k < l => ByTimeAt[k] < ByTimeAt[l]
  BY <1>1
<1>4. /\ Cardinality(Spans(ByTimeAt, Opens, 0)) = 0
      /\ \A k \in 0 .. n : Cardinality(Spans(ByTimeAt, Opens, k)) \in Nat
      /\ \A k \in 1 .. n :
           /\ Closed(ByTimeAt, Opens, k) \in Nat
           /\ Cardinality(Spans(ByTimeAt, Opens, k)) =
                Cardinality(Spans(ByTimeAt, Opens, k - 1)) + Closed(ByTimeAt, Opens, k)
  BY <1>1, <1>3, SpansGrow
<1>5. 0 \notin Opens
  BY <1>1
<1>6. QED BY <1>2, <1>4, <1>5 DEF WorkedTo, n

\* calculate_duration, as a fold over the positions of the sorted log.
AccountAt(acc, k, s) == Account(acc, s[k])
Accounts == INSTANCE FoldFacts WITH Op <- AccountAt, Pick <- Max

\* What calculate_duration folds over a sorted log is a scan of it.
LEMMA LogIsScanned ==
  ASSUME NEW b, NEW n \in Nat, DOMAIN b = 1 .. n, NEW base
  PROVE  Accounts!ScansTo(FoldLeft(Account, base, b), base, b, n)
<1>1. FoldLeft(Account, base, b) = (CHOOSE g : Accounts!Folds(g, base, b, 1 .. n))[1 .. n]
  BY DEF FoldLeft, MapThenFoldSet, Accounts!Folds, AccountAt
<1>2. Accounts!Picks(1 .. n)
  BY LastIsPicked DEF Accounts!Picks, Scan!Picks
<1>3. \A k \in 1 .. n : Max(1 .. k) = k
  BY LastIsPicked
<1>4. QED BY <1>1, <1>2, <1>3, Accounts!ChosenScans

\* One session of it.
LEMMA AccountStep ==
  ASSUME LogOK, NEW k \in 1 .. Len(dayLog)
  PROVE  Account(Accounted(k - 1), ByTime[k]) = Accounted(k)
<1> DEFINE d == WorkedTo(k - 1)
           o == IF k - 1 \in Opens THEN ByTime[k - 1].ts ELSE 0
           x == ByTime[k].ts
           acc == [total |-> d, open |-> o]
<1>1. /\ k - 1 \in Opens => /\ ByTimeAt[k - 1] = ByTime[k - 1].ts
                            /\ ByTime[k - 1].ts \in 1 .. MaxTime
      /\ ByTimeAt[k] = ByTime[k].ts
  BY ByTimeIs
<1>2. /\ k \in Opens <=> ByTime[k].type \in Opening
      /\ WorkedTo(k) = d + Closed(ByTimeAt, Opens, k) /\ d \in Nat
  <2>1. k - 1 \in 0 .. Len(dayLog)
    BY ByTimeIs
  <2>2. QED BY <2>1, WorkGrows
<1>3. WorkedTo(k) = d + (IF k - 1 \in Opens /\ k \notin Opens THEN x - o ELSE 0)
  BY <1>1, <1>2 DEF Closed
<1>4. o = 0 <=> k - 1 \notin Opens
  BY <1>1
<1>5. Accounted(k - 1) = acc /\ Accounted(k) = [total |-> WorkedTo(k), open |-> IF k \in Opens THEN x ELSE 0]
  BY DEF Accounted
<1> HIDE DEF d, o, x
<1>6. d + 0 = d
  BY <1>2
<1>7. [acc EXCEPT !.open = x] = [total |-> d, open |-> x] /\ acc.open = o /\ acc.total = d
  OBVIOUS
<1> HIDE DEF acc
<1>8. CASE k \in Opens
  BY <1>2, <1>3, <1>5, <1>6, <1>7, <1>8 DEF Account, x
<1>9. CASE k \notin Opens /\ k - 1 \notin Opens
  <2>1. Account(acc, ByTime[k]) = acc
    BY <1>2, <1>4, <1>7, <1>9 DEF Account
  <2>2. Accounted(k) = [total |-> d, open |-> o]
    BY <1>3, <1>4, <1>5, <1>6, <1>9
  <2>3. QED BY <1>5, <2>1, <2>2 DEF acc
<1>10. CASE k \notin Opens /\ k - 1 \in Opens
  <2>1. Account(acc, ByTime[k]) = [total |-> d + (x - o), open |-> 0]
    BY <1>2, <1>4, <1>7, <1>10 DEF Account, x
  <2>2. Accounted(k) = [total |-> d + (x - o), open |-> 0]
    BY <1>3, <1>5, <1>10
  <2>3. QED BY <1>5, <2>1, <2>2
<1>11. QED BY <1>8, <1>9, <1>10

\* calculate_duration counts the instants between an opening session and the closing
\* one next to it.
LEMMA DurationIs == ASSUME LogOK PROVE CalculateDuration(dayLog) = WorkedTo(Len(dayLog))
<1> DEFINE n == Len(dayLog)
           base == [total |-> 0, open |-> 0]
<1>1. n \in Nat /\ DOMAIN ByTime = 1 .. n /\ WorkedTo(0) = 0 /\ 0 \notin Opens
  BY ByTimeIs, WorkGrows
<1>2. Accounts!ScansTo(FoldLeft(Account, base, ByTime), base, ByTime, n)
  BY <1>1, LogIsScanned
<1>3. PICK acc : Accounts!Scans(acc, base, ByTime, n) /\ acc[n] = FoldLeft(Account, base, ByTime)
  BY <1>2 DEF Accounts!ScansTo
<1>4. CalculateDuration(dayLog) = acc[n].total
  BY <1>3 DEF CalculateDuration, ByTime
<1> DEFINE P == {k \in 0 .. n : acc[k] = Accounted(k)}
<1>5. 0 \in P
  BY <1>1, <1>3 DEF Accounts!Scans, Accounted
<1>6. ASSUME NEW k \in 1 .. n, k - 1 \in P PROVE k \in P
  <2>1. acc[k] = Account(acc[k - 1], ByTime[k])
    BY <1>3 DEF Accounts!Scans, AccountAt
  <2>2. QED BY <1>1, <1>6, <2>1, AccountStep
<1>7. 0 .. n \subseteq P
  <2> HIDE DEF P
  <2> QED BY <1>1, <1>5, <1>6, Scan!SetInduction
<1>8. acc[n] = Accounted(n)
  BY <1>1, <1>7
<1>9. QED BY <1>4, <1>8 DEF Accounted

\* The session in force at instant t is the m-th by time.
InForce(m, t) ==
  /\ m \in 1 .. Len(dayLog) /\ ByTime[m].ts <= t
  /\ \A k \in 1 .. Len(dayLog) : ByTime[k].ts <= t => k <= m

\* Where the day stands at t: at the session in force, or at none.
LEMMA StateToIs ==
  ASSUME LogOK, NEW t \in Nat
  PROVE  \/ /\ \A k \in 1 .. Len(dayLog) : ByTime[k].ts > t
            /\ StateOf(SessionsTo(t)) = "NULL"
         \/ \E m : InForce(m, t) /\ StateOf(SessionsTo(t)) = StateForType[ByTime[m].type]
<1> DEFINE n == Len(dayLog)
           D == {i \in DOMAIN dayLog : dayLog[i].ts <= t}
           K == {k \in 1 .. n : ByTime[k].ts <= t}
           log == SessionsTo(t)
<1>1. /\ n \in Nat /\ DOMAIN dayLog = 1 .. n
      /\ \A i \in 1 .. n : dayLog[i].ts \in Nat
      /\ \A k \in 1 .. n : ByTime[k].ts \in Nat
  BY ByTimeIs
<1>2. \A k, l \in 1 .. n : k < l => ByTime[k].ts < ByTime[l].ts
  BY ByTimeIs
<1>3. /\ \A i \in 1 .. n : Rank(dayLog, i) \in 1 .. n /\ ByTime[Rank(dayLog, i)] = dayLog[i]
      /\ \A k \in 1 .. n : Ranked(dayLog, k) \in 1 .. n /\ ByTime[k] = dayLog[Ranked(dayLog, k)]
  BY ByTimeIs
<1>4. \A i, j \in 1 .. n : i # j => dayLog[i].ts # dayLog[j].ts
  BY <1>1 DEF LogOK
<1> HIDE DEF n
<1>5. DOMAIN log = D /\ \A i \in D : log[i] = dayLog[i]
  BY DEF SessionsTo, Restrict
<1>6. CASE K = {}
  <2>1. \A i \in 1 .. n : ~(dayLog[i].ts <= t)
    BY <1>3, <1>6
  <2>2. D = {}
    BY <1>1, <2>1
  <2>3. log = <<>>
    BY <2>2 DEF SessionsTo, Restrict
  <2>4. \A k \in 1 .. n : ByTime[k].ts > t
    BY <1>1, <1>6
  <2>5. QED BY <2>3, <2>4 DEF StateOf, n
<1>7. CASE K # {}
  <2>1. PICK m \in K : \A k \in K : m >= k
    <3>1. K \in SUBSET (1 .. n)
      OBVIOUS
    <3> HIDE DEF K
    <3>2. QED BY <1>1, <1>7, <3>1, Scan!GreatestExists
  <2> DEFINE i == Ranked(dayLog, m)
  <2>2. m \in 1 .. n /\ i \in D /\ dayLog[i] = ByTime[m]
    <3>1. m \in 1 .. n /\ ByTime[m].ts <= t
      BY <2>1
    <3>2. QED BY <1>1, <1>3, <3>1
  <2>3. InForce(m, t)
    BY <1>1, <2>1 DEF InForce, n
  <2> HIDE DEF i
  <2>4. ASSUME NEW j \in D PROVE dayLog[j].ts <= dayLog[i].ts
    <3> DEFINE k == Rank(dayLog, j)
    <3>1. k \in 1 .. n /\ ByTime[k] = dayLog[j] /\ j \in 1 .. n /\ dayLog[j].ts <= t
      BY <1>1, <1>3
    <3> HIDE DEF k
    <3>2. k \in K
      BY <3>1
    <3>3. k <= m
      BY <2>1, <3>2
    <3>4. k = m \/ k < m
      BY <2>2, <3>1, <3>3
    <3>5. k = m \/ ByTime[k].ts < ByTime[m].ts
      BY <1>2, <2>2, <3>1, <3>4
    <3>6. QED BY <1>1, <2>2, <3>1, <3>5
  <2>5. Latest(log) = i
    <3>1. \A x \in D : (\A j \in D : dayLog[j].ts <= dayLog[x].ts) => x = i
      <4> SUFFICES ASSUME NEW x \in D, \A j \in D : dayLog[j].ts <= dayLog[x].ts PROVE x = i
        OBVIOUS
      <4>1. dayLog[i].ts <= dayLog[x].ts /\ dayLog[x].ts <= dayLog[i].ts
        BY <2>2, <2>4
      <4>2. x \in 1 .. n /\ i \in 1 .. n
        BY <1>1, <2>2
      <4>3. dayLog[x].ts = dayLog[i].ts
        <5>1. dayLog[x].ts \in Int /\ dayLog[i].ts \in Int
          BY <1>1, <4>2
        <5>2. QED BY <4>1, <5>1
      <4>4. QED BY <1>4, <4>2, <4>3
    <3> HIDE DEF log, D
    <3>2. \A x \in D : (\A j \in D : log[j].ts <= log[x].ts) => x = i
      BY <1>5, <3>1
    <3>3. \A j \in D : log[j].ts <= log[i].ts
      BY <1>5, <2>2, <2>4
    <3>4. Latest(log) = CHOOSE x \in D : \A j \in D : log[j].ts <= log[x].ts
      BY <1>5 DEF Latest
    <3>5. QED BY <2>2, <3>2, <3>3, <3>4
  <2>6. log # <<>>
    <3> HIDE DEF log, D
    <3>1. DOMAIN log # {}
      BY <1>5, <2>2
    <3>2. DOMAIN <<>> = {}
      OBVIOUS
    <3>3. QED BY <3>1, <3>2
  <2>7. StateOf(log) = StateForType[ByTime[m].type]
    <3> HIDE DEF log, D
    <3>1. log[i] = ByTime[m]
      BY <1>5, <2>2
    <3>2. QED BY <2>5, <2>6, <3>1 DEF StateOf
  <2>8. QED BY <2>3, <2>7
<1>8. QED BY <1>6, <1>7

\* The work calculate_duration counts is the instants worked.
LEMMA WorkedIs ==
  ASSUME LogOK
  PROVE  Cardinality({t \in 0 .. MaxTime : Worked(t)}) = WorkedTo(Len(dayLog))
<1> DEFINE n == Len(dayLog)
           X == {t \in 0 .. MaxTime : Worked(t)}
           After(t) == {i \in DOMAIN dayLog : dayLog[i].ts > t}
<1>1. /\ n \in Nat /\ DOMAIN dayLog = 1 .. n /\ Opens \in SUBSET (1 .. n)
      /\ \A i \in 1 .. n : dayLog[i].ts \in Nat
      /\ \A k \in 1 .. n : /\ ByTime[k].type \in SessionTypes /\ ByTimeAt[k] = ByTime[k].ts
                           /\ ByTime[k].ts \in Nat /\ ByTime[k].ts \in 1 .. MaxTime
  BY ByTimeIs
<1>2. \A k, l \in 1 .. n : k < l => ByTime[k].ts < ByTime[l].ts
  BY ByTimeIs
<1>3. /\ \A i \in 1 .. n : Rank(dayLog, i) \in 1 .. n /\ ByTime[Rank(dayLog, i)] = dayLog[i]
      /\ \A k \in 1 .. n : Ranked(dayLog, k) \in 1 .. n /\ ByTime[k] = dayLog[Ranked(dayLog, k)]
  BY ByTimeIs
<1>4. \A k \in 1 .. n : /\ k \in Opens <=> ByTime[k].type \in Opening
                        /\ k \notin Opens <=> ByTime[k].type \in Closing
  BY WorkGrows
<1>5. \A k \in 1 .. n : ByTime[k].type \in Opening <=>
                          StateForType[ByTime[k].type] \in {"STARTED", "RESUMED"}
  <2>1. \A x \in SessionTypes : x \in Opening <=> StateForType[x] \in {"STARTED", "RESUMED"}
    BY DEF StateForType, Opening, SessionTypes
  <2>2. QED BY <1>1, <2>1
<1> HIDE DEF n
<1>6. \A t : /\ DOMAIN SessionsAfter(t) = After(t)
             /\ \A i \in After(t) : SessionsAfter(t)[i] = dayLog[i]
  BY DEF SessionsAfter, Restrict
<1>7. \A t : Worked(t) <=>
               /\ StateOf(SessionsTo(t)) \in {"STARTED", "RESUMED"}
               /\ \E i \in After(t) : /\ \A j \in After(t) : dayLog[i].ts <= dayLog[j].ts
                                      /\ dayLog[i].type \in Closing
  <2> HIDE DEF After
  <2> QED BY <1>6 DEF Worked
<1>8. ASSUME NEW t \in X PROVE t \in Spans(ByTimeAt, Opens, n)
  <2>1. t \in Nat /\ Worked(t)
    BY <1>8, DayLogsAssumption
  <2>2. PICK m : InForce(m, t) /\ StateForType[ByTime[m].type] \in {"STARTED", "RESUMED"}
    BY <1>7, <2>1, StateToIs
  <2>3. PICK i \in After(t) : /\ \A j \in After(t) : dayLog[i].ts <= dayLog[j].ts
                              /\ dayLog[i].type \in Closing
    BY <1>7, <2>1
  <2> DEFINE p == Rank(dayLog, i)
  <2>4. p \in 1 .. n /\ ByTime[p] = dayLog[i] /\ dayLog[i].ts > t
    BY <1>1, <1>3, <2>3
  <2> HIDE DEF p
  <2>5. m \in 1 .. n /\ ByTime[m].ts <= t /\ m \in Opens /\ p \notin Opens
    BY <1>4, <1>5, <2>2, <2>3, <2>4 DEF InForce, n
  <2>6. m < p
    <3>1. ByTime[m].ts \in Nat /\ ByTime[p].ts \in Nat /\ ByTime[m].ts < ByTime[p].ts
      BY <1>1, <2>1, <2>4, <2>5
    <3>2. m # p /\ ~(p < m)
      BY <1>2, <2>4, <2>5, <3>1
    <3>3. QED BY <2>4, <2>5, <3>2
  <2> DEFINE q == m + 1
  <2>7. q \in 1 .. n /\ q <= p /\ m < q
    BY <1>1, <2>4, <2>5, <2>6
  <2> HIDE DEF q
  <2>8. ByTime[q].ts > t
    <3>1. ~(ByTime[q].ts <= t)
      BY <2>2, <2>5, <2>7 DEF InForce, n
    <3>2. QED BY <1>1, <2>1, <2>7, <3>1
  <2>9. q = p
    <3>1. Ranked(dayLog, q) \in After(t) /\ ByTime[q] = dayLog[Ranked(dayLog, q)]
      BY <1>1, <1>3, <2>7, <2>8
    <3>2. ByTime[p].ts <= ByTime[q].ts
      BY <2>3, <2>4, <3>1
    <3>3. ~(q < p)
      <4>1. ByTime[p].ts \in Nat /\ ByTime[q].ts \in Nat
        BY <1>1, <2>4, <2>7
      <4>2. q < p => ByTime[q].ts < ByTime[p].ts
        BY <1>2, <2>4, <2>7
      <4>3. QED BY <3>2, <4>1, <4>2
    <3>4. QED BY <2>4, <2>7, <3>3
  <2>10. ByTimeAt[m] <= t /\ t < ByTimeAt[q] /\ q \in (1 .. n) \ Opens
    BY <1>1, <2>1, <2>5, <2>7, <2>8, <2>9
  <2>11. QED BY <2>1, <2>5, <2>10 DEF Spans, q
<1>9. ASSUME NEW t \in Spans(ByTimeAt, Opens, n) PROVE t \in X
  <2>1. PICK m \in Opens : m + 1 \in (1 .. n) \ Opens /\ ByTimeAt[m] <= t /\ t < ByTimeAt[m + 1] /\ t \in Nat
    BY <1>9 DEF Spans
  <2> DEFINE q == m + 1
  <2>2. m \in 1 .. n /\ q \in 1 .. n /\ m < q /\ q \notin Opens
    BY <1>1, <2>1
  <2>3. ByTime[m].ts <= t /\ t < ByTime[q].ts /\ t \in 0 .. MaxTime
    <3>1. ByTimeAt[m] = ByTime[m].ts /\ ByTimeAt[q] = ByTime[q].ts /\ ByTime[q].ts \in 1 .. MaxTime
      BY <1>1, <2>2
    <3>2. ByTime[m].ts <= t /\ t < ByTime[q].ts
      BY <2>1, <3>1
    <3> HIDE DEF q
    <3>3. QED BY <2>1, <3>1, <3>2, DayLogsAssumption
  <2>4. \A k \in 1 .. n : (ByTime[k].ts <= t => k <= m) /\ (ByTime[k].ts > t => q <= k)
    <3> SUFFICES ASSUME NEW k \in 1 .. n
                 PROVE  (ByTime[k].ts <= t => k <= m) /\ (ByTime[k].ts > t => q <= k)
      OBVIOUS
    <3>1. q < k => ByTime[q].ts < ByTime[k].ts
      BY <1>2, <2>2
    <3>2. k < m => ByTime[k].ts < ByTime[m].ts
      BY <1>2, <2>2
    <3>3. k \in Int /\ ByTime[k].ts \in Nat /\ ByTime[q].ts \in Nat /\ ByTime[m].ts \in Nat /\ t \in Nat
      <4> HIDE DEF q
      <4> QED BY <1>1, <2>1, <2>2
    <3>4. k < m \/ k = m \/ k = q \/ q < k
      BY <2>2
    <3> HIDE DEF q
    <3>5. QED BY <2>2, <2>3, <3>1, <3>2, <3>3, <3>4
  <2>5. StateOf(SessionsTo(t)) \in {"STARTED", "RESUMED"}
    <3>1. PICK l : InForce(l, t) /\ StateOf(SessionsTo(t)) = StateForType[ByTime[l].type]
      <4>1. ~(ByTime[m].ts > t)
        <5>1. ByTime[m].ts \in Nat
          BY <1>1, <2>2
        <5>2. QED BY <2>1, <2>3, <5>1
      <4>2. QED BY <2>1, <2>2, <4>1, StateToIs DEF n
    <3>2. l \in 1 .. n /\ l <= m /\ m <= l
      BY <2>2, <2>3, <2>4, <3>1 DEF InForce, n
    <3>3. l = m
      BY <2>2, <3>2
    <3>4. QED BY <1>4, <1>5, <2>2, <3>1, <3>3
  <2> DEFINE i == Ranked(dayLog, q)
  <2>6. i \in 1 .. n /\ ByTime[q] = dayLog[i] /\ dayLog[i].ts > t /\ dayLog[i].type \in Closing
    <3> HIDE DEF q
    <3>1. i \in 1 .. n /\ ByTime[q] = dayLog[i]
      BY <1>3, <2>2
    <3>2. dayLog[i].ts \in Nat /\ dayLog[i].ts > t
      BY <1>1, <2>1, <2>3, <3>1
    <3>3. QED BY <1>4, <2>2, <3>1, <3>2
  <2> HIDE DEF i
  <2>7. \A j \in After(t) : dayLog[i].ts <= dayLog[j].ts
    <3> SUFFICES ASSUME NEW j \in After(t) PROVE dayLog[i].ts <= dayLog[j].ts
      OBVIOUS
    <3> DEFINE k == Rank(dayLog, j)
    <3>1. k \in 1 .. n /\ ByTime[k] = dayLog[j] /\ ByTime[k].ts > t
      BY <1>1, <1>3
    <3> HIDE DEF k, q
    <3>2. q <= k
      BY <2>4, <3>1
    <3>3. q = k \/ ByTime[q].ts < ByTime[k].ts
      <4>1. q = k \/ q < k
        BY <2>2, <3>1, <3>2
      <4>2. QED BY <1>2, <2>2, <3>1, <4>1
    <3>4. ByTime[q].ts \in Nat /\ ByTime[k].ts \in Nat
      BY <1>1, <2>2, <3>1
    <3>5. QED BY <2>6, <3>1, <3>3, <3>4
  <2>8. i \in After(t)
    BY <1>1, <2>6
  <2> HIDE DEF After
  <2>9. Worked(t)
    BY <1>7, <2>5, <2>6, <2>7, <2>8
  <2>10. QED BY <2>3, <2>9
<1>10. X = Spans(ByTimeAt, Opens, n)
  BY <1>8, <1>9
<1>11. QED BY <1>10 DEF WorkedTo, n

\* The labels of the track, as a fold over the positions of the sorted log.
TransitionAt(acc, k, c) == Transition(acc, c.log[k], c.t)
Labels == INSTANCE FoldFacts WITH Op <- TransitionAt, Pick <- Max
Label(b, t) == FoldLeft(LAMBDA acc, s : Transition(acc, s, t), "END", b)

\* The label of a point of the track is a scan of the log, each session of which may
\* change it only at or before the point's time.
LEMMA TrackIsScanned ==
  ASSUME NEW b, NEW n \in Nat, DOMAIN b = 1 .. n, NEW t
  PROVE  Labels!ScansTo(Label(b, t), "END", [log |-> b, t |-> t], n)
<1> DEFINE c == [log |-> b, t |-> t]
<1>1. c.log = b /\ c.t = t
  OBVIOUS
<1> HIDE DEF c
<1>2. Label(b, t) = (CHOOSE g : Labels!Folds(g, "END", c, 1 .. n))[1 .. n]
  BY <1>1 DEF Label, FoldLeft, MapThenFoldSet, Labels!Folds, TransitionAt
<1>3. Labels!Picks(1 .. n)
  BY LastIsPicked DEF Labels!Picks, Scan!Picks
<1>4. \A k \in 1 .. n : Max(1 .. k) = k
  BY LastIsPicked
<1>5. QED BY <1>2, <1>3, <1>4, Labels!ChosenScans DEF c

\* A point of the track is drawn with the state of the day when it was recorded.
LEMMA TrackIs ==
  ASSUME LogOK, NEW t \in Nat
  PROVE  StateAt(t) = IF StateOf(SessionsTo(t)) = "ENDED" THEN "NULL" ELSE StateOf(SessionsTo(t))
<1> DEFINE n == Len(dayLog)
           c == [log |-> ByTime, t |-> t]
           type == Label(ByTime, t)
           Up(k) == {l \in 1 .. k : ByTime[l].ts <= t}
<1>1. /\ n \in Nat /\ DOMAIN ByTime = 1 .. n
      /\ \A k \in 1 .. n : ByTime[k].type \in SessionTypes /\ ByTime[k].ts \in Nat
      /\ \A k, l \in 1 .. n : k < l => ByTime[k].ts < ByTime[l].ts
  BY ByTimeIs
<1>2. StateAt(t) = IF type = "END" THEN "NULL" ELSE StateForType[type]
  BY DEF StateAt, ByTime, Label
<1>3. PICK acc : Labels!Scans(acc, "END", c, n) /\ acc[n] = type
  <2>1. Labels!ScansTo(type, "END", c, n)
    BY <1>1, TrackIsScanned
  <2> HIDE DEF type, c, n
  <2>2. QED BY <2>1 DEF Labels!ScansTo
<1>4. acc[0] = "END" /\ \A k \in 1 .. n : acc[k] = IF ByTime[k].ts <= t THEN ByTime[k].type ELSE acc[k - 1]
  BY <1>3 DEF Labels!Scans, TransitionAt, Transition
<1> HIDE DEF n, type
<1> DEFINE P == {k \in 0 .. n :
                   \/ Up(k) = {} /\ acc[k] = "END"
                   \/ \E m \in Up(k) : (\A l \in Up(k) : l <= m) /\ acc[k] = ByTime[m].type}
<1>5. 0 \in P
  BY <1>1, <1>4
<1>6. ASSUME NEW k \in 1 .. n, k - 1 \in P PROVE k \in P
  <2>1. CASE ByTime[k].ts <= t
    <3>1. k \in Up(k) /\ (\A l \in Up(k) : l <= k) /\ acc[k] = ByTime[k].type
      BY <1>4, <2>1
    <3>2. QED BY <3>1
  <2>2. CASE ~(ByTime[k].ts <= t)
    <3>1. Up(k) = Up(k - 1)
      BY <2>2
    <3>2. acc[k] = acc[k - 1]
      BY <1>4, <2>2
    <3> HIDE DEF Up
    <3>3. QED BY <1>6, <3>1, <3>2
  <2>3. QED BY <2>1, <2>2
<1>7. 0 .. n \subseteq P
  <2> HIDE DEF P
  <2> QED BY <1>1, <1>5, <1>6, Scan!SetInduction
<1>8. \/ Up(n) = {} /\ type = "END"
      \/ \E m \in Up(n) : (\A l \in Up(n) : l <= m) /\ type = ByTime[m].type
  BY <1>1, <1>3, <1>7
<1>9. CASE Up(n) = {}
  <2>1. StateOf(SessionsTo(t)) = "NULL"
    BY <1>9, StateToIs DEF InForce, n
  <2>2. type = "END"
    BY <1>8, <1>9
  <2>3. QED BY <1>2, <2>1, <2>2
<1>10. CASE Up(n) # {}
  <2>1. PICK m \in Up(n) : (\A l \in Up(n) : l <= m) /\ type = ByTime[m].type
    BY <1>8, <1>10
  <2>2. m \in 1 .. n /\ ByTime[m].ts <= t /\ ByTime[m].ts \in Nat
    BY <1>1, <2>1
  <2>3. PICK l : InForce(l, t) /\ StateOf(SessionsTo(t)) = StateForType[ByTime[l].type]
    <3>1. ~(ByTime[m].ts > t)
      BY <2>2
    <3>2. QED BY <2>2, <3>1, StateToIs DEF n
  <2>4. l = m
    <3>1. l \in Up(n) /\ m <= l /\ l \in Int /\ m \in Int
      BY <2>2, <2>3 DEF InForce, n
    <3>2. l <= m
      BY <2>1, <3>1
    <3>3. QED BY <3>1, <3>2
  <2>5. type \in SessionTypes /\ StateOf(SessionsTo(t)) = StateForType[type]
    BY <1>1, <2>1, <2>2, <2>3, <2>4
  <2>6. \A x \in SessionTypes : (x = "END" <=> StateForType[x] = "ENDED")
    BY DEF SessionTypes, StateForType
  <2>7. QED BY <1>2, <2>5, <2>6
<1>11. QED BY <1>9, <1>10

\* LogReadersAgree: calculate_duration and the track read the same day off a
\* log, in whatever order and however irregularly its sessions were inserted.
THEOREM ReadersSeeOneDay == DayLogsSpec => []LogReadersAgree
<1>1. DayLogsInit => LogOK
  BY DEF DayLogsInit, LogOK
<1>2. LogOK /\ [DayLogsNext]_dayLog => LogOK'
  <2> SUFFICES ASSUME LogOK, [DayLogsNext]_dayLog PROVE LogOK'
    OBVIOUS
  <2>1. CASE UNCHANGED dayLog
    BY <2>1 DEF LogOK
  <2>2. ASSUME NEW type \in SessionTypes, NEW ts \in 1 .. MaxTime, AppendSession(type, ts) PROVE LogOK'
    <3> DEFINE n == Len(dayLog)
               m == n + 1
               e == [type |-> type, ts |-> ts]
    <3>1. n \in Nat /\ DOMAIN dayLog = 1 .. n
      BY DEF LogOK
    <3>2. e \in LogEntries /\ dayLog' = Append(dayLog, e) /\ \A i \in 1 .. n : dayLog[i].ts # ts
      BY <2>2, <3>1 DEF AppendSession, LogEntries
    <3>3. e.ts = ts /\ \A i, j \in 1 .. n : i # j => dayLog[i].ts # dayLog[j].ts
      BY <3>1 DEF LogOK
    <3> HIDE DEF e
    <3>4. /\ dayLog' \in Seq(LogEntries) /\ Len(dayLog') = m /\ dayLog'[m] = e
          /\ \A i \in 1 .. n : dayLog'[i] = dayLog[i]
      <4>1. dayLog \in Seq(LogEntries)
        BY DEF LogOK
      <4>2. QED BY <3>2, <4>1, AppendProperties
    <3> HIDE DEF n
    <3>5. DOMAIN dayLog' = 1 .. m /\ m \in 1 .. m /\ \A i \in 1 .. m : i \in 1 .. n \/ i = m
      BY <3>1, <3>4
    <3>6. \A i, j \in 1 .. n : i # j => dayLog'[i].ts # dayLog'[j].ts
      BY <3>3, <3>4
    <3>7. \A i \in 1 .. n : dayLog'[i].ts # dayLog'[m].ts
      BY <3>2, <3>3, <3>4
    <3> HIDE DEF m
    <3>8. QED BY <3>4, <3>5, <3>6, <3>7 DEF LogOK
  <2>3. QED BY <2>1, <2>2 DEF DayLogsNext
<1>3. LogOK => LogReadersAgree
  <2> SUFFICES ASSUME LogOK PROVE LogReadersAgree
    OBVIOUS
  <2>1. CalculateDuration(dayLog) = Cardinality({t \in 0 .. MaxTime : Worked(t)})
    BY DurationIs, WorkedIs
  <2>2. ASSUME NEW t \in 0 .. MaxTime
        PROVE  StateAt(t) = IF StateOf(SessionsTo(t)) = "ENDED" THEN "NULL" ELSE StateOf(SessionsTo(t))
    <3>1. t \in Nat
      BY DayLogsAssumption
    <3>2. QED BY <3>1, TrackIs
  <2>3. QED BY <2>1, <2>2 DEF LogReadersAgree
<1>4. QED BY <1>1, <1>2, <1>3, PTL DEF DayLogsSpec
-----------------------------------------------------------------------------
(***************************************************************************)
(* The screen.  One tap is under way at most; while the app missed nothing *)
(* every coroutine that was told a state was told the present one.         *)
(***************************************************************************)

\* A tap that is under way.
Tapping(c) == pos[c] \in {"gps", "sent", "accepted", "refused"}

OneTap ==
  \A c \in Calls : Tapping(c) => submitting /\ \A d \in Calls \ {c} : ~Tapping(d)

Undisturbed == spent["others"] = 0 /\ spent["missed"] = 0

\* What a coroutine holds of the day: what it was told, the state a tap would go
\* back to, and the one a tap has brought.
HoldsDay ==
  \A c \in Calls :
    /\ Informed(c) \/ pos[c] \in {"gps", "sent", "refused"} => saw[c] = day
    /\ pos[c] = "accepted" => StateForType[wish[c]] = day

ScreenInv == TapScreenTypeOK /\ OneTap /\ (Undisturbed => HoldsDay) /\ TrackerFollows

\* The labels a coroutine can be at.
ScreenLabels ==
  {"idle", "today", "show", "gps", "sent", "accepted", "refused", "save", "look", "switch"}

\* The state a tap leads to is a state of the day.
LEMMA TapsLeadToStates == \A t \in SessionTypes : StateForType[t] \in DayStates
  BY DEF SessionTypes, StateForType, DayStates

\* Initially the app is idle and the day is untouched.
LEMMA ScreenInit == TapScreenInit => ScreenInv
<1> SUFFICES ASSUME TapScreenInit PROVE ScreenInv
  OBVIOUS
<1>1. TapScreenTypeOK
  BY DEF TapScreenInit, TapScreenTypeOK, DayStates, SessionTypes
<1>2. \A c \in Calls : pos[c] = "idle"
  BY DEF TapScreenInit
<1>3. OneTap /\ HoldsDay
  BY <1>2 DEF OneTap, Tapping, HoldsDay, Informed
<1>4. TrackerFollows
  <2>1. painted = day /\ local = day /\ tracking = FALSE /\ day = "NULL"
    BY DEF TapScreenInit
  <2>2. (day \in OnDuty) = FALSE
    BY <2>1 DEF OnDuty
  <2> QED BY <2>1, <2>2 DEF TrackerFollows
<1> QED BY <1>1, <1>3, <1>4 DEF ScreenInv

\* Types are kept by every step.
LEMMA ScreenTypes == ASSUME TapScreenTypeOK, [TapScreenNext]_screenVars PROVE TapScreenTypeOK'
<1> USE TapsLeadToStates
<1>0. "NULL" \in DayStates /\ "START" \in SessionTypes /\ Elsewhere \subseteq DayStates
  BY TapScreenAssumption DEF DayStates, SessionTypes
<1>f. ASSUME NEW misses \in BOOLEAN, FaultMisses(misses)
      PROVE  spent' \in [Tallies -> Nat]
  BY <1>f DEF FaultMisses, Tallies, TapScreenTypeOK
<1>w. ASSUME NEW what \in {"taps", "others", "faults"}, NEW max, Within(what, max)
      PROVE  spent' \in [Tallies -> Nat]
  BY <1>w DEF Within, Tallies, TapScreenTypeOK
<1>1. ASSUME NEW c \in Calls, Reload(c) \/ ReadToday(c) \/ ShowToday(c) \/ SendTap(c)
      PROVE  TapScreenTypeOK'
  BY <1>1 DEF Reload, ReadToday, ShowToday, SendTap, At, Keep, TapScreenTypeOK
<1>2. ASSUME NEW c \in Calls, ReloadFails(c) \/ SyncFails(c) \/ RollBack(c) \/ Escape(c)
      PROVE  TapScreenTypeOK'
  <2>1. spent' \in [Tallies -> Nat]
    BY <1>2, <1>f, <1>w DEF ReloadFails, SyncFails, RollBack, Escape, TapScreenTypeOK
  <2>2. painted' \in DayStates
    <3>1. painted' = painted \/ painted' = saw[c]
      BY <1>2 DEF ReloadFails, SyncFails, RollBack, Escape
    <3>2. painted \in DayStates /\ saw[c] \in DayStates
      BY DEF TapScreenTypeOK
    <3> QED BY <3>1, <3>2
  <2>4. submitting' = submitting \/ submitting' = FALSE
    BY <1>2 DEF ReloadFails, SyncFails, RollBack, Escape
  <2>3. Over(c) /\ UNCHANGED <<day, tracking, local>>
    BY <1>2 DEF ReloadFails, SyncFails, RollBack, Escape
  <2>5. submitting' \in BOOLEAN
    BY <2>4 DEF TapScreenTypeOK
  <2> QED BY <1>0, <2>1, <2>2, <2>3, <2>5 DEF Over, At, TapScreenTypeOK
<1>3. ASSUME NEW c \in Calls, NEW type \in SessionTypes, Press(c, type) PROVE TapScreenTypeOK'
  <2>1. spent' \in [Tallies -> Nat]
    BY <1>3, <1>w DEF Press
  <2> QED BY <1>3, <2>1 DEF Press, At, Keep, TapScreenTypeOK
<1>4. ASSUME NEW c \in Calls, Decided(c) PROVE TapScreenTypeOK'
  BY <1>4 DEF Decided, At, TapScreenTypeOK
<1>5. ASSUME NEW c \in Calls, ShowTapped(c) \/ SaveState(c) \/ IsTracking(c) \/ Switch(c)
      PROVE  TapScreenTypeOK'
  <2>1. CASE SaveState(c)
    BY <2>1 DEF SaveState, At, TapScreenTypeOK
  <2>2. CASE ShowTapped(c)
    <3>1. /\ painted' = StateForType[wish[c]] /\ submitting' = FALSE
          /\ saw' = [saw EXCEPT ![c] = StateForType[wish[c]]] /\ pos' = [pos EXCEPT ![c] = "save"]
          /\ UNCHANGED <<day, tracking, local, wish, spent>>
      BY <2>2 DEF ShowTapped, At, Keep
    <3>2. StateForType[wish[c]] \in DayStates
      BY DEF TapScreenTypeOK
    <3> QED BY <3>1, <3>2 DEF TapScreenTypeOK
  <2>3. CASE IsTracking(c)
    <3>1. Over(c) \/ (At(c, "switch") /\ UNCHANGED <<saw, wish>>)
      BY <2>3 DEF IsTracking
    <3>2. UNCHANGED <<day, painted, submitting, tracking, local, spent>>
      BY <2>3 DEF IsTracking
    <3>3. submitting' \in BOOLEAN /\ tracking' \in BOOLEAN
      BY <3>2 DEF TapScreenTypeOK
    <3> QED BY <1>0, <3>1, <3>2, <3>3 DEF Over, At, TapScreenTypeOK
  <2>4. CASE Switch(c)
    <3>1. tracking' \in BOOLEAN
      BY <2>4 DEF Switch
    <3> QED BY <1>0, <2>4, <3>1 DEF Switch, Over, At, TapScreenTypeOK
  <2> QED BY <1>5, <2>1, <2>2, <2>3, <2>4
<1>6. ASSUME NEW s \in Elsewhere, OtherChange(s) PROVE TapScreenTypeOK'
  <2>1. spent' \in [Tallies -> Nat]
    BY <1>6, <1>w DEF OtherChange
  <2> QED BY <1>0, <1>6, <2>1 DEF OtherChange, TapScreenTypeOK
<1>7. CASE KillApp
  <2>1. spent' \in [Tallies -> Nat]
    BY <1>7, <1>f DEF KillApp
  <2>2. day' \in DayStates
    BY <1>7 DEF KillApp, TapScreenTypeOK
  <2> QED BY <1>0, <1>7, <2>1, <2>2 DEF KillApp, TapScreenTypeOK
<1>8. CASE UNCHANGED screenVars
  BY <1>8 DEF screenVars, TapScreenTypeOK
<1> QED BY <1>1, <1>2, <1>3, <1>4, <1>5, <1>6, <1>7, <1>8 DEF TapScreenNext, GoOn, OnResume

\* A second tap is never begun: a tap that is under way keeps submitting set.
LEMMA ScreenOneTap ==
  ASSUME TapScreenTypeOK, OneTap, [TapScreenNext]_screenVars PROVE OneTap'
<1>0. pos \in [Calls -> ScreenLabels]
  BY DEF TapScreenTypeOK, ScreenLabels
<1>1. ASSUME NEW c \in Calls, submitting' = submitting, NEW label \in ScreenLabels,
             pos' = [pos EXCEPT ![c] = label],
             label \in {"gps", "sent", "accepted", "refused"} => Tapping(c)
      PROVE  OneTap'
  BY <1>0, <1>1 DEF OneTap, Tapping
<1>2. ASSUME NEW c \in Calls, Reload(c) \/ ReadToday(c) \/ ShowToday(c) \/ SendTap(c)
      PROVE  OneTap'
  BY <1>1, <1>2 DEF Reload, ReadToday, ShowToday, SendTap, At, ScreenLabels, Tapping
<1>3. ASSUME NEW c \in Calls, ReloadFails(c) \/ SyncFails(c) \/ Escape(c) PROVE OneTap'
  BY <1>1, <1>3 DEF ReloadFails, SyncFails, Escape, Over, At, ScreenLabels
<1>4. ASSUME NEW c \in Calls, Decided(c) PROVE OneTap'
  BY <1>1, <1>4 DEF Decided, At, ScreenLabels, Tapping
<1>5. ASSUME NEW c \in Calls, SaveState(c) \/ IsTracking(c) \/ Switch(c) PROVE OneTap'
  BY <1>1, <1>5 DEF SaveState, IsTracking, Switch, Over, At, ScreenLabels
<1>6. ASSUME NEW c \in Calls, NEW label \in {"idle", "save"}, Tapping(c),
             pos' = [pos EXCEPT ![c] = label]
      PROVE  OneTap'
  BY <1>0, <1>6 DEF OneTap, Tapping
<1>7. ASSUME NEW c \in Calls, ShowTapped(c) \/ RollBack(c) PROVE OneTap'
  BY <1>6, <1>7 DEF ShowTapped, RollBack, Over, At, Tapping
<1>8. ASSUME NEW c \in Calls, NEW type \in SessionTypes, Press(c, type) PROVE OneTap'
  BY <1>0, <1>8 DEF Press, At, OneTap, Tapping
<1>9. ASSUME NEW s \in Elsewhere, OtherChange(s) PROVE OneTap'
  BY <1>9 DEF OtherChange, OneTap, Tapping
<1>10. CASE KillApp
  BY <1>10 DEF KillApp, OneTap, Tapping
<1>11. CASE UNCHANGED screenVars
  BY <1>11 DEF screenVars, OneTap, Tapping
<1> QED
  BY <1>2, <1>3, <1>4, <1>5, <1>7, <1>8, <1>9, <1>10, <1>11 DEF TapScreenNext, GoOn, OnResume

\* What was missed stays missed.
LEMMA MissedStays ==
  ASSUME TapScreenTypeOK, [TapScreenNext]_screenVars, Undisturbed' PROVE Undisturbed
<1> USE DEF Tallies
<1>0. spent \in [Tallies -> Nat]
  BY DEF TapScreenTypeOK
<1>1. ASSUME NEW c \in Calls, GoOn(c) \/ OnResume(c) \/ Reload(c) \/ ReloadFails(c)
               \/ Escape(c) \/ SyncFails(c)
      PROVE  Undisturbed
  <2>1. CASE Decided(c)
    BY <1>0, <2>1 DEF Decided, Undisturbed
  <2>2. CASE RollBack(c) \/ Escape(c)
    BY <1>0, <2>2 DEF RollBack, Escape, FaultMisses, Undisturbed
  <2>3. CASE ReloadFails(c) \/ SyncFails(c)
    BY <1>0, <2>3 DEF ReloadFails, SyncFails, Within, FaultMisses, Undisturbed
  <2>4. CASE ~(Decided(c) \/ RollBack(c) \/ Escape(c) \/ ReloadFails(c) \/ SyncFails(c))
    <3>1. spent' = spent
      BY <1>1, <2>4 DEF GoOn, ReadToday, ShowToday, SendTap, ShowTapped, SaveState, IsTracking, Switch,
        OnResume, Reload
    <3> QED BY <3>1 DEF Undisturbed
  <2> QED BY <2>1, <2>2, <2>3, <2>4
<1>2. ASSUME NEW c \in Calls, NEW type \in SessionTypes, Press(c, type) PROVE Undisturbed
  BY <1>0, <1>2 DEF Press, Within, Undisturbed
<1>3. ASSUME NEW s \in Elsewhere, OtherChange(s) PROVE Undisturbed
  BY <1>0, <1>3 DEF OtherChange, Within, Undisturbed
<1>4. CASE KillApp
  BY <1>0, <1>4 DEF KillApp, FaultMisses, Undisturbed
<1>5. CASE UNCHANGED screenVars
  BY <1>5 DEF screenVars, Undisturbed
<1> QED BY <1>1, <1>2, <1>3, <1>4, <1>5 DEF TapScreenNext

\* While nothing is missed, every step keeps what the coroutines hold.
LEMMA ScreenHolds ==
  ASSUME ScreenInv, HoldsDay, [TapScreenNext]_screenVars, Undisturbed, Undisturbed'
  PROVE  HoldsDay'
<1>0. /\ pos \in [Calls -> ScreenLabels] /\ saw \in [Calls -> DayStates]
      /\ wish \in [Calls -> SessionTypes] /\ spent \in [Tallies -> Nat]
      /\ "others" \in Tallies /\ "missed" \in Tallies
  BY DEF ScreenInv, TapScreenTypeOK, ScreenLabels, Tallies
<1>1. ASSUME NEW c \in Calls, day' = day,
             \A d \in Calls \ {c} :
               pos'[d] = pos[d] /\ saw'[d] = saw[d] /\ wish'[d] = wish[d],
             Informed(c)' \/ pos'[c] \in {"gps", "sent", "refused"} => saw'[c] = day,
             pos'[c] = "accepted" => pos[c] = "accepted" /\ wish'[c] = wish[c]
      PROVE  HoldsDay'
  BY <1>1 DEF HoldsDay, Informed
<1>2. ASSUME NEW c \in Calls, Reload(c) \/ ReadToday(c) \/ ShowToday(c) \/ SendTap(c) \/ SaveState(c)
      PROVE  HoldsDay'
  <2>1. Informed(c)' \/ pos'[c] \in {"gps", "sent", "refused"} => saw'[c] = day
    BY <1>0, <1>2 DEF Reload, ReadToday, ShowToday, SendTap, SaveState, At, Keep, HoldsDay, Informed
  <2>2. day' = day /\ pos'[c] # "accepted"
    BY <1>0, <1>2 DEF Reload, ReadToday, ShowToday, SendTap, SaveState, At
  <2>3. \A d \in Calls \ {c} : pos'[d] = pos[d] /\ saw'[d] = saw[d] /\ wish'[d] = wish[d]
    BY <1>0, <1>2 DEF Reload, ReadToday, ShowToday, SendTap, SaveState, At, Keep
  <2> QED BY <1>1, <2>1, <2>2, <2>3
<1>3. ASSUME NEW c \in Calls, Over(c), day' = day PROVE HoldsDay'
  <2>1. pos'[c] = "idle" /\ \A d \in Calls \ {c} :
               pos'[d] = pos[d] /\ saw'[d] = saw[d] /\ wish'[d] = wish[d]
    BY <1>0, <1>3 DEF Over, At
  <2> QED BY <1>1, <1>3, <2>1 DEF Informed
<1>4. ASSUME NEW c \in Calls, ReloadFails(c) \/ SyncFails(c) \/ RollBack(c) \/ Escape(c) \/ Switch(c)
      PROVE  HoldsDay'
  BY <1>3, <1>4 DEF ReloadFails, SyncFails, RollBack, Escape, Switch
<1>5. ASSUME NEW c \in Calls, IsTracking(c) PROVE HoldsDay'
  <2>1. day' = day /\ (Over(c) \/ (pos[c] = "look" /\ At(c, "switch") /\ UNCHANGED <<saw, wish>>))
    BY <1>5 DEF IsTracking
  <2>2. CASE pos[c] = "look" /\ At(c, "switch") /\ UNCHANGED <<saw, wish>>
    BY <1>0, <1>1, <2>1, <2>2 DEF At, Informed, HoldsDay
  <2> QED BY <1>3, <2>1, <2>2
<1>6. ASSUME NEW c \in Calls, NEW type \in SessionTypes, Press(c, type) PROVE HoldsDay'
  <2>1. painted = day
    BY <1>6 DEF Press, ScreenInv, TrackerFollows, Undisturbed
  <2>2. day' = day /\ pos'[c] = "gps" /\ saw'[c] = day
    BY <1>0, <1>6, <2>1 DEF Press, At, Keep
  <2>3. \A d \in Calls \ {c} : pos'[d] = pos[d] /\ saw'[d] = saw[d] /\ wish'[d] = wish[d]
    BY <1>0, <1>6 DEF Press, At, Keep
  <2> QED BY <1>1, <2>2, <2>3
<1>7. ASSUME NEW c \in Calls, Decided(c) PROVE HoldsDay'
  <2>1. CASE Accepts(c)
    <3>1. /\ day' = StateForType[wish[c]] /\ pos[c] = "sent" /\ saw' = saw /\ wish' = wish
          /\ pos' = [pos EXCEPT ![c] = "accepted"]
          /\ spent' = [spent EXCEPT !["missed"] = IF \E d \in Calls : Informed(d) THEN 1 ELSE @]
      BY <1>7, <2>1 DEF Decided, At
    <3>2. \A d \in Calls : ~Informed(d)
      BY <1>0, <3>1 DEF Undisturbed
    <3>3. \A d \in Calls \ {c} : ~Tapping(d)
      BY <3>1 DEF ScreenInv, OneTap, Tapping
    <3> QED BY <1>0, <3>1, <3>2, <3>3 DEF HoldsDay, Informed, Tapping
  <2>2. CASE ~Accepts(c)
    BY <1>0, <1>1, <1>7, <2>2 DEF Decided, At, HoldsDay, Informed
  <2> QED BY <2>1, <2>2
<1>8. ASSUME NEW c \in Calls, ShowTapped(c) PROVE HoldsDay'
  <2>1. day' = day /\ pos'[c] = "save" /\ saw'[c] = day
    BY <1>0, <1>8 DEF ShowTapped, At, Keep, HoldsDay
  <2>2. \A d \in Calls \ {c} : pos'[d] = pos[d] /\ saw'[d] = saw[d] /\ wish'[d] = wish[d]
    BY <1>0, <1>8 DEF ShowTapped, At, Keep
  <2> QED BY <1>1, <2>1, <2>2
<1>9. ASSUME NEW s \in Elsewhere, OtherChange(s) PROVE FALSE
  BY <1>0, <1>9 DEF OtherChange, Within, Undisturbed
<1>10. ASSUME KillApp PROVE FALSE
  BY <1>0, <1>10 DEF KillApp, FaultMisses, Undisturbed
<1>11. CASE UNCHANGED screenVars
  BY <1>11 DEF screenVars, HoldsDay, Informed
<1> QED
  BY <1>2, <1>4, <1>5, <1>6, <1>7, <1>8, <1>9, <1>10, <1>11 DEF TapScreenNext, GoOn, OnResume

\* While nothing is missed, the shown state, the row and the tracker follow the day.
LEMMA ScreenFollows ==
  ASSUME ScreenInv, HoldsDay, HoldsDay', OneTap', [TapScreenNext]_screenVars, Undisturbed,
         Undisturbed'
  PROVE  TrackerFollows'
<1>0. /\ pos \in [Calls -> ScreenLabels] /\ saw \in [Calls -> DayStates]
      /\ wish \in [Calls -> SessionTypes] /\ spent \in [Tallies -> Nat]
      /\ "others" \in Tallies /\ "missed" \in Tallies
  BY DEF ScreenInv, TapScreenTypeOK, ScreenLabels, Tallies
<1> DEFINE Saving == {c \in Calls : pos[c] \in {"accepted", "save"}}
           Turning == {c \in Calls : pos[c] \in {"accepted", "save", "look", "switch"}}
           Shown == painted = day \/ submitting
           Saved == local = day \/ Saving # {}
           Turned == tracking = (day \in OnDuty) \/ Turning # {}
<1>1. Shown /\ Saved /\ Turned
  BY DEF ScreenInv, TrackerFollows, Undisturbed
<1>2. Shown' /\ Saved' /\ Turned' => TrackerFollows'
  BY DEF TrackerFollows
\* A coroutine that comes to no label of Turning, and leaves none.
<1>3. ASSUME NEW c \in Calls, NEW label \in ScreenLabels, pos' = [pos EXCEPT ![c] = label],
             UNCHANGED <<day, tracking, local>>, c \notin Turning
      PROVE  Saved' /\ Turned'
  <2>1. \A d \in Calls \ {c} : pos'[d] = pos[d]
    BY <1>0, <1>3
  <2>2. Saving \subseteq Saving' /\ Turning \subseteq Turning'
    BY <1>3, <2>1
  <2> QED BY <1>1, <1>3, <2>2
<1>4. ASSUME NEW c \in Calls, Reload(c) \/ ReadToday(c) \/ SendTap(c) \/ ReloadFails(c)
      PROVE  Shown' /\ Saved' /\ Turned'
  <2>1. Shown'
    BY <1>1, <1>4 DEF Reload, ReadToday, SendTap, ReloadFails
  <2>2. PICK label \in ScreenLabels : pos' = [pos EXCEPT ![c] = label]
    BY <1>4 DEF Reload, ReadToday, SendTap, ReloadFails, Over, At, ScreenLabels
  <2>3. c \notin Turning /\ UNCHANGED <<day, tracking, local>>
    BY <1>4 DEF Reload, ReadToday, SendTap, ReloadFails
  <2> QED BY <1>3, <2>1, <2>2, <2>3
<1>5. ASSUME NEW c \in Calls, ShowToday(c) PROVE Shown' /\ Saved' /\ Turned'
  <2>1. Shown'
    BY <1>5 DEF ShowToday, HoldsDay, Informed
  <2>2. pos' = [pos EXCEPT ![c] = "save"] /\ c \notin Turning /\ UNCHANGED <<day, tracking, local>>
    BY <1>5 DEF ShowToday, At
  <2> QED BY <1>3, <2>1, <2>2 DEF ScreenLabels
<1>6. ASSUME NEW c \in Calls, NEW type \in SessionTypes, Press(c, type)
      PROVE  Shown' /\ Saved' /\ Turned'
  <2>1. Shown'
    BY <1>6 DEF Press
  <2>2. pos' = [pos EXCEPT ![c] = "gps"] /\ c \notin Turning /\ UNCHANGED <<day, tracking, local>>
    BY <1>6 DEF Press, At
  <2> QED BY <1>3, <2>1, <2>2 DEF ScreenLabels
<1>7. ASSUME NEW c \in Calls, Decided(c) PROVE Shown' /\ Saved' /\ Turned'
  <2>1. Shown'
    <3>1. submitting /\ submitting' = submitting
      BY <1>7 DEF Decided, ScreenInv, OneTap, Tapping
    <3> QED BY <3>1
  <2>2. CASE Accepts(c)
    <3>1. pos'[c] = "accepted"
      BY <1>0, <1>7, <2>2 DEF Decided, At
    <3> QED BY <2>1, <3>1
  <2>3. CASE ~Accepts(c)
    <3>1. /\ pos' = [pos EXCEPT ![c] = "refused"] /\ c \notin Turning
          /\ UNCHANGED <<day, tracking, local>>
      BY <1>7, <2>3 DEF Decided, At
    <3> QED BY <1>3, <2>1, <3>1 DEF ScreenLabels
  <2> QED BY <2>2, <2>3
<1>8. ASSUME NEW c \in Calls, ShowTapped(c) PROVE Shown' /\ Saved' /\ Turned'
  <2>1. Shown'
    BY <1>8 DEF ShowTapped, HoldsDay
  <2>2. pos'[c] = "save"
    BY <1>0, <1>8 DEF ShowTapped, At
  <2> QED BY <2>1, <2>2
<1>9. ASSUME NEW c \in Calls, RollBack(c) PROVE Shown' /\ Saved' /\ Turned'
  <2>1. pos[c] \in {"refused", "gps", "sent"}
    BY <1>0, <1>9 DEF RollBack, FaultMisses, Undisturbed, Tallies
  <2>2. Shown'
    BY <1>9, <2>1 DEF RollBack, HoldsDay
  <2>3. pos' = [pos EXCEPT ![c] = "idle"] /\ c \notin Turning /\ UNCHANGED <<day, tracking, local>>
    BY <1>9, <2>1 DEF RollBack, Over, At
  <2> QED BY <1>3, <2>2, <2>3 DEF ScreenLabels
<1>10. ASSUME NEW c \in Calls, Escape(c) PROVE Shown' /\ Saved' /\ Turned'
  <2>1. pos[c] \in {"gps", "sent"}
    BY <1>0, <1>10 DEF Escape, FaultMisses, Undisturbed, Tallies
  <2>2. Shown'
    BY <1>1, <1>10 DEF Escape
  <2>3. pos' = [pos EXCEPT ![c] = "idle"] /\ c \notin Turning /\ UNCHANGED <<day, tracking, local>>
    BY <1>10, <2>1 DEF Escape, Over, At
  <2> QED BY <1>3, <2>2, <2>3 DEF ScreenLabels
<1>11. ASSUME NEW c \in Calls, SaveState(c) PROVE Shown' /\ Saved' /\ Turned'
  <2>1. Shown' /\ Saved'
    BY <1>1, <1>11 DEF SaveState, HoldsDay, Informed
  <2>2. pos'[c] = "look"
    BY <1>0, <1>11 DEF SaveState, At
  <2> QED BY <2>1, <2>2
<1>12. ASSUME NEW c \in Calls, pos[c] \in {"look", "switch"}, UNCHANGED <<day, painted, submitting, local>>,
              \A d \in Calls \ {c} : pos'[d] = pos[d]
       PROVE  Shown' /\ Saved'
  <2>1. Saving \subseteq Saving'
    BY <1>12
  <2> QED BY <1>1, <1>12, <2>1
<1>13. ASSUME NEW c \in Calls, IsTracking(c) PROVE Shown' /\ Saved' /\ Turned'
  <2>1. /\ pos[c] = "look" /\ UNCHANGED <<day, painted, submitting, tracking, local>>
        /\ \A d \in Calls \ {c} : pos'[d] = pos[d]
    BY <1>0, <1>13 DEF IsTracking, Over, At
  <2>2. saw[c] = day
    BY <2>1 DEF HoldsDay, Informed
  <2>3. CASE (saw[c] \in OnDuty) = tracking
    BY <1>12, <2>1, <2>2, <2>3
  <2>4. CASE ~((saw[c] \in OnDuty) = tracking)
    <3>1. pos'[c] = "switch"
      BY <1>0, <1>13, <2>4 DEF IsTracking, At
    <3> QED BY <1>12, <2>1, <3>1
  <2> QED BY <2>3, <2>4
<1>14. ASSUME NEW c \in Calls, Switch(c) PROVE Shown' /\ Saved' /\ Turned'
  <2>1. /\ pos[c] = "switch" /\ UNCHANGED <<day, painted, submitting, local>>
        /\ \A d \in Calls \ {c} : pos'[d] = pos[d]
    BY <1>0, <1>14 DEF Switch, Over, At
  <2>2. tracking' = (day' \in OnDuty)
    BY <1>14, <2>1 DEF Switch, HoldsDay, Informed
  <2> QED BY <1>12, <2>1, <2>2
<1>15. ASSUME NEW c \in Calls, SyncFails(c) PROVE FALSE
  BY <1>0, <1>15 DEF SyncFails, FaultMisses, Undisturbed, Tallies
<1>16. ASSUME NEW s \in Elsewhere, OtherChange(s) PROVE FALSE
  BY <1>0, <1>16 DEF OtherChange, Within, Undisturbed
<1>17. ASSUME KillApp PROVE FALSE
  BY <1>0, <1>17 DEF KillApp, FaultMisses, Undisturbed, Tallies
<1>18. ASSUME UNCHANGED screenVars PROVE Shown' /\ Saved' /\ Turned'
  BY <1>1, <1>18 DEF screenVars
<1> HIDE DEF Shown, Saved, Turned
<1>19. ASSUME NEW c \in Calls, GoOn(c) \/ OnResume(c) \/ Reload(c) \/ ReloadFails(c)
                \/ Escape(c) \/ SyncFails(c)
       PROVE  TrackerFollows'
  BY <1>2, <1>4, <1>5, <1>7, <1>8, <1>9, <1>11, <1>10, <1>13, <1>14, <1>15, <1>19 DEF GoOn, OnResume
<1>20. ASSUME NEW c \in Calls, NEW type \in SessionTypes, Press(c, type) PROVE TrackerFollows'
  BY <1>2, <1>6, <1>20
<1>21. CASE UNCHANGED screenVars
  BY <1>2, <1>18, <1>21
<1> QED BY <1>16, <1>17, <1>19, <1>20, <1>21 DEF TapScreenNext

\* ScreenInv holds in every state.
LEMMA ScreenInvariant == TapScreenSpec => []ScreenInv
<1>1. ScreenInv /\ [TapScreenNext]_screenVars => ScreenInv'
  <2> SUFFICES ASSUME ScreenInv, [TapScreenNext]_screenVars PROVE ScreenInv'
    OBVIOUS
  <2>1. TapScreenTypeOK' /\ OneTap'
    BY ScreenTypes, ScreenOneTap DEF ScreenInv
  <2>2. ASSUME Undisturbed' PROVE HoldsDay' /\ TrackerFollows'
    <3>1. Undisturbed /\ HoldsDay
      BY <2>2, MissedStays DEF ScreenInv
    <3> QED BY <2>1, <2>2, <3>1, ScreenHolds, ScreenFollows
  <2>3. ~Undisturbed' => TrackerFollows'
    BY DEF Undisturbed, TrackerFollows
  <2> QED BY <2>1, <2>2, <2>3 DEF ScreenInv
<1> QED BY <1>1, ScreenInit, PTL DEF TapScreenSpec

\* The screen, the row the tracker reads and the tracker follow the day, for any
\* number of coroutines, taps, refusals, lost requests and failed reloads, until a
\* change elsewhere or a missed answer (attendance_provider.dart:146-203).
THEOREM TrackerFollowsTheDay == TapScreenSpec => []TrackerFollows
<1>1. ScreenInv => TrackerFollows
  BY DEF ScreenInv
<1> QED BY <1>1, ScreenInvariant, PTL
=============================================================================
