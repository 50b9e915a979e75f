------------------------------- MODULE Trail -------------------------------
(***************************************************************************)
(* The simplification of a long track for the route replay: route and      *)
(* _douglas_peucker of location_service.py, one iteration of its loop per  *)
(* step.  A track is what the algorithm asks of it, the distance of each   *)
(* point between two others from the segment that joins them.  The stack   *)
(* is a set: the segments on it are handled in any order.                  *)
(***************************************************************************)
EXTENDS Integers

CONSTANTS
  Points,     \* the length of the track
  MaxDist,      \* the distances that occur are 0 .. MaxDist
  Tolerance   \* ROUTE_SIMPLIFY_TOLERANCE

ASSUME TrailAssumption ==
  /\ Points \in Nat /\ Points >= 1 /\ MaxDist \in Nat /\ Tolerance \in Nat

Track == 1 .. Points
Segments == {s \in Track \X Track : s[1] < s[2]}
Between(s) == {i \in Track : s[1] < i /\ i < s[2]}
Inner == {p \in Segments \X Track : p[2] \in Between(p[1])}

VARIABLES
  dist,   \* dist[<<s, i>>] of point i from segment s
  mock,   \* the points with is_mock_gps
  stack,  \* the segments on the stack
  keep    \* keep_mask

trailVars == <<dist, mock, stack, keep>>

TrailInit ==
  /\ dist \in [Inner -> 0 .. MaxDist] /\ mock \in SUBSET Track
  /\ keep = {1, Points} /\ stack = IF Points = 1 THEN {} ELSE {<<1, Points>>}

\* The first point at the greatest distance.
IsFarthest(s, i) ==
  /\ i \in Between(s)
  /\ \A j \in Between(s) : dist[<<s, j>>] <= dist[<<s, i>>] /\ (dist[<<s, j>>] = dist[<<s, i>>] => i <= j)

BugFar(s, i) == dist[<<s, i>>] > Tolerance + 1
Far(s, i) == dist[<<s, i>>] > Tolerance

Popped(s) == stack \ {s}

\* Nothing between its ends is farther than the tolerance.
DropBetween(s) ==
  /\ s \in stack /\ \A i \in Between(s) : IsFarthest(s, i) => ~Far(s, i)
  /\ stack' = Popped(s) /\ UNCHANGED <<dist, mock, keep>>

BugHalves(s, i) == {<<s[1], i>>, <<i, s[2] + 1>>}
Halves(s, i) == {<<s[1], i>>, <<i, s[2]>>}
Kept(i) == keep \cup {i}
Split(s, i) ==
  /\ s \in stack /\ IsFarthest(s, i) /\ Far(s, i)
  /\ stack' = Popped(s) \cup Halves(s, i) /\ keep' = Kept(i) /\ UNCHANGED <<dist, mock>>

TrailNext == \E s \in Segments : DropBetween(s) \/ \E i \in Track : Split(s, i)
TrailSpec == TrailInit /\ [][TrailNext]_trailVars

\* The points of the replay: the mask's, and every warning of mock GPS.
Drawn == keep \cup mock
-----------------------------------------------------------------------------
TrailTypeOK ==
  /\ dist \in [Inner -> 0 .. MaxDist] /\ mock \subseteq Track
  /\ stack \subseteq Segments /\ keep \subseteq Track

Adjacent(s) == s[1] \in keep /\ s[2] \in keep /\ Between(s) \cap keep = {}

\* What the loop has left to do is between neighbours.
StackIsAdjacent == \A s \in stack : Adjacent(s)

\* A point left out of the replay lies within the tolerance of the segment that
\* joins its neighbours in the mask, and the replay has both ends of the track.
\* That segment is the line that is drawn past the point unless a mock-GPS point
\* lies between the two: the drawn line then turns aside to it, and nothing is
\* promised about the points it leaves there (location_service.py:346-350).
DroppedAreNear ==
  /\ {1, Points} \subseteq Drawn
  /\ stack = {} => \A s \in Segments : Adjacent(s) =>
       \A i \in Between(s) \ Drawn : dist[<<s, i>>] <= Tolerance
=============================================================================
