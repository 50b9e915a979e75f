------------------------------- MODULE Pages -------------------------------
(***************************************************************************)
(* A client walks a list page by page while the list changes: the keyset   *)
(* pages of schemas/common.py, used by GET /employees and /attendance/all  *)
(* (id ascending), /attendance/history and /notifications (descending).    *)
(* An id is drawn at the INSERT and seen by others at the commit, so rows  *)
(* appear in any order; rows leave by a delete or by leaving the filter.   *)
(* Cursors travel as opaque tokens and come back as they were sent.        *)
(***************************************************************************)
EXTENDS Integers, FiniteSets

CONSTANTS
  Limit,    \* rows of a page
  MaxRows   \* bound on the rows ever inserted

ASSUME PagesAssumption == Limit \in Nat \ {0} /\ MaxRows \in Nat

VARIABLES
  drawn,      \* ids drawn so far are 1 .. drawn
  listed,     \* rows committed that match the filter of the list
  newest,     \* the list runs from the newest row to the oldest
  walk,       \* "off", "on" or "done"
  cursor,     \* the id of the last row of the last page, 0 for none
  shown,      \* rows delivered by this walk
  twice,      \* history: rows delivered again
  stayed      \* history: rows listed ever since the walk began

pageVars == <<drawn, listed, newest, walk, cursor, shown, twice, stayed>>

Ids == 1 .. MaxRows

PagesInit ==
  /\ drawn = 0 /\ listed = {} /\ newest \in BOOLEAN /\ walk = "off" /\ cursor = 0
  /\ shown = {} /\ twice = {} /\ stayed = {}

\* i comes before j in the order of the list.
Precedes(i, j) == IF newest THEN i > j ELSE i < j
-----------------------------------------------------------------------------
Draw == /\ drawn < MaxRows /\ drawn' = drawn + 1
        /\ UNCHANGED <<listed, newest, walk, cursor, shown, twice, stayed>>

Enter(i) == /\ i \in 1 .. drawn /\ i \notin listed /\ listed' = listed \cup {i}
            /\ UNCHANGED <<drawn, newest, walk, cursor, shown, twice, stayed>>

Leave(i) == /\ i \in listed /\ listed' = listed \ {i} /\ stayed' = stayed \ {i}
            /\ UNCHANGED <<drawn, newest, walk, cursor, shown, twice>>

\* Opening the list, or pulling to refresh.
StartWalk == /\ walk # "on" /\ walk' = "on" /\ cursor' = 0 /\ shown' = {} /\ twice' = {}
             /\ stayed' = listed
             /\ UNCHANGED <<drawn, listed, newest>>

\* WHERE id > :cursor, or id < :cursor; without a cursor every row.
Rest == {i \in listed : cursor = 0 \/ Precedes(cursor, i)}

\* ORDER BY id LIMIT limit + 1, of which the sentinel is sliced off.
IsPage(P) == /\ P \subseteq Rest /\ \A i \in P, j \in Rest \ P : Precedes(i, j)
             /\ Cardinality(P) <= Limit
             /\ P # Rest => Cardinality(P) = Limit

\* The cursor of a page is its last row; the bug takes the sentinel's.
BugMayFollow(P, last) ==
  last \in Rest \ P /\ \A j \in Rest \ P : j = last \/ Precedes(last, j)
MayFollow(P, last) == last \in P /\ \A j \in P : j = last \/ Precedes(j, last)

\* has_more says whether there is a next page, and the client stops without.
FetchPage ==
  /\ walk = "on"
  /\ \E P \in SUBSET Rest :
       /\ IsPage(P)
       /\ shown' = shown \cup P /\ twice' = twice \cup (shown \cap P)
       /\ IF P = Rest THEN walk' = "done" /\ UNCHANGED cursor
          ELSE walk' = "on" /\ \E last \in Ids : MayFollow(P, last) /\ cursor' = last
  /\ UNCHANGED <<drawn, listed, newest, stayed>>

PagesNext == \/ Draw \/ StartWalk \/ FetchPage
             \/ \E i \in Ids : Enter(i) \/ Leave(i)

PagesSpec == PagesInit /\ [][PagesNext]_pageVars
-----------------------------------------------------------------------------
PagesTypeOK ==
  /\ drawn \in 0 .. MaxRows /\ listed \subseteq 1 .. drawn /\ newest \in BOOLEAN
  /\ walk \in {"off", "on", "done"} /\ cursor \in 0 .. MaxRows
  /\ shown \subseteq Ids /\ twice \subseteq shown /\ stayed \subseteq listed

\* A walk that has come to its end has shown every row that was in the list
\* from its beginning on, whatever came and went meanwhile (common.py:3-13:
\* "a stable total order, which keyset pagination requires"), and it never
\* shows a row twice, not even one that left the list and came back.
WalkIsExact == twice = {} /\ (walk = "done" => stayed \subseteq shown)
=============================================================================
