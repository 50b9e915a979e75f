---------------------------- MODULE FixDelivery ----------------------------
(***************************************************************************)
(* What a device and the server together promise of every fix, whatever    *)
(* uploads overlap, answers are lost and handlers are cut short            *)
(* (location_service.py:6-9, sync_engine.dart:32-35): nobody but a handler *)
(* that took a fix stores it, and it stores it once; a fix is not taken    *)
(* twice while the server remembers it; and the device lets go of a fix    *)
(* only when it is stored or taken, as long as no handler is cut short.    *)
(***************************************************************************)
EXTENDS Naturals

CONSTANTS
  Fixes,
  Early      \* fixes so far ahead of the server's clock that it may refuse them

VARIABLES
  recorded,  \* the fixes the device has recorded
  marked,    \* those it holds for delivered
  taken,     \* those the server remembers it has taken
  hand,      \* those a handler has taken and not stored yet
  copies,    \* copies[f]: how often f is stored
  cut        \* whether a handler was cut short

vars == <<recorded, marked, taken, hand, copies, cut>>

Init ==
  /\ recorded = {} /\ marked = {} /\ taken = {} /\ hand = {}
  /\ copies = [f \in Fixes |-> 0] /\ cut = FALSE

Record(f) ==
  /\ f \notin recorded /\ recorded' = recorded \cup {f}
  /\ UNCHANGED <<marked, taken, hand, copies, cut>>

Take(f) ==
  /\ f \in recorded \ taken
  /\ taken' = taken \cup {f} /\ hand' = hand \cup {f}
  /\ UNCHANGED <<recorded, marked, copies, cut>>

Store(S) ==
  /\ copies' = [f \in Fixes |-> IF f \in S THEN copies[f] + 1 ELSE copies[f]]
  /\ hand' = hand \ S
  /\ UNCHANGED <<recorded, marked, taken, cut>>

\* What a handler that is cut short had in hand stays taken and is not stored.
CutShort(S) ==
  /\ hand' = hand \ S /\ cut' = TRUE
  /\ UNCHANGED <<recorded, marked, taken, copies>>

Forget(f) ==
  /\ f \in taken \ hand /\ taken' = taken \ {f}
  /\ UNCHANGED <<recorded, marked, hand, copies, cut>>

IsSafe(f) == f \in hand \/ copies[f] > 0

Mark(S) ==
  /\ S \subseteq recorded
  /\ cut \/ \A f \in S \ Early : IsSafe(f)
  /\ marked' = marked \cup S
  /\ UNCHANGED <<recorded, taken, hand, copies, cut>>

Unmark(f) ==
  /\ marked' = marked \ {f}
  /\ UNCHANGED <<recorded, taken, hand, copies, cut>>

Next ==
  \/ \E f \in Fixes : Record(f) \/ Take(f) \/ Forget(f) \/ Unmark(f)
  \/ \E S \in SUBSET hand : Store(S) \/ CutShort(S)
  \/ \E S \in SUBSET Fixes : Mark(S)

Spec == Init /\ [][Next]_vars
=============================================================================
