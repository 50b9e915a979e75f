------------------------------ MODULE MCReplay ------------------------------
(***************************************************************************)
(* OfflineReplay for TLC: a phone that went offline after a START made     *)
(* online, or before any tap of the day.                                   *)
(***************************************************************************)
EXTENDS OfflineReplay

MCRecords == << [type |-> "START", ts |-> 2, named |-> FALSE],
                [type |-> "BREAK", ts |-> 3, named |-> TRUE],
                [type |-> "BREAK", ts |-> 4, named |-> FALSE],
                [type |-> "RESUME", ts |-> 5, named |-> FALSE] >>
=============================================================================
