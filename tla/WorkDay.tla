------------------------------ MODULE WorkDay ------------------------------
(***************************************************************************)
(* What the attendance service promises of every day, whatever happens to  *)
(* caches and requests: the day moves only along                           *)
(*     NULL -> START -> (BREAK <-> RESUME)* -> END                         *)
(* (attendance_service.py, STATE MACHINE and TRANSITION RULES).            *)
(***************************************************************************)
EXTENDS WorkLog

CONSTANT Days

VARIABLE state

Init == state = [d \in Days |-> "NULL"]

Move(d, type) ==
  /\ state[d] \in AllowedFrom[type]
  /\ state' = [state EXCEPT ![d] = StateForType[type]]

Next == \E d \in Days, type \in SessionTypes : Move(d, type)

Spec == Init /\ [][Next]_state
=============================================================================
