------------------------------ MODULE WorkLog ------------------------------
(***************************************************************************)
(* The vocabulary of one attendance day: the sessions appended to it, the  *)
(* state the last of them puts the day in, the taps each state allows, and *)
(* the worked time a log adds up to (app/services/attendance_service.py).  *)
(*                                                                         *)
(* A session is [type, ts]; ts is an instant, a positive integer.  No two  *)
(* sessions of a log have the same instant: the server's clock has the     *)
(* resolution of a microsecond.                                            *)
(***************************************************************************)
EXTENDS Integers, Sequences, SequencesExt

SessionTypes == {"START", "BREAK", "RESUME", "END"}

Opening == {"START", "RESUME"}
Closing == {"BREAK", "END"}

DayStates == {"NULL", "STARTED", "ON_BREAK", "RESUMED", "ENDED"}

StateForType ==
  [START |-> "STARTED", RESUME |-> "RESUMED",
   BREAK |-> "ON_BREAK", END |-> "ENDED"]

AllowedFrom ==
  [START |-> {"NULL"}, BREAK |-> {"STARTED", "RESUMED"},
   RESUME |-> {"ON_BREAK"}, END |-> {"STARTED", "RESUMED"}]

\* The position in log of its session with the greatest instant.
Latest(log) ==
  CHOOSE i \in DOMAIN log : \A j \in DOMAIN log : log[j].ts <= log[i].ts

\* Where the day stands: the state of the latest session, NULL without one.
StateOf(log) == IF log = <<>> THEN "NULL" ELSE StateForType[log[Latest(log)].type]

(***************************************************************************)
(* calculate_duration: sort by instant, then one pass that remembers the   *)
(* last opening and closes it at the next BREAK or END.  Instants start at *)
(* 1, so 0 stands for "nothing open".  The unit is the instant: the final  *)
(* rounding down to minutes is left out.                                   *)
(***************************************************************************)
Account(acc, s) ==
  IF s.type \in Opening THEN [acc EXCEPT !.open = s.ts]
  ELSE IF acc.open = 0 THEN acc
  ELSE [total |-> acc.total + (s.ts - acc.open), open |-> 0]

\* sorted(), which keeps the order of equals: the k-th has k sessions up to it.
UpToIt(log, i) ==
  {j \in DOMAIN log : log[j].ts < log[i].ts \/ (log[j].ts = log[i].ts /\ j <= i)}
InOrder(log) ==
  [k \in DOMAIN log |-> log[CHOOSE i \in DOMAIN log : Cardinality(UpToIt(log, i)) = k]]

CalculateDuration(log) == FoldLeft(Account, [total |-> 0, open |-> 0], InOrder(log)).total
=============================================================================
