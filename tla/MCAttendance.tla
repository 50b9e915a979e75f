---------------------------- MODULE MCAttendance ----------------------------
(***************************************************************************)
(* Attendance for TLC.                                                     *)
(***************************************************************************)
EXTENDS Attendance
=============================================================================
