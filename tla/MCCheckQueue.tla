---------------------------- MODULE MCCheckQueue ----------------------------
(***************************************************************************)
(* CheckQueue for TLC.                                                     *)
(***************************************************************************)
EXTENDS CheckQueue

=============================================================================
