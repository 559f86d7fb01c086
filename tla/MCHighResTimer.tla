---------------------------- MODULE MCHighResTimer ----------------------------
(***************************************************************************)
(* A clock of two counters of four values each, for TLC.                   *)
(***************************************************************************)
EXTENDS HighResTimer
===============================================================================
