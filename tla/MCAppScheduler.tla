--------------------------- MODULE MCAppScheduler -----------------------------
(***************************************************************************)
(* A ring of four entries and two interrupt priorities, for TLC.           *)
(***************************************************************************)
EXTENDS AppScheduler
===============================================================================
