----------------------------- MODULE MCTwiMaster -----------------------------
(***************************************************************************)
(* The I2C master with small registers, for TLC.                           *)
(***************************************************************************)
EXTENDS TwiMaster
=============================================================================
