--------------------------- MODULE MCSerialDialog ---------------------------
(***************************************************************************)
(* The serial line with short lines and a short window, for TLC.           *)
(***************************************************************************)
EXTENDS SerialDialog
=============================================================================
