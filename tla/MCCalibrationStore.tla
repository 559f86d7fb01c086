-------------------------- MODULE MCCalibrationStore --------------------------
(***************************************************************************)
(* Three calibrations and a block of four words, for TLC.                  *)
(***************************************************************************)
EXTENDS CalibrationStore
===============================================================================
