---------------------------- MODULE MCImuPipeline ----------------------------
(***************************************************************************)
(* The acquisition with angles at the ends of the range, for TLC.          *)
(***************************************************************************)
EXTENDS ImuPipeline

EdgeHeadings == {-18000, -17589, -17588, 0, 411, 17999, 18000}

\* What wraps, what saturates, and nought.
EdgeJunk == {0, 32767, 32768}
=============================================================================
