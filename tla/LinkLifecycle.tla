---------------------------- MODULE LinkLifecycle ----------------------------
(***************************************************************************)
(* What the firmware promises about its radio, without the SoftDevice, its *)
(* event queue or the timer: it is silent, advertising, connected, or it   *)
(* has stopped in the error handler.  The promises are in the transitions  *)
(* that are missing:                                                       *)
(*   - a connection is only ever accepted by an application that knows it  *)
(*     was advertising (no "silent" -> "connected");                       *)
(*   - when a connection ends, advertising is back before the handler of   *)
(*     the disconnection returns (no "connected" -> "silent").             *)
(* and in the fairness: silence does not last.                             *)
(***************************************************************************)
VARIABLE mode

Init == mode = "silent"

StartAdvertising == mode = "silent"      /\ mode' = "advertising"
StopAdvertising  == mode = "advertising" /\ mode' = "silent"
Accept           == mode = "advertising" /\ mode' = "connected"
Drop             == mode = "connected"   /\ mode' = "advertising"
Halt             == mode # "halted"      /\ mode' = "halted"

Next == \/ StartAdvertising
        \/ StopAdvertising
        \/ Accept
        \/ Drop
        \/ Halt

\* The safety part of the promise.
SafeSpec == Init /\ [][Next]_mode

\* Silence does not last.
LeaveSilence == StartAdvertising \/ (mode = "silent" /\ Halt)
Liveness == WF_mode(LeaveSilence)

\* The whole promise.
LiveSpec == SafeSpec /\ Liveness
=============================================================================
