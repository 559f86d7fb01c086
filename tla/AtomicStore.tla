----------------------------- MODULE AtomicStore -----------------------------
(***************************************************************************)
(* What the calibration store promises: the calibration kept in flash is   *)
(* a whole one or none, whenever the power fails; it changes only while it *)
(* is being written, and a write that has returned has kept it.            *)
(* It does not promise to keep the old calibration until the new one is in *)
(* place: a write may Forget before it may Keep.                           *)
(***************************************************************************)
CONSTANTS Cal,     \* calibrations
          NoCal    \* none

VARIABLES
  stored,    \* the calibration a restart would load
  mode,      \* "down", "idle" or "writing"
  request    \* the calibration being written

vars == <<stored, mode, request>>

Init == stored = NoCal /\ mode = "down" /\ request = NoCal

Start ==
  /\ mode = "down" /\ mode' = "idle"
  /\ UNCHANGED <<stored, request>>

Request(d) ==
  /\ mode = "idle" /\ mode' = "writing"
  /\ request' = d
  /\ UNCHANGED stored

Forget ==
  /\ mode = "writing"
  /\ stored' = NoCal
  /\ UNCHANGED <<mode, request>>

Keep ==
  /\ mode = "writing"
  /\ stored = NoCal /\ stored' = request
  /\ UNCHANGED <<mode, request>>

Return ==
  /\ mode = "writing" /\ mode' = "idle"
  /\ stored = request /\ request' = NoCal
  /\ UNCHANGED stored

Fail ==
  /\ mode' = "down" /\ request' = NoCal
  /\ UNCHANGED stored

Next == Start \/ (\E d \in Cal : Request(d)) \/ Forget \/ Keep \/ Return \/ Fail

Spec == Init /\ [][Next]_vars
==============================================================================
