----------------------------- MODULE MCAppTimer -------------------------------
(***************************************************************************)
(* The timers of the firmware with intervals of a few ticks, for TLC.      *)
(***************************************************************************)
EXTENDS AppTimer

CONSTANTS imu, conn, button

ThreeTimers == [t \in {imu, conn, button} |-> IF t = conn THEN 9 ELSE 7]
TwoTimers == [t \in {imu, button} |-> 8]
SlowTimers == [t \in {imu, button} |-> 12]

\* Everything depends on differences of counter values modulo Wrap only, so that
\* states are told apart by what they are counted from m_ticks_latest.  Values
\* nobody reads any more are left out.
Seen(n) == Diff(n, latest)
SeenOp(op) == IF op.type = "stop" THEN <<op.timer>>
              ELSE <<op.timer, Seen(op.ticks_at_start)>>
FromLatest ==
  <<Seen(counter), Seen(cc), armed, rtc, rtc1, swi0, at,
    IF Busy THEN lag ELSE 0, list, delta,
    [u \in DOMAIN ops |-> [i \in DOMAIN ops[u] |-> SeenOp(ops[u][i])]],
    elapsed, expired, update,
    [i \in DOMAIN restart |-> SeenOp(restart[i])],
    IF at \in {"compare", "check"} THEN Seen(pre) ELSE None,
    [t \in Timers |-> IF t \in Running \union ToSet([i \in DOMAIN restart |->
                                                      restart[i].timer])
                      THEN <<Seen(due[t]), runs[t]>> ELSE <<>>],
    ran>>
===============================================================================
