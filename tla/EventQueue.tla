----------------------------- MODULE EventQueue -------------------------------
(***************************************************************************)
(* What app_scheduler.h promises: events put by interrupt handlers are     *)
(* handled by the thread, each once, in the order they were put, one at a  *)
(* time; a put is refused only when Capacity events wait.                  *)
(***************************************************************************)
EXTENDS Naturals, Sequences

CONSTANTS Events, NoEvent, Capacity

VARIABLES
  queue,     \* events waiting
  running,   \* the event whose handler runs
  refused    \* did the last put fail?

vars == <<queue, running, refused>>

Init == queue = <<>> /\ running = NoEvent /\ refused = FALSE

Put(e) ==
  /\ Len(queue) < Capacity
  /\ queue' = Append(queue, e)
  /\ refused' = FALSE
  /\ UNCHANGED running

Refuse ==
  /\ Len(queue) = Capacity
  /\ refused' = TRUE
  /\ UNCHANGED <<queue, running>>

Take ==
  /\ running = NoEvent /\ queue # <<>>
  /\ running' = Head(queue)
  /\ queue' = Tail(queue)
  /\ UNCHANGED refused

Finish ==
  /\ running # NoEvent
  /\ running' = NoEvent
  /\ UNCHANGED <<queue, refused>>

Next == (\E e \in Events : Put(e)) \/ Refuse \/ Take \/ Finish

SafeSpec == Init /\ [][Next]_vars

Spec == SafeSpec /\ WF_vars(Take \/ Finish)
===============================================================================
