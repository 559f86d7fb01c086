----------------------------- MODULE AppScheduler -----------------------------
(***************************************************************************)
(* app_scheduler.c: the ring through which interrupt handlers hand events  *)
(* to the main loop.  A put reserves its entry in a critical region and    *)
(* fills it outside, where a handler of a higher priority may put its own; *)
(* the thread takes an entry in two steps and handles the event in place,  *)
(* while interrupts go on putting.                                         *)
(***************************************************************************)
EXTENDS Naturals, Sequences

CONSTANTS
  Events,      \* event headers with their data
  NoEvent,     \* what an entry holds that was never written
  QueueSize,   \* m_queue_size, SCHED_QUEUE_SIZE of twi_scheduler.c
  Levels,      \* interrupt priorities that put events
  NoIndex      \* the thread holds no entry

\* The indices are bytes.
ASSUME SchedAssumption ==
  /\ NoEvent \notin Events
  /\ QueueSize \in 1 .. 255
  /\ Levels \in Nat
  /\ NoIndex \notin Nat

VARIABLES
  entries,       \* m_queue_event_headers, m_queue_event_data
  start, end,    \* m_queue_start_index, m_queue_end_index
  puts,          \* app_sched_event_put calls not finished, the innermost last
  event_index,   \* the entry app_sched_event_get has taken
  handler,       \* p_event_handler, once it is read
  refused        \* the last put returned NRF_ERROR_NO_MEM

ringVars == <<entries, start, end>>
threadVars == <<event_index, handler>>
vars == <<ringVars, threadVars, puts, refused>>

Index == 0 .. QueueSize

-------------------------------------------------------------------------------
\* Slip: one index too many.
IndexPastEnd(i) == IF i <= QueueSize THEN i + 1 ELSE 0

next_index(i) == IF i < QueueSize THEN i + 1 ELSE 0

\* Slips: the entry the thread holds not kept free; two entries kept free.
NeverFull == FALSE
FullOneEarly == start \in {next_index(end), next_index(next_index(end))}

\* APP_SCHED_QUEUE_FULL, APP_SCHED_QUEUE_EMPTY
QueueFull == next_index(end) = start
QueueEmpty == end = start

\* app_sched_event_put: the critical region ...
Reserve(e) ==
  /\ Len(puts) < Levels
  /\ ~QueueFull
  /\ puts' = Append(puts, [index |-> end, event |-> e])
  /\ end' = next_index(end)
  /\ refused' = FALSE
  /\ UNCHANGED <<entries, start, threadVars>>

Refuse ==
  /\ Len(puts) < Levels
  /\ QueueFull
  /\ refused' = TRUE
  /\ UNCHANGED <<ringVars, threadVars, puts>>

\* ... and the copy, of the innermost interrupt first.
Fill ==
  /\ puts # <<>>
  /\ LET p == puts[Len(puts)] IN entries' = [entries EXCEPT ![p.index] = p.event]
  /\ puts' = SubSeq(puts, 1, Len(puts) - 1)
  /\ UNCHANGED <<start, end, threadVars, refused>>

\* app_sched_event_get, in the thread: the start index is advanced ...
Take ==
  /\ puts = <<>> /\ event_index = NoIndex
  /\ ~QueueEmpty
  /\ event_index' = start
  /\ start' = next_index(start)
  /\ UNCHANGED <<entries, end, puts, handler, refused>>

\* ... and the header read, but the data is left where it is.
ReadHeader ==
  /\ puts = <<>> /\ event_index # NoIndex
  /\ handler = NoEvent
  /\ handler' = entries[event_index]
  /\ UNCHANGED <<ringVars, event_index, puts, refused>>

\* app_sched_execute: the handler returns.
Handled ==
  /\ puts = <<>> /\ handler # NoEvent
  /\ handler' = NoEvent
  /\ event_index' = NoIndex
  /\ UNCHANGED <<ringVars, puts, refused>>

app_sched_event_put == (\E e \in Events : Reserve(e)) \/ Refuse \/ Fill

app_sched_execute == Take \/ ReadHeader \/ Handled

\* app_sched_init
Init ==
  /\ entries = [i \in Index |-> NoEvent]
  /\ start = 0 /\ end = 0
  /\ puts = <<>>
  /\ event_index = NoIndex /\ handler = NoEvent
  /\ refused = FALSE

Next == app_sched_event_put \/ app_sched_execute

Spec == Init /\ [][Next]_vars

\* Interrupt handlers end, and leave the thread time to run, though never for
\* long.
FairSpec == Spec /\ WF_vars(Fill) /\ SF_vars(app_sched_execute)

-------------------------------------------------------------------------------
\* The entries from start to end, around the ring.
Count == IF start <= end THEN end - start ELSE end + QueueSize + 1 - start

\* The entry k after i.
After(i, k) == IF i + k <= QueueSize THEN i + k ELSE i + k - (QueueSize + 1)

TypeOK ==
  /\ entries \in [Index -> Events \union {NoEvent}]
  /\ start \in Index /\ end \in Index
  /\ puts \in Seq([index : Index, event : Events]) /\ Len(puts) <= Levels
  /\ event_index \in Index \union {NoIndex}
  /\ handler \in Events \union {NoEvent}
  /\ refused \in BOOLEAN

\* The event an entry holds, or will hold when the interrupts have ended.
EventAt(i) ==
  IF \E n \in DOMAIN puts : puts[n].index = i
  THEN puts[CHOOSE n \in DOMAIN puts : puts[n].index = i].event
  ELSE entries[i]

\* The queue, and the event being handled.
Waiting == [k \in 1 .. Count |-> EventAt(After(start, k - 1))]

Current == IF event_index = NoIndex THEN NoEvent ELSE EventAt(event_index)

Queue == INSTANCE EventQueue WITH
  Capacity <- QueueSize,
  queue    <- Waiting,
  running  <- Current

\* app_scheduler.h: the ring with its two indices, filled outside the critical
\* region, is a queue: nothing lost, doubled or out of order, and a put fails
\* only when QueueSize events wait.
KeepsQueue == Queue!Spec

\* The comment at app_scheduler.c:150: the handler that app_sched_execute calls
\* gets the data of its own event, although the entry is given back before.
HandlerHasItsData ==
  handler # NoEvent => handler = EventAt(event_index)

\* How far after start an index is, around the ring.
Offset(i) == IF start <= i THEN i - start ELSE i + QueueSize + 1 - start

\* The inductive invariant of app_scheduler.c: the entries reserved are inside
\* the ring and in the order of the puts, so that no two interrupts fill the
\* same one; every other entry inside is filled; the entry the thread has taken
\* is the one just before start, filled, and reserved by nobody; and the handler
\* is the one of that entry.
RingInv ==
  /\ TypeOK
  /\ \A m, n \in DOMAIN puts : m < n => Offset(puts[m].index) < Offset(puts[n].index)
  /\ \A n \in DOMAIN puts : Offset(puts[n].index) < Count
  /\ \A i \in Index : Offset(i) < Count =>
       entries[i] \in Events \/ \E n \in DOMAIN puts : puts[n].index = i
  /\ event_index # NoIndex =>
       next_index(event_index) = start /\ entries[event_index] \in Events
  /\ handler # NoEvent => event_index # NoIndex /\ handler = entries[event_index]
===============================================================================
