-------------------------- MODULE AppSchedulerProofs ---------------------------
(***************************************************************************)
(* The ring of app_scheduler.c is a queue, for every size of the ring and  *)
(* every number of interrupt levels: its inductive invariant, and that     *)
(* each step is a step of EventQueue or leaves the queue as it is.         *)
(***************************************************************************)
EXTENDS AppScheduler, SequenceTheorems, TLAPS

-------------------------------------------------------------------------------
(***************************************************************************)
(* Indices around the ring.                                                *)
(***************************************************************************)

\* next_index stays in the ring, and can be undone.
LEMMA NextIndexProperties ==
  ASSUME NEW i \in Index
  PROVE  /\ next_index(i) \in Index
         /\ next_index(i) # i
         /\ \A j \in Index : next_index(i) = next_index(j) => i = j
  BY SchedAssumption DEF Index, next_index

\* Each index has one offset, and the entry k after start the offset k.
LEMMA OffsetProperties ==
  ASSUME start \in Index
  PROVE  /\ \A i \in Index : Offset(i) \in Index /\ After(start, Offset(i)) = i
         /\ \A k \in Index : After(start, k) \in Index /\ Offset(After(start, k)) = k
         /\ \A i, j \in Index : Offset(i) = Offset(j) => i = j
  BY SchedAssumption DEF Index, Offset, After

\* The end is Count after the start; the ring is full when only the entry
\* before start is left.
LEMMA CountProperties ==
  ASSUME start \in Index, end \in Index
  PROVE  /\ Count \in Index
         /\ Offset(end) = Count
         /\ QueueFull <=> Count = QueueSize
         /\ QueueEmpty <=> Count = 0
         /\ \A i \in Index : next_index(i) = start => Offset(i) = QueueSize
  BY SchedAssumption DEF Index, Offset, Count, QueueFull, QueueEmpty, next_index

\* A put moves the end by one, and no offset with it.
LEMMA EndMoves ==
  ASSUME start \in Index, end \in Index, ~QueueFull,
         start' = start, end' = next_index(end)
  PROVE  /\ Count' = Count + 1
         /\ \A i \in Index : Offset(i)' = Offset(i)
  BY SchedAssumption DEF Index, Offset, Count, QueueFull, next_index

\* A get moves the start by one: every offset but that of the entry taken is one
\* less.
LEMMA StartMoves ==
  ASSUME start \in Index, end \in Index, ~QueueEmpty,
         start' = next_index(start), end' = end
  PROVE  /\ Count' = Count - 1
         /\ \A i \in Index : Offset(i)' = IF i = start THEN QueueSize ELSE Offset(i) - 1
         /\ \A k \in 1 .. Count - 1 : After(start, k) = After(start', k - 1)
  BY SchedAssumption DEF Index, Offset, After, Count, QueueEmpty, next_index

-------------------------------------------------------------------------------
(***************************************************************************)
(* The inductive invariant.                                                *)
(***************************************************************************)

LEMMA RingInit == Init => RingInv
  <1> SUFFICES ASSUME Init PROVE RingInv
    OBVIOUS
  <1>1. puts = <<>> /\ puts \in Seq([index : Index, event : Events]) /\ Len(puts) = 0
    BY DEF Init
  <1>2. TypeOK
    <2>1. entries \in [Index -> Events \union {NoEvent}]
      BY DEF Init
    <2>2. 0 \in Index /\ 0 <= Levels
      BY SchedAssumption DEF Index
    <2>3. QED
      BY <1>1, <2>1, <2>2 DEF Init, TypeOK
  <1>3. Count = 0 /\ \A i \in Index : Offset(i) \in Nat
    BY SchedAssumption DEF Init, Count, Offset, Index
  <1>4. \A i \in Index : ~(Offset(i) < Count)
    BY <1>3
  <1>5. DOMAIN puts = {}
    BY <1>1
  <1>6. event_index = NoIndex /\ handler = NoEvent
    BY DEF Init
  <1>7. QED
    BY <1>2, <1>4, <1>5, <1>6 DEF RingInv

\* The calls of app_sched_event_put, before and after one more begins.
LEMMA PutsAfterReserve ==
  ASSUME RingInv, NEW e \in Events, Reserve(e)
  PROVE  /\ puts' \in Seq([index : Index, event : Events])
         /\ Len(puts) \in Nat /\ Len(puts') = Len(puts) + 1
         /\ DOMAIN puts = 1 .. Len(puts)
         /\ DOMAIN puts' = 1 .. Len(puts) + 1
         /\ \A n \in 1 .. Len(puts) : puts'[n] = puts[n]
         /\ puts'[Len(puts) + 1] = [index |-> end, event |-> e]
  <1> DEFINE Put == [index : Index, event : Events]
             p == [index |-> end, event |-> e]
  <1>1. puts \in Seq(Put) /\ p \in Put
    BY DEF RingInv, TypeOK
  <1>2. /\ puts' \in Seq(Put) /\ Len(puts') = Len(puts) + 1
        /\ \A n \in 1 .. Len(puts) : puts'[n] = puts[n]
        /\ puts'[Len(puts) + 1] = p
    BY <1>1, AppendProperties DEF Reserve
  <1>3. QED
    BY <1>1, <1>2, LenProperties

\* An interrupt reserves the entry at the end.
LEMMA ReserveStep ==
  ASSUME RingInv, NEW e \in Events, Reserve(e)
  PROVE  RingInv'
  <1> DEFINE Put == [index : Index, event : Events]
             p == [index |-> end, event |-> e]
  <1>1. /\ start \in Index /\ end \in Index /\ puts \in Seq(Put)
        /\ p \in Put
    BY DEF RingInv, TypeOK
  <1>2. /\ puts' \in Seq(Put) /\ Len(puts') = Len(puts) + 1
        /\ \A n \in 1 .. Len(puts) : puts'[n] = puts[n]
        /\ puts'[Len(puts) + 1] = p
    BY PutsAfterReserve
  <1>3. /\ Len(puts) \in Nat
        /\ DOMAIN puts = 1 .. Len(puts)
        /\ DOMAIN puts' = 1 .. Len(puts) + 1
    BY PutsAfterReserve
  <1>4. /\ Count' = Count + 1
        /\ \A i \in Index : Offset(i)' = Offset(i)
    BY <1>1, EndMoves DEF Reserve, ringVars
  <1>5. /\ Count \in Nat /\ Offset(end) = Count
        /\ \A i \in Index : Offset(i) \in Nat
    BY <1>1, CountProperties, OffsetProperties DEF Index
  <1>6. TypeOK'
    <2>1. end' \in Index
      BY <1>1, NextIndexProperties DEF Reserve
    <2>2. Len(puts') <= Levels
      BY <1>2, <1>3, SchedAssumption DEF Reserve
    <2>3. QED
      BY <1>2, <2>1, <2>2 DEF RingInv, TypeOK, Reserve, ringVars, threadVars
  <1>7. \A n \in 1 .. Len(puts) : puts[n].index \in Index /\ Offset(puts[n].index) < Count
    <2>1. \A n \in 1 .. Len(puts) : puts[n] \in Put
      BY <1>1, ElementOfSeq
    <2>2. QED
      BY <2>1, <1>3 DEF RingInv
  <1>8. (\A m, n \in DOMAIN puts : m < n => Offset(puts[m].index) < Offset(puts[n].index))'
    <2> SUFFICES ASSUME NEW m \in 1 .. Len(puts) + 1, NEW n \in 1 .. Len(puts) + 1, m < n
                 PROVE  (Offset(puts[m].index) < Offset(puts[n].index))'
      BY <1>3
    <2>1. m \in 1 .. Len(puts) /\ (Offset(puts[m].index))' = Offset(puts[m].index)
      BY <1>2, <1>3, <1>4, <1>7
    <2>2. CASE n = Len(puts) + 1
      BY <2>1, <2>2, <1>1, <1>2, <1>4, <1>5, <1>7
    <2>3. CASE n \in 1 .. Len(puts)
      BY <2>1, <2>3, <1>2, <1>3, <1>4, <1>7 DEF RingInv
    <2>4. QED
      BY <2>2, <2>3, <1>3
  <1>9. (\A n \in DOMAIN puts : Offset(puts[n].index) < Count)'
    <2> SUFFICES ASSUME NEW n \in 1 .. Len(puts) + 1
                 PROVE  (Offset(puts[n].index) < Count)'
      BY <1>3
    <2>1. CASE n = Len(puts) + 1
      BY <2>1, <1>1, <1>2, <1>4, <1>5
    <2>2. CASE n \in 1 .. Len(puts)
      BY <2>2, <1>2, <1>4, <1>5, <1>7
    <2>3. QED
      BY <2>1, <2>2, <1>3
  <1>10. (\A i \in Index : Offset(i) < Count =>
            entries[i] \in Events \/ \E n \in DOMAIN puts : puts[n].index = i)'
    <2> SUFFICES ASSUME NEW i \in Index, Offset(i)' < Count'
                 PROVE  entries'[i] \in Events \/ \E n \in DOMAIN puts' : puts'[n].index = i
      BY DEF Index
    <2>1. CASE i = end
      BY <2>1, <1>2, <1>3
    <2>2. CASE i # end
      <3>1. Offset(i) # Count
        BY <2>2, <1>1, <1>5, OffsetProperties
      <3>2. Offset(i) < Count
        BY <3>1, <1>4, <1>5
      <3>3. entries[i] \in Events \/ \E n \in 1 .. Len(puts) : puts[n].index = i
        BY <3>2, <1>3 DEF RingInv
      <3>4. QED
        BY <3>3, <1>2, <1>3 DEF Reserve, ringVars
    <2>3. QED
      BY <2>1, <2>2
  <1>11. QED
    BY <1>6, <1>8, <1>9, <1>10 DEF RingInv, Reserve, ringVars, threadVars, next_index

\* An interrupt fills the entry it reserved, and ends.
LEMMA FillStep ==
  ASSUME RingInv, Fill
  PROVE  /\ RingInv'
         /\ puts # <<>> /\ Len(puts) \in DOMAIN puts
         /\ Len(puts') = Len(puts) - 1
         /\ \A n \in DOMAIN puts' : n \in DOMAIN puts \ {Len(puts)} /\ puts'[n] = puts[n]
         /\ \A n \in DOMAIN puts \ {Len(puts)} : n \in DOMAIN puts'
  <1> DEFINE Put == [index : Index, event : Events]
             N == Len(puts)
             p == puts[N]
  <1>1. /\ start \in Index /\ end \in Index /\ puts \in Seq(Put)
        /\ entries \in [Index -> Events \union {NoEvent}]
    BY DEF RingInv, TypeOK
  <1>2. N \in Nat \ {0} /\ DOMAIN puts = 1 .. N
    BY <1>1, EmptySeq, LenProperties DEF Fill
  <1>3. \A n \in 1 .. N : puts[n] \in Put
    BY <1>1, ElementOfSeq
  <1>4. /\ puts' \in Seq(Put) /\ Len(puts') = N - 1
        /\ \A n \in 1 .. N - 1 : puts'[n] = puts[n]
    <2>1. puts' = SubSeq(puts, 1, N - 1) /\ \A n \in 1 .. N - 1 : puts[n] \in Put
      BY <1>2, <1>3 DEF Fill
    <2>2. /\ puts' \in Seq(Put)
          /\ Len(puts') = N - 1
          /\ \A n \in 1 .. N - 1 : puts'[n] = puts[n]
      BY <2>1, <1>1, <1>2
    <2>3. QED
      BY <2>2
  <1>5. DOMAIN puts' = 1 .. N - 1
    BY <1>4, LenProperties
  <1>6. entries' = [entries EXCEPT ![p.index] = p.event]
    BY DEF Fill
  <1>7. p.index \in Index /\ p.event \in Events
    BY <1>2, <1>3
  <1>8. Count' = Count /\ \A i \in Index : Offset(i)' = Offset(i)
    BY DEF Fill, Count, Offset
  <1>9. TypeOK'
    BY <1>1, <1>2, <1>4, <1>6, <1>7, SchedAssumption DEF RingInv, TypeOK, Fill, threadVars
  <1>10. (\A m, n \in DOMAIN puts : m < n => Offset(puts[m].index) < Offset(puts[n].index))'
    BY <1>2, <1>3, <1>4, <1>5, <1>8 DEF RingInv
  <1>11. (\A n \in DOMAIN puts : Offset(puts[n].index) < Count)'
    BY <1>2, <1>3, <1>4, <1>5, <1>8 DEF RingInv
  <1>12. (\A i \in Index : Offset(i) < Count =>
            entries[i] \in Events \/ \E n \in DOMAIN puts : puts[n].index = i)'
    <2> SUFFICES ASSUME NEW i \in Index, Offset(i)' < Count'
                 PROVE  entries'[i] \in Events \/ \E n \in DOMAIN puts' : puts'[n].index = i
      BY DEF Index
    <2>1. CASE i = p.index
      BY <2>1, <1>1, <1>6, <1>7
    <2>2. CASE i # p.index
      <3>1. entries[i] \in Events \/ \E n \in 1 .. N : puts[n].index = i
        BY <1>2, <1>8 DEF RingInv
      <3>2. entries'[i] = entries[i]
        BY <2>2, <1>1, <1>6
      <3>3. QED
        <4>1. CASE entries[i] \in Events
          BY <3>2, <4>1
        <4>2. CASE entries[i] \notin Events
          <5>1. PICK n \in 1 .. N : puts[n].index = i
            BY <3>1, <4>2
          <5>2. n \in 1 .. N - 1
            BY <2>2, <5>1, <1>2
          <5>3. QED
            BY <5>1, <5>2, <1>4, <1>5
        <4>3. QED
          BY <4>1, <4>2
    <2>3. QED
      BY <2>1, <2>2
  <1>13. event_index # NoIndex => event_index \in Index /\ p.index # event_index
    <2> SUFFICES ASSUME event_index # NoIndex
                 PROVE  event_index \in Index /\ p.index # event_index
      OBVIOUS
    <2>1. event_index \in Index /\ next_index(event_index) = start
      BY DEF RingInv, TypeOK
    <2>2. Offset(event_index) = QueueSize /\ Count \in Index
      BY <1>1, <2>1, CountProperties
    <2>3. Offset(p.index) < Count /\ Offset(p.index) \in Index
      BY <1>1, <1>2, <1>7, OffsetProperties DEF RingInv
    <2>4. QED
      BY <2>1, <2>2, <2>3, SchedAssumption DEF Index
  <1>14. event_index # NoIndex => entries'[event_index] = entries[event_index]
    BY <1>1, <1>6, <1>13
  <1>15. /\ (event_index # NoIndex =>
               next_index(event_index) = start /\ entries[event_index] \in Events)'
         /\ (handler # NoEvent => event_index # NoIndex /\ handler = entries[event_index])'
    BY <1>14 DEF RingInv, Fill, threadVars, next_index
  <1>16. QED
    BY <1>2, <1>4, <1>5, <1>9, <1>10, <1>11, <1>12, <1>15 DEF RingInv, Fill

\* The thread takes the entry at the start.
LEMMA TakeStep ==
  ASSUME RingInv, Take
  PROVE  RingInv'
  <1>1. /\ start \in Index /\ end \in Index /\ puts = <<>> /\ puts' = <<>>
        /\ start' = next_index(start) /\ end' = end /\ ~QueueEmpty
        /\ entries' = entries
    BY DEF RingInv, TypeOK, Take
  <1>2. /\ Count' = Count - 1 /\ Count \in Index /\ Count # 0
        /\ \A i \in Index : Offset(i)' = IF i = start THEN QueueSize ELSE Offset(i) - 1
    BY <1>1, StartMoves, CountProperties
  <1>3. \A i \in Index : Offset(i) \in Index
    BY <1>1, OffsetProperties
  <1>4. Offset(start) = 0
    BY <1>1, SchedAssumption DEF Offset, Index
  <1>5. DOMAIN puts = {}
    BY <1>1
  <1>6. TypeOK'
    BY <1>1, NextIndexProperties DEF RingInv, TypeOK, Take
  <1>7. \A i \in Index : Offset(i) < Count => entries[i] \in Events
    BY <1>5 DEF RingInv
  <1>8. \A i \in Index : Offset(i)' < Count' => entries'[i] \in Events
    <2> SUFFICES ASSUME NEW i \in Index, Offset(i)' < Count'
                 PROVE  entries[i] \in Events
      BY <1>1
    <2>1. Offset(i)' < Count - 1 /\ Count \in 0 .. QueueSize
      BY <1>2 DEF Index
    <2>2. i # start
      BY <2>1, <1>2, SchedAssumption
    <2>3. Offset(i) - 1 < Count - 1 /\ Offset(i) \in Nat
      BY <2>1, <2>2, <1>2, <1>3 DEF Index
    <2>4. QED
      BY <2>1, <2>3, <1>7
  <1>9. entries[start] \in Events
    BY <1>1, <1>2, <1>4, <1>7 DEF Index
  <1>10. handler = NoEvent
    BY DEF RingInv, Take
  <1>11. QED
    BY <1>1, <1>5, <1>6, <1>8, <1>9, <1>10 DEF RingInv, Take, next_index, Index

LEMMA RingNext == RingInv /\ [Next]_vars => RingInv'
  <1> SUFFICES ASSUME RingInv, [Next]_vars PROVE RingInv'
    OBVIOUS
  <1>1. CASE \E e \in Events : Reserve(e)
    BY <1>1, ReserveStep
  <1>2. CASE Refuse
    BY <1>2 DEF Refuse, RingInv, TypeOK, ringVars, threadVars, Offset, Count, next_index
  <1>3. CASE Fill
    BY <1>3, FillStep
  <1>4. CASE Take
    BY <1>4, TakeStep
  <1>5. CASE ReadHeader
    <2>1. entries[event_index] \in Events
      BY <1>5 DEF RingInv, ReadHeader
    <2>2. QED
      BY <1>5, <2>1 DEF ReadHeader, RingInv, TypeOK, ringVars, Offset, Count, next_index
  <1>6. CASE Handled
    BY <1>6 DEF Handled, RingInv, TypeOK, ringVars, Offset, Count, next_index
  <1>7. CASE UNCHANGED vars
    BY <1>7 DEF vars, RingInv, TypeOK, ringVars, threadVars, Offset, Count, next_index
  <1>8. QED
    BY <1>1, <1>2, <1>3, <1>4, <1>5, <1>6, <1>7
       DEF Next, app_sched_event_put, app_sched_execute

\* The invariant of the ring holds for every size and every number of levels
\* (app_scheduler.c: app_sched_event_put, app_sched_event_get).
THEOREM RingHolds == Spec => []RingInv
  <1>1. QED
    BY RingInit, RingNext, PTL DEF Spec

-------------------------------------------------------------------------------
(***************************************************************************)
(* What the thread handles.                                                *)
(***************************************************************************)

\* The event of an entry, of any puts: that of the only put that reserved it.
LEMMA PutIsFound ==
  ASSUME NEW ps, NEW old, NEW n \in DOMAIN ps,
         \A m \in DOMAIN ps : ps[m].index = ps[n].index => m = n
  PROVE  (IF \E m \in DOMAIN ps : ps[m].index = ps[n].index
          THEN ps[CHOOSE m \in DOMAIN ps : ps[m].index = ps[n].index].event
          ELSE old) = ps[n].event
  <1>1. (CHOOSE m \in DOMAIN ps : ps[m].index = ps[n].index) = n
    OBVIOUS
  <1>2. QED
    BY <1>1

LEMMA EventOfPut ==
  ASSUME RingInv, NEW n \in DOMAIN puts
  PROVE  EventAt(puts[n].index) = puts[n].event
  <1>1. \A m \in DOMAIN puts : Offset(puts[m].index) \in Int /\ m \in Int
    <2>1. puts \in Seq([index : Index, event : Events]) /\ start \in Index
      BY DEF RingInv, TypeOK
    <2>2. DOMAIN puts = 1 .. Len(puts) /\ Len(puts) \in Nat
      BY <2>1, LenProperties
    <2>3. \A m \in 1 .. Len(puts) : puts[m] \in [index : Index, event : Events]
      BY <2>1, ElementOfSeq
    <2>4. QED
      BY <2>1, <2>2, <2>3, OffsetProperties DEF Index
  <1>2. \A m \in DOMAIN puts : puts[m].index = puts[n].index => m = n
    BY <1>1 DEF RingInv
  <1>3. QED
    BY <1>2, PutIsFound DEF EventAt

LEMMA EventOfEntry ==
  ASSUME NEW i, \A n \in DOMAIN puts : puts[n].index # i
  PROVE  EventAt(i) = entries[i]
  BY DEF EventAt

\* The entry the thread has taken is reserved by nobody.
LEMMA TakenIsFree ==
  ASSUME RingInv, event_index # NoIndex
  PROVE  /\ event_index \in Index
         /\ \A n \in DOMAIN puts : puts[n].index # event_index
         /\ Current = entries[event_index] /\ Current \in Events
  <1>1. start \in Index /\ end \in Index /\ event_index \in Index
    BY DEF RingInv, TypeOK
  <1>2. Offset(event_index) = QueueSize /\ Count \in Index
    BY <1>1, CountProperties DEF RingInv
  <1>3. \A n \in DOMAIN puts : puts[n].index # event_index
    BY <1>2, SchedAssumption DEF RingInv, Index
  <1>4. QED
    BY <1>1, <1>3, EventOfEntry DEF RingInv, Current

\* The handler app_sched_execute calls gets the data of its own event, whatever
\* is put while it runs: the comment at app_scheduler.c:150.
THEOREM HandlersGetTheirData == Spec => []HandlerHasItsData
  <1>1. RingInv => HandlerHasItsData
    BY TakenIsFree, EventOfEntry DEF RingInv, HandlerHasItsData
  <1>2. QED
    BY <1>1, RingHolds, PTL

-------------------------------------------------------------------------------
(***************************************************************************)
(* The ring is a queue.                                                    *)
(***************************************************************************)

LEMMA EventsInside ==
  ASSUME RingInv, NEW i \in Index, Offset(i) < Count
  PROVE  EventAt(i) \in Events
  <1>1. CASE \E n \in DOMAIN puts : puts[n].index = i
    <2>1. PICK n \in DOMAIN puts : puts[n].index = i
      BY <1>1
    <2>2. puts \in Seq([index : Index, event : Events])
      BY DEF RingInv, TypeOK
    <2>3. DOMAIN puts = 1 .. Len(puts)
      BY <2>2, LenProperties
    <2>4. puts[n] \in [index : Index, event : Events]
      BY <2>2, <2>3, ElementOfSeq
    <2>5. QED
      BY <2>1, <2>4, EventOfPut
  <1>2. CASE ~ \E n \in DOMAIN puts : puts[n].index = i
    BY <1>2, EventOfEntry DEF RingInv
  <1>3. QED
    BY <1>1, <1>2

\* The entries from start to end are a sequence of events, Count long.
LEMMA WaitingIsASequence ==
  RingInv =>
    /\ Count \in Index
    /\ Waiting \in Seq(Events) /\ Len(Waiting) = Count
    /\ \A k \in 1 .. Count : Waiting[k] = EventAt(After(start, k - 1))
  <1> SUFFICES ASSUME RingInv
               PROVE  /\ Count \in Index
                      /\ Waiting \in Seq(Events) /\ Len(Waiting) = Count
                      /\ \A k \in 1 .. Count : Waiting[k] = EventAt(After(start, k - 1))
    OBVIOUS
  <1>1. start \in Index /\ end \in Index
    BY DEF RingInv, TypeOK
  <1>2. Count \in Index /\ Count \in Nat /\ Count <= QueueSize
    BY <1>1, CountProperties DEF Index
  <1>3. \A k \in 1 .. Count : EventAt(After(start, k - 1)) \in Events
    <2> SUFFICES ASSUME NEW k \in 1 .. Count
                 PROVE  EventAt(After(start, k - 1)) \in Events
      OBVIOUS
    <2>1. k - 1 \in Index /\ k - 1 < Count
      BY <1>2, SchedAssumption DEF Index
    <2>2. After(start, k - 1) \in Index /\ Offset(After(start, k - 1)) = k - 1
      BY <1>1, <2>1, OffsetProperties
    <2>3. QED
      BY <2>1, <2>2, EventsInside
  <1>4. Waiting \in [1 .. Count -> Events]
    BY <1>3 DEF Waiting
  <1>5. Waiting \in Seq(Events)
    BY <1>2, <1>4, SeqDef
  <1>6. Len(Waiting) = Count
    BY <1>2, <1>4, <1>5, LenProperties
  <1>7. QED
    BY <1>2, <1>5, <1>6 DEF Waiting

LEMMA WaitingNext ==
  RingInv' =>
    /\ Count' \in Index
    /\ Waiting' \in Seq(Events) /\ Len(Waiting)' = Count'
    /\ \A k \in 1 .. Count' : Waiting'[k] = (EventAt(After(start, k - 1)))'
  <1>1. (RingInv =>
           /\ Count \in Index
           /\ Waiting \in Seq(Events) /\ Len(Waiting) = Count
           /\ \A k \in 1 .. Count : Waiting[k] = EventAt(After(start, k - 1)))'
    BY WaitingIsASequence, PTL
  <1>2. QED
    BY <1>1

\* Both cases of EventAt, before and after a step.
LEMMA EventsOfEntries ==
  RingInv =>
    \A i \in Index :
      /\ \A n \in DOMAIN puts : puts[n].index = i => EventAt(i) = puts[n].event
      /\ (\A n \in DOMAIN puts : puts[n].index # i) => EventAt(i) = entries[i]
  BY EventOfPut, EventOfEntry

LEMMA EventsNext ==
  RingInv' =>
    \A i \in Index :
      /\ \A n \in DOMAIN puts' : puts'[n].index = i => EventAt(i)' = puts'[n].event
      /\ (\A n \in DOMAIN puts' : puts'[n].index # i) => EventAt(i)' = entries'[i]
  <1>1. (RingInv =>
           \A i \in Index :
             /\ \A n \in DOMAIN puts : puts[n].index = i => EventAt(i) = puts[n].event
             /\ (\A n \in DOMAIN puts : puts[n].index # i) => EventAt(i) = entries[i])'
    BY EventsOfEntries, PTL
  <1>2. QED
    BY <1>1 DEF Index

\* A put changes the event of its own entry only.
LEMMA ReserveEvents ==
  ASSUME RingInv, RingInv', NEW e \in Events, Reserve(e)
  PROVE  /\ \A i \in Index \ {end} : EventAt(i)' = EventAt(i)
         /\ \A i \in Index : i = end => EventAt(i)' = e
  <1>1. /\ Len(puts) \in Nat
        /\ DOMAIN puts = 1 .. Len(puts)
        /\ DOMAIN puts' = 1 .. Len(puts) + 1
        /\ \A n \in 1 .. Len(puts) : puts'[n] = puts[n]
        /\ puts'[Len(puts) + 1].index = end /\ puts'[Len(puts) + 1].event = e
    <2>1. puts'[Len(puts) + 1] = [index |-> end, event |-> e]
      BY PutsAfterReserve
    <2>2. QED
      BY <2>1, PutsAfterReserve
  <1>2. \A i \in Index : i = end => EventAt(i)' = e
    <2>1. Len(puts) + 1 \in DOMAIN puts'
      BY <1>1
    <2>2. QED
      BY <2>1, <1>1, EventsNext
  <1>3. ASSUME NEW i \in Index \ {end}
        PROVE  EventAt(i)' = EventAt(i)
    <2>1. CASE \E n \in DOMAIN puts : puts[n].index = i
      <3>1. PICK n \in DOMAIN puts : puts[n].index = i
        BY <2>1
      <3>2. n \in DOMAIN puts' /\ puts'[n] = puts[n]
        BY <3>1, <1>1
      <3>3. QED
        BY <3>1, <3>2, EventsOfEntries, EventsNext
    <2>2. CASE \A n \in DOMAIN puts : puts[n].index # i
      <3>1. ASSUME NEW n \in DOMAIN puts' PROVE puts'[n].index # i
        <4>1. CASE n = Len(puts) + 1
          BY <4>1, <1>1
        <4>2. CASE n \in 1 .. Len(puts)
          BY <4>2, <2>2, <1>1
        <4>3. QED
          BY <4>1, <4>2, <1>1
      <3>2. entries' = entries
        BY DEF Reserve
      <3>3. QED
        BY <2>2, <3>1, <3>2, EventsOfEntries, EventsNext
    <2>3. QED
      BY <2>1, <2>2
  <1>4. QED
    BY <1>2, <1>3

\* Filling an entry changes no event.
LEMMA FillEvents ==
  ASSUME RingInv, RingInv', Fill
  PROVE  \A i \in Index : EventAt(i)' = EventAt(i)
  <1> DEFINE N == Len(puts)
             p == puts[N]
  <1>1. /\ N \in DOMAIN puts
        /\ DOMAIN puts' = DOMAIN puts \ {N}
        /\ \A n \in DOMAIN puts' : puts'[n] = puts[n]
    BY FillStep
  <1>2. p.index \in Index /\ entries \in [Index -> Events \union {NoEvent}]
    <2>1. puts \in Seq([index : Index, event : Events])
      BY DEF RingInv, TypeOK
    <2>2. DOMAIN puts = 1 .. Len(puts)
      BY <2>1, LenProperties
    <2>3. p \in [index : Index, event : Events]
      BY <1>1, <2>1, <2>2, ElementOfSeq
    <2>4. QED
      BY <2>3 DEF RingInv, TypeOK
  <1>3. entries' = [entries EXCEPT ![p.index] = p.event]
    BY DEF Fill
  <1>4. \A n \in DOMAIN puts \ {N} : puts[n].index # p.index
    <2> SUFFICES ASSUME NEW n \in DOMAIN puts \ {N}, puts[n].index = p.index
                 PROVE  FALSE
      OBVIOUS
    <2>1. puts \in Seq([index : Index, event : Events]) /\ start \in Index
      BY DEF RingInv, TypeOK
    <2>2. DOMAIN puts = 1 .. N /\ N \in Nat
      BY <2>1, LenProperties
    <2>3. Offset(p.index) \in Int
      <3>1. Offset(p.index) \in Index
        BY <1>2, <2>1, OffsetProperties
      <3>2. QED
        BY <3>1, SchedAssumption DEF Index
    <2>4. n < N
      BY <2>2
    <2>5. Offset(puts[n].index) < Offset(p.index)
      BY <1>1, <2>4 DEF RingInv
    <2>6. QED
      BY <2>3, <2>5
  <1>5. ASSUME NEW i \in Index
        PROVE  EventAt(i)' = EventAt(i)
    <2>1. CASE i = p.index
      <3>1. EventAt(i) = p.event
        BY <2>1, <1>1, EventsOfEntries
      <3>2. EventAt(i)' = entries'[i]
        BY <2>1, <1>1, <1>4, EventsNext
      <3>3. QED
        BY <2>1, <3>1, <3>2, <1>2, <1>3
    <2>2. CASE i # p.index /\ \E n \in DOMAIN puts : puts[n].index = i
      <3>1. PICK n \in DOMAIN puts : puts[n].index = i
        BY <2>2
      <3>2. n \in DOMAIN puts' /\ puts'[n] = puts[n]
        BY <2>2, <3>1, <1>1
      <3>3. QED
        BY <3>1, <3>2, EventsOfEntries, EventsNext
    <2>3. CASE i # p.index /\ \A n \in DOMAIN puts : puts[n].index # i
      <3>1. EventAt(i) = entries[i] /\ EventAt(i)' = entries'[i]
        BY <2>3, <1>1, EventsOfEntries, EventsNext
      <3>2. QED
        BY <2>3, <3>1, <1>2, <1>3
    <2>4. QED
      BY <2>1, <2>2, <2>3
  <1>6. QED
    BY <1>5

LEMMA CurrentNext ==
  RingInv' => (event_index' # NoIndex => Current' = entries'[event_index'])
  <1>1. RingInv => (event_index # NoIndex => Current = entries[event_index])
    BY TakenIsFree
  <1>2. (RingInv => (event_index # NoIndex => Current = entries[event_index]))'
    BY <1>1, PTL
  <1>3. QED
    BY <1>2

\* The event being handled changes only with its entry.
LEMMA CurrentStays ==
  ASSUME RingInv, RingInv', event_index' = event_index,
         event_index # NoIndex => entries'[event_index] = entries[event_index]
  PROVE  Current' = Current
  <1>1. CASE event_index = NoIndex
    BY <1>1 DEF Current
  <1>2. CASE event_index # NoIndex
    BY <1>2, TakenIsFree, CurrentNext
  <1>3. QED
    BY <1>1, <1>2

\* app_sched_event_put, when it reserves: the event joins the end of the queue.
LEMMA ReserveIsPut ==
  ASSUME RingInv, RingInv', NEW e \in Events, Reserve(e)
  PROVE  Queue!Put(e)
  <1>1. start \in Index /\ end \in Index /\ start' = start
    BY DEF RingInv, TypeOK, Reserve
  <1>2. Count \in Index /\ Count < QueueSize /\ Count' = Count + 1
    BY <1>1, CountProperties, EndMoves, SchedAssumption DEF Reserve, Index
  <1>3. /\ Waiting \in Seq(Events) /\ Len(Waiting) = Count
        /\ \A k \in 1 .. Count : Waiting[k] = EventAt(After(start, k - 1))
    BY WaitingIsASequence
  <1>4. /\ Waiting' \in Seq(Events) /\ Len(Waiting') = Count + 1
        /\ \A k \in 1 .. Count + 1 : Waiting'[k] = (EventAt(After(start, k - 1)))'
    BY <1>2, WaitingNext
  <1>5. \A k \in 1 .. Count + 1 : Waiting'[k] = EventAt(After(start, k - 1))'
    BY <1>4
  <1>6. ASSUME NEW k \in 1 .. Count PROVE Waiting'[k] = Waiting[k]
    <2>1. k \in 1 .. Count + 1 /\ k - 1 \in Index /\ k - 1 < Count
      BY <1>2, SchedAssumption DEF Index
    <2>2. PICK i \in Index : i = After(start, k - 1)
      BY <1>1, <2>1, OffsetProperties
    <2>3. i # end
      BY <1>1, <2>1, <2>2, OffsetProperties, CountProperties DEF Index
    <2>4. EventAt(i)' = EventAt(i)
      BY <2>3, ReserveEvents
    <2>5. After(start, k - 1)' = i
      BY <1>1, <2>2 DEF After
    <2>6. Waiting'[k] = EventAt(i)'
      BY <2>1, <2>5, <1>4 DEF EventAt
    <2>7. QED
      BY <2>2, <2>4, <2>6, <1>3
  <1>7. Waiting'[Count + 1] = e
    <2>1. PICK i \in Index, k \in 1 .. Count + 1 : i = end /\ k = Count + 1
      BY <1>1, <1>2, SchedAssumption DEF Index
    <2>2. k - 1 = Count
      BY <1>2, <2>1, SchedAssumption DEF Index
    <2>3. After(start, k - 1) = end
      BY <1>1, <2>2, CountProperties, OffsetProperties
    <2>4. After(start, k - 1)' = i
      BY <1>1, <2>1, <2>3 DEF After
    <2>5. Waiting'[k] = EventAt(i)'
      BY <2>4, <1>4 DEF EventAt
    <2>6. QED
      BY <2>1, <2>5, ReserveEvents
  <1>8. Waiting' = Append(Waiting, e)
    <2>1. /\ Append(Waiting, e) \in Seq(Events)
          /\ Len(Append(Waiting, e)) = Count + 1
          /\ \A k \in 1 .. Count : Append(Waiting, e)[k] = Waiting[k]
          /\ Append(Waiting, e)[Count + 1] = e
      BY <1>3, AppendProperties
    <2>2. \A k \in 1 .. Count + 1 : Waiting'[k] = Append(Waiting, e)[k]
      BY <1>2, <1>6, <1>7, <2>1, SchedAssumption DEF Index
    <2>3. QED
      BY <1>4, <2>1, <2>2, SeqEqual
  <1>9. Current' = Current
    BY CurrentStays DEF Reserve, threadVars
  <1>10. QED
    BY <1>2, <1>3, <1>8, <1>9 DEF Queue!Put, Reserve

\* The queue and its length, when neither end nor event moves.
LEMMA WaitingStays ==
  ASSUME RingInv, RingInv', start' = start, end' = end,
         \A i \in Index : EventAt(i)' = EventAt(i)
  PROVE  Waiting' = Waiting
  <1>1. start \in Index
    BY DEF RingInv, TypeOK
  <1>2. Count' = Count
    BY DEF Count
  <1>3. /\ Count \in Index /\ Waiting \in Seq(Events) /\ Len(Waiting) = Count
        /\ \A k \in 1 .. Count : Waiting[k] = EventAt(After(start, k - 1))
    BY WaitingIsASequence
  <1>4. /\ Waiting' \in Seq(Events) /\ Len(Waiting') = Count
        /\ \A k \in 1 .. Count : Waiting'[k] = (EventAt(After(start, k - 1)))'
    BY <1>2, WaitingNext
  <1>5. ASSUME NEW k \in 1 .. Count PROVE Waiting'[k] = Waiting[k]
    <2>1. k - 1 \in Index
      BY <1>3, SchedAssumption DEF Index
    <2>2. PICK i \in Index : i = After(start, k - 1)
      BY <1>1, <2>1, OffsetProperties
    <2>3. After(start, k - 1)' = i
      BY <2>2 DEF After
    <2>4. (EventAt(After(start, k - 1)))' = EventAt(i)'
      BY <2>3, Zenon DEF EventAt
    <2>5. QED
      BY <2>2, <2>4, <1>3, <1>4
  <1>6. QED
    BY <1>3, <1>4, <1>5, SeqEqual

LEMMA RefuseIsRefuse ==
  ASSUME RingInv, RingInv', Refuse
  PROVE  Queue!Refuse
  <1>1. UNCHANGED <<entries, start, end, puts, event_index>>
    BY DEF Refuse, ringVars, threadVars
  <1>2. Waiting' = Waiting /\ Current' = Current
    BY <1>1, WaitingStays, CurrentStays DEF EventAt
  <1>3. Len(Waiting) = Count /\ Count = QueueSize
    BY WaitingIsASequence, CountProperties DEF RingInv, TypeOK, Refuse
  <1>4. QED
    BY <1>2, <1>3 DEF Queue!Refuse, Refuse

\* The copy that ends a put is no step of the queue.
LEMMA FillStutters ==
  ASSUME RingInv, RingInv', Fill
  PROVE  UNCHANGED <<Waiting, Current, refused>>
  <1>1. Waiting' = Waiting
    BY FillEvents, WaitingStays DEF Fill
  <1>2. Current' = Current
    <2>1. event_index # NoIndex => event_index \in Index /\ Current = EventAt(event_index)
      BY TakenIsFree DEF Current
    <2>2. CASE event_index = NoIndex
      BY <2>2 DEF Current, Fill, threadVars
    <2>3. CASE event_index # NoIndex
      <3>1. PICK i \in Index : i = event_index
        BY <2>1, <2>3
      <3>2. event_index' = i
        BY <3>1 DEF Fill, threadVars
      <3>3. Current' = EventAt(i)'
        BY <2>3, <3>1, <3>2 DEF Current, EventAt
      <3>4. QED
        BY <2>1, <2>3, <3>1, <3>3, FillEvents
    <2>4. QED
      BY <2>2, <2>3
  <1>3. QED
    BY <1>1, <1>2 DEF Fill

\* app_sched_event_get, when it advances the start: the head of the queue is the
\* event handled from now on.
LEMMA TakeIsTake ==
  ASSUME RingInv, RingInv', Take
  PROVE  Queue!Take
  <1>1. /\ start \in Index /\ end \in Index /\ puts = <<>> /\ puts' = <<>>
        /\ start' = next_index(start) /\ end' = end /\ ~QueueEmpty
        /\ entries' = entries
    BY DEF RingInv, TypeOK, Take
  <1>2. DOMAIN puts = {} /\ DOMAIN puts' = {}
    BY <1>1
  <1>3. \A i \in Index : EventAt(i) = entries[i] /\ EventAt(i)' = entries[i]
    BY <1>1, <1>2, EventsOfEntries, EventsNext
  <1>4. Count \in 1 .. QueueSize /\ Count' = Count - 1
    BY <1>1, CountProperties, StartMoves, SchedAssumption DEF Index
  <1>5. /\ Waiting \in Seq(Events) /\ Len(Waiting) = Count
        /\ \A k \in 1 .. Count : Waiting[k] = EventAt(After(start, k - 1))
    BY WaitingIsASequence
  <1>6. /\ Waiting' \in Seq(Events) /\ Len(Waiting') = Count - 1
        /\ \A k \in 1 .. Count - 1 : Waiting'[k] = (EventAt(After(start, k - 1)))'
    BY <1>4, WaitingNext
  <1>7. Waiting # <<>>
    BY <1>4, <1>5
  <1>8. /\ Tail(Waiting) \in Seq(Events) /\ Len(Tail(Waiting)) = Count - 1
        /\ \A k \in 1 .. Count - 1 : Tail(Waiting)[k] = Waiting[k + 1]
    BY <1>5, <1>7, HeadTailProperties
  <1>9. ASSUME NEW k \in 1 .. Count - 1 PROVE Waiting'[k] = Tail(Waiting)[k]
    <2>1. k \in Index /\ k - 1 \in Index /\ k + 1 \in 1 .. Count /\ k + 1 - 1 = k
      BY <1>4, SchedAssumption DEF Index
    <2>2. PICK i \in Index : i = After(start, k)
      BY <1>1, <2>1, OffsetProperties
    <2>3. Tail(Waiting)[k] = entries[i]
      BY <2>1, <2>2, <1>3, <1>5, <1>8
    <2>4. After(start', k - 1) = i
      BY <2>2, <1>1, StartMoves
    <2>5. After(start, k - 1)' = i
      BY <2>4 DEF After
    <2>6. Waiting'[k] = EventAt(i)'
      BY <2>5, <1>6 DEF EventAt
    <2>7. QED
      BY <2>3, <2>6, <1>3
  <1>10. Waiting' = Tail(Waiting)
    BY <1>6, <1>8, <1>9, SeqEqual
  <1>11. Head(Waiting) = entries[start]
    <2>1. Head(Waiting) = Waiting[1] /\ 1 \in 1 .. Count
      BY <1>4, <1>5, <1>7
    <2>2. After(start, 1 - 1) = start
      BY <1>1, SchedAssumption DEF After, Index
    <2>3. QED
      BY <2>1, <2>2, <1>1, <1>3, <1>5
  <1>12. event_index' = start /\ start # NoIndex /\ event_index = NoIndex
    BY <1>1, SchedAssumption DEF Take, Index
  <1>13. Current' = entries[start] /\ Current = NoEvent
    BY <1>1, <1>12, CurrentNext DEF Current
  <1>14. QED
    BY <1>7, <1>10, <1>11, <1>13 DEF Queue!Take, Take

LEMMA ReadHeaderStutters ==
  ASSUME RingInv, RingInv', ReadHeader
  PROVE  UNCHANGED <<Waiting, Current, refused>>
  <1>1. UNCHANGED <<entries, start, end, puts, event_index>>
    BY DEF ReadHeader, ringVars
  <1>2. Waiting' = Waiting /\ Current' = Current
    BY <1>1, WaitingStays, CurrentStays DEF EventAt
  <1>3. QED
    BY <1>2 DEF ReadHeader

LEMMA HandledIsFinish ==
  ASSUME RingInv, RingInv', Handled
  PROVE  Queue!Finish
  <1>1. UNCHANGED <<entries, start, end, puts>>
    BY DEF Handled, ringVars
  <1>2. Waiting' = Waiting
    BY <1>1, WaitingStays DEF EventAt
  <1>3. Current # NoEvent
    BY TakenIsFree, SchedAssumption DEF RingInv, Handled
  <1>4. Current' = NoEvent
    BY DEF Current, Handled
  <1>5. QED
    BY <1>2, <1>3, <1>4 DEF Queue!Finish, Handled

\* Every step of the ring is a step of the queue, or none.
LEMMA StepSimulates ==
  ASSUME RingInv, RingInv', [Next]_vars
  PROVE  [Queue!Next]_(Queue!vars)
  <1>1. CASE \E e \in Events : Reserve(e)
    BY <1>1, ReserveIsPut DEF Queue!Next
  <1>2. CASE Refuse
    BY <1>2, RefuseIsRefuse DEF Queue!Next
  <1>3. CASE Fill
    BY <1>3, FillStutters DEF Queue!vars
  <1>4. CASE Take
    BY <1>4, TakeIsTake DEF Queue!Next
  <1>5. CASE ReadHeader
    BY <1>5, ReadHeaderStutters DEF Queue!vars
  <1>6. CASE Handled
    BY <1>6, HandledIsFinish DEF Queue!Next
  <1>7. CASE UNCHANGED vars
    <2>1. UNCHANGED <<entries, start, end, puts, event_index, refused>>
      BY <1>7 DEF vars, ringVars, threadVars
    <2>2. Waiting' = Waiting /\ Current' = Current
      BY <2>1, WaitingStays, CurrentStays DEF EventAt
    <2>3. QED
      BY <2>1, <2>2 DEF Queue!vars
  <1>8. QED
    BY <1>1, <1>2, <1>3, <1>4, <1>5, <1>6, <1>7
       DEF Next, app_sched_event_put, app_sched_execute

LEMMA InitSimulates == Init => Queue!Init
  <1> SUFFICES ASSUME Init PROVE Queue!Init
    OBVIOUS
  <1>1. RingInv
    BY RingInit
  <1>2. Count = 0
    BY DEF Init, Count
  <1>3. Waiting \in Seq(Events) /\ Len(Waiting) = 0
    BY <1>1, <1>2, WaitingIsASequence
  <1>4. Waiting = <<>>
    BY <1>3, EmptySeq
  <1>5. QED
    BY <1>4 DEF Queue!Init, Init, Current

\* The safety half of KeepsQueue: for every size of the ring and every number of
\* interrupt levels, app_sched_event_put and app_sched_execute lose no event,
\* double none, keep the order, and refuse one only when QueueSize wait.
THEOREM RingIsAQueue == Spec => Queue!SafeSpec
  <1>1. RingInv /\ RingInv' /\ [Next]_vars => [Queue!Next]_(Queue!vars)
    BY StepSimulates
  <1>2. QED
    BY <1>1, InitSimulates, RingHolds, PTL DEF Spec, Queue!SafeSpec
===============================================================================
