--------------------------- MODULE TwiMasterProofs ----------------------------
(***************************************************************************)
(* The I2C master, for all registers, lengths and sizes of the slave, and  *)
(* for every sequence of accesses and faults: the four invariants of       *)
(* TwiMaster.  What each party may be doing is stated for every place      *)
(* main() can be at.                                                       *)
(***************************************************************************)
EXTENDS TwiMaster, SequenceTheorems, TLAPS

Places == {"idle", "boundary", "shift", "after", "wait", "suspended", "stopping", "hung"}
Events == [txdsent : BOOLEAN, rxdready : BOOLEAN, error : BOOLEAN, stopped : BOOLEAN]
Channels == [task : {"suspend", "stop"}, on : BOOLEAN]

TwiType ==
    /\ pc \in {"idle", "clear", "start", "poll", "resume", "stop"}
    /\ transfer \in {"write", "address", "read"}
    /\ done \in Nat /\ okay \in BOOLEAN
    /\ hw \in Places
    /\ receiving \in BOOLEAN /\ txd \in Nat /\ rxd \in Nat
    /\ event \in Events /\ ppi \in Channels
    /\ at_boundary \in {"none", "suspend", "stop"}
    /\ pointer \in Nat /\ stuck \in BOOLEAN /\ slow \in BOOLEAN /\ fault \in BOOLEAN
    /\ pc # "idle" =>
          /\ op \in Ops /\ (transfer = "write" <=> op.kind = "write")
          /\ buffer \in [1..op.len -> Nat \cup {Unwritten}]

\* Whatever can make a transfer fail is a fault of this access, or a lock-up not
\* yet recovered from.
FaultInv ==
    /\ lasting \in BOOLEAN
    /\ hw = "hung" => lasting
    /\ pc # "idle" /\ lasting => fault
    /\ slow => fault
    /\ event.error => fault
    /\ ~okay => fault

Silent == ~event.txdsent /\ ~event.error /\ ~ppi.on

\* The slave took the bytes 1 to n, in order.
Counted(n) == [k \in 1..n |-> k]

\* The first n bytes of a read whose register number was taken are in the buffer.
Filled(n) == okay => \A k \in 1..n : buffer[k] = op.reg + k - 1

\* ... and the slave is about to send the one after them.
Ahead(n) == okay => pointer = op.reg + n

\* Between two transfers: the bus may still be ending a read, whose wait for the
\* STOP was passed on an earlier one, or rest after the register number.
RestInv ==
    pc \in {"idle", "clear"} =>
        /\ Silent
        /\ \/ hw \in {"idle", "stopping", "hung"}
           \/ hw = "after" /\ at_boundary = "stop"
           \/ /\ pc = "clear" /\ hw \in {"after", "wait"}
              /\ ~receiving /\ txd = 0 /\ (hw = "after" => at_boundary = "none")
        /\ pc = "clear" /\ Reading => Ahead(0)

StartInv ==
    pc = "start" =>
        /\ Silent /\ hw \in {"idle", "hung"}
        /\ Reading => Ahead(0)

\* A byte to send is in TXD, on the bus, or acknowledged.
TransmitInv ==
    pc = "poll" /\ ~Reading =>
        /\ ~receiving /\ ~ppi.on /\ done < Length
        /\ \/ /\ hw \in {"boundary", "shift", "after"}
              /\ hw # "boundary" => at_boundary = "none"
              /\ ~event.error /\ ~event.txdsent
              /\ txd = done + 1 /\ got = Counted(done)
           \/ /\ hw \in {"after", "wait"}
              /\ hw = "after" => at_boundary = "none"
              /\ ~event.error /\ event.txdsent
              /\ txd = 0 /\ got = Counted(done + 1)
              /\ done = 0 => pointer = op.reg
           \/ hw = "wait" /\ event.error
           \/ hw = "hung" /\ ~event.error /\ ~event.txdsent

WriteStopInv ==
    pc = "stop" /\ ~Reading =>
        /\ Silent /\ transfer = "write"
        /\ got = Counted(op.len + 1)
        /\ \/ hw = "idle"
           \/ hw \in {"stopping", "hung"} /\ ~event.stopped

\* The byte in RXD is the one after those main() has seen; the task of PPI at its
\* boundary was the one for it.
Arrived ==
    /\ okay => rxd = op.reg + done
    /\ done + 1 < op.len => Ahead(done + 1)

ReceiveInv ==
    pc = "poll" /\ Reading =>
        /\ receiving /\ ~event.txdsent /\ done < op.len
        /\ ppi.on /\ ppi.task = PpiTask(op.len - done)
        /\ Filled(done)
        /\ \/ /\ hw \in {"boundary", "shift"} /\ ~event.error /\ ~event.rxdready
              /\ hw = "shift" => at_boundary = PpiTask(op.len - done)
              /\ Ahead(done)
           \/ /\ hw = "after" /\ ~event.error /\ event.rxdready /\ Arrived
              /\ at_boundary = PpiTask(op.len - done)
           \/ /\ hw = "suspended" /\ ~event.error /\ event.rxdready /\ Arrived
              /\ done + 1 < op.len
           \/ /\ hw \in {"stopping", "idle", "hung"} /\ ~event.error /\ event.rxdready /\ Arrived
              /\ done + 1 = op.len
           \/ hw = "hung" /\ ~event.error /\ ~event.rxdready
           \/ hw = "wait" /\ event.error

ResumeInv ==
    pc = "resume" =>
        /\ Reading /\ receiving /\ ~event.txdsent /\ ~event.error /\ ~event.rxdready
        /\ done < op.len /\ ppi.on /\ ppi.task = PpiTask(op.len - done)
        /\ Filled(done) /\ Ahead(done)
        /\ hw = "suspended" \/ (hw = "after" /\ at_boundary = "suspend")

ReadStopInv ==
    pc = "stop" /\ Reading =>
        /\ ~event.txdsent /\ ~event.error
        /\ Filled(op.len)
        /\ hw \in {"stopping", "idle", "hung"} \/ (hw = "after" /\ at_boundary = "stop")

\* What an access that succeeded leaves behind.
ResultInv ==
    pc = "idle" /\ okay =>
        /\ op.kind = "write" => got = Counted(op.len + 1) /\ hw = "idle"
        /\ op.kind \in {"read_bytes", "read_byte"} =>
              buffer = [k \in 1..op.len |-> op.reg + k - 1]

TwiInv ==
    /\ TwiType /\ FaultInv /\ RestInv /\ StartInv /\ TransmitInv /\ WriteStopInv
    /\ ReceiveInv /\ ResumeInv /\ ReadStopInv /\ ResultInv

-------------------------------------------------------------------------------
(* The constants, the bytes of a message and the pointer of the slave.     *)

LEMMA EventFacts ==
  ASSUME NEW e \in Events, NEW b \in BOOLEAN
  PROVE  /\ e.txdsent \in BOOLEAN /\ e.rxdready \in BOOLEAN
         /\ e.error \in BOOLEAN /\ e.stopped \in BOOLEAN
         /\ [e EXCEPT !.txdsent = b] \in Events
         /\ [e EXCEPT !.rxdready = b] \in Events
         /\ [e EXCEPT !.error = b] \in Events
         /\ [e EXCEPT !.stopped = b] \in Events
         /\ [e EXCEPT !.txdsent = b, !.stopped = b] \in Events
  BY DEF Events

LEMMA OpFacts ==
  ASSUME NEW o \in Ops
  PROVE  /\ o.kind \in {"write", "read_bytes", "read_byte"}
         /\ o.reg \in Nat /\ o.len \in Nat /\ o.len >= 1
         /\ FileSize \in Nat /\ o.reg + o.len <= FileSize
  <1>1. o.kind \in {"write", "read_bytes", "read_byte"} /\ o.reg \in Registers
        /\ o.len \in Lengths
    BY DEF Ops
  <1>2. /\ FileSize \in Nat /\ Registers \subseteq Nat /\ Lengths \subseteq Nat \ {0}
        /\ \A r \in Registers, l \in Lengths : r + l <= FileSize
    BY TwiAssumption DEF TwiAssumption
  <1>3. o.reg \in Nat /\ o.len \in Nat /\ o.len # 0
    BY <1>1, <1>2
  <1>4. o.reg + o.len <= FileSize
    BY <1>1, <1>2
  <1>5. o.len >= 1
    BY <1>3
  <1>6. QED
    BY <1>1, <1>2, <1>3, <1>4, <1>5

LEMMA CountedNone == Counted(0) = << >>
  BY DEF Counted

LEMMA CountedMore ==
  ASSUME NEW n \in Nat
  PROVE  /\ Append(Counted(n), n + 1) = Counted(n + 1)
         /\ n > 0 => Counted(n) # << >>
  <1>1. Counted(n) \in Seq(Nat) /\ Len(Counted(n)) = n
    BY DEF Counted
  <1>2. Counted(n + 1) \in Seq(Nat) /\ Len(Counted(n + 1)) = n + 1
    BY DEF Counted
  <1>3. /\ Append(Counted(n), n + 1) \in Seq(Nat)
        /\ Len(Append(Counted(n), n + 1)) = n + 1
        /\ \A k \in 1..n : Append(Counted(n), n + 1)[k] = Counted(n)[k]
        /\ Append(Counted(n), n + 1)[n + 1] = n + 1
    BY <1>1, AppendProperties
  <1>4. ASSUME NEW k \in 1..n + 1
        PROVE  Append(Counted(n), n + 1)[k] = Counted(n + 1)[k]
    <2>1. Counted(n + 1)[k] = k
      BY DEF Counted
    <2>2. CASE k \in 1..n
      BY <1>3, <2>1, <2>2 DEF Counted
    <2>3. CASE k = n + 1
      BY <1>3, <2>1, <2>3
    <2>4. k \in 1..n \/ k = n + 1
      OBVIOUS
    <2>5. QED
      BY <2>2, <2>3, <2>4
  <1>5. Append(Counted(n), n + 1) = Counted(n + 1)
    BY <1>2, <1>3, <1>4, SeqEqual
  <1>6. QED
    BY <1>1, <1>5

\* The pointer does not wrap inside an access.
LEMMA PointerMoves ==
  ASSUME NEW n \in Nat, FileSize \in Nat, n + 1 < FileSize
  PROVE  (n + 1) % FileSize = n + 1
  OBVIOUS

LEMMA PointerStays ==
  ASSUME NEW n \in Nat, FileSize \in Nat, FileSize >= 1
  PROVE  (n + 1) % FileSize \in Nat
  OBVIOUS

LEMMA TwiInit == Init => TwiInv
  <1> SUFFICES ASSUME Init PROVE TwiInv
    OBVIOUS
  <1>1. TwiType
    BY DEF Init, TwiType, Places, Events, Channels
  <1>2. QED
    BY <1>1
       DEF Init, TwiInv, FaultInv, RestInv, StartInv, TransmitInv, WriteStopInv,
           ReceiveInv, ResumeInv, ReadStopInv, ResultInv, Silent

-------------------------------------------------------------------------------
(* main().                                                                 *)

LEMMA AccessStep ==
  ASSUME TwiInv, Access
  PROVE  TwiInv'
  <1>1. /\ pc = "idle" /\ pc' = "clear" /\ op' \in Ops
        /\ transfer' = IF op'.kind = "write" THEN "write" ELSE "address"
        /\ okay' = TRUE /\ buffer' = [k \in 1..op'.len |-> Unwritten]
        /\ done' = 0 /\ fault' = lasting /\ slow' = FALSE
        /\ UNCHANGED <<twi, pointer, got, stuck, lasting>>
    BY DEF Access
  <1>2. TwiType'
    <2>1. buffer' \in [1..op'.len -> Nat \cup {Unwritten}]
      BY <1>1
    <2>2. transfer' \in {"write", "address"} /\ (transfer' = "write" <=> op'.kind = "write")
      BY <1>1
    <2>3. done' \in Nat /\ okay' \in BOOLEAN /\ slow' \in BOOLEAN /\ fault' \in BOOLEAN
      BY <1>1 DEF TwiInv, FaultInv
    <2>4. QED
      BY <1>1, <2>1, <2>2, <2>3 DEF TwiInv, TwiType, twi
  <1>3. FaultInv' /\ RestInv'
    BY <1>1 DEF TwiInv, TwiType, FaultInv, RestInv, Silent, Reading, twi
  <1>4. QED
    BY <1>1, <1>2, <1>3
       DEF TwiInv, StartInv, TransmitInv, WriteStopInv, ReceiveInv, ResumeInv,
           ReadStopInv, ResultInv

\* A transfer ends with the bus at rest and the events taken.
LEMMA EndTransferStep ==
  ASSUME TwiType, pc # "idle", FaultInv',
         NEW succeeded \in BOOLEAN, EndTransfer(succeeded), UNCHANGED buffer,
         /\ done' \in Nat /\ hw' \in {"idle", "after", "wait", "stopping", "hung"}
         /\ receiving' \in BOOLEAN /\ txd' \in Nat /\ rxd' \in Nat
         /\ event' \in Events /\ ppi' \in Channels
         /\ at_boundary' \in {"none", "suspend", "stop"}
         /\ pointer' \in Nat /\ stuck' \in BOOLEAN /\ slow' \in BOOLEAN
         /\ fault' \in BOOLEAN,
         Silent',
         \/ hw' \in {"idle", "stopping", "hung"}
         \/ hw' = "after" /\ at_boundary' = "stop"
         \/ /\ transfer = "address" /\ hw' \in {"after", "wait"}
            /\ ~receiving' /\ txd' = 0 /\ (hw' = "after" => at_boundary' = "none"),
         transfer = "address" /\ succeeded => pointer' = op.reg,
         transfer = "write" /\ succeeded => got' = Counted(op.len + 1) /\ hw' = "idle",
         transfer = "read" /\ succeeded => Filled(op.len)
  PROVE  TwiInv'
  <1>1. okay' = (okay /\ succeeded) /\ op' = op /\ op \in Ops
        /\ (transfer = "write" <=> op.kind = "write")
        /\ buffer \in [1..op.len -> Nat \cup {Unwritten}]
    BY DEF EndTransfer, TwiType
  <1>2. CASE transfer = "address"
    <2>1. transfer' = "read" /\ pc' = "clear"
      BY <1>2 DEF EndTransfer
    <2>2. TwiType'
      BY <1>1, <1>2, <2>1 DEF TwiType, Places
    <2>3. Ahead(0)'
      BY <1>1, <1>2, OpFacts DEF Ahead
    <2>4. RestInv'
      BY <1>2, <2>1, <2>3 DEF RestInv
    <2>5. QED
      BY <2>1, <2>2, <2>4
         DEF TwiInv, StartInv, TransmitInv, WriteStopInv, ReceiveInv, ResumeInv,
             ReadStopInv, ResultInv
  <1>3. CASE transfer # "address"
    <2>1. transfer' = transfer /\ pc' = "idle"
      BY <1>3 DEF EndTransfer
    <2>2. TwiType'
      BY <1>1, <1>3, <2>1 DEF TwiType, Places
    <2>3. RestInv'
      BY <1>3, <2>1 DEF RestInv
    <2>4. ASSUME okay' PROVE succeeded /\ okay
      BY <1>1, <2>4 DEF TwiType
    <2>5. ASSUME okay', op.kind \in {"read_bytes", "read_byte"}
          PROVE  buffer = [k \in 1..op.len |-> op.reg + k - 1]
      <3>1. Filled(op.len) /\ okay
        BY <1>1, <1>3, <2>4, <2>5 DEF TwiType
      <3>2. \A k \in 1..op.len : buffer[k] = op.reg + k - 1
        BY <3>1 DEF Filled
      <3>3. QED
        BY <1>1, <3>2
    <2>6. ResultInv'
      BY <1>1, <1>3, <2>1, <2>4, <2>5 DEF ResultInv
    <2>7. QED
      BY <2>1, <2>2, <2>3, <2>6
         DEF TwiInv, StartInv, TransmitInv, WriteStopInv, ReceiveInv, ResumeInv,
             ReadStopInv
  <1>4. QED
    BY <1>2, <1>3

\* No conjunct of the invariant but those of its place says anything.
LEMMA ClearBusStep ==
  ASSUME TwiInv, twi_master_clear_bus
  PROVE  TwiInv'
  <1>1. /\ pc = "clear" /\ hw' = IF hw = "hung" THEN hw ELSE "idle"
        /\ UNCHANGED <<done, buffer, receiving, txd, rxd, event, ppi, at_boundary, pointer,
                       got, stuck, slow, lasting>>
    BY DEF twi_master_clear_bus
  <1>2. TwiType /\ FaultInv /\ Silent /\ (Reading => Ahead(0))
    BY <1>1 DEF TwiInv, RestInv
  <1>3. Silent'
    BY <1>1, <1>2 DEF Silent
  <1>4. CASE stuck
    <2>1. EndTransfer(FALSE) /\ fault' = TRUE
      BY <1>4 DEF twi_master_clear_bus
    <2>2. FaultInv'
      BY <1>1, <1>2, <2>1 DEF FaultInv
    <2>3. QED
      <3>1. hw' \in {"idle", "hung"} /\ fault' \in BOOLEAN /\ pc # "idle"
        BY <1>1, <2>1
      <3>2. /\ done' \in Nat /\ receiving' \in BOOLEAN /\ txd' \in Nat /\ rxd' \in Nat
            /\ event' \in Events /\ ppi' \in Channels
            /\ at_boundary' \in {"none", "suspend", "stop"}
            /\ pointer' \in Nat /\ stuck' \in BOOLEAN /\ slow' \in BOOLEAN
            /\ UNCHANGED buffer
        BY <1>1, <1>2 DEF TwiType
      <3>3. QED
        BY <1>2, <1>3, <2>1, <2>2, <3>1, <3>2, EndTransferStep
  <1>5. CASE ~stuck
    <2>1. pc' = "start" /\ UNCHANGED <<op, transfer, okay, fault>>
      BY <1>5 DEF twi_master_clear_bus
    <2>2. TwiType'
      BY <1>1, <1>2, <2>1 DEF TwiType, Places
    <2>3. FaultInv'
      BY <1>1, <1>2, <2>1 DEF FaultInv
    <2>4. StartInv'
      BY <1>1, <1>2, <1>3, <2>1 DEF StartInv, Reading, Ahead
    <2>5. QED
      BY <2>1, <2>2, <2>3, <2>4
         DEF TwiInv, RestInv, TransmitInv, WriteStopInv, ReceiveInv, ResumeInv,
             ReadStopInv, ResultInv
  <1>6. QED
    BY <1>4, <1>5

LEMMA StartTxStep ==
  ASSUME TwiInv, StartTx
  PROVE  TwiInv'
  <1>1. /\ pc = "start" /\ ~Reading /\ pc' = "poll" /\ txd' = 1 /\ done' = 0
        /\ hw' = (IF hw = "hung" THEN hw ELSE "boundary")
        /\ receiving' = FALSE /\ got' = << >>
        /\ UNCHANGED <<op, transfer, okay, buffer, rxd, event, ppi, at_boundary, pointer,
                       stuck, slow, fault, lasting>>
    BY DEF StartTx, Started
  <1>2. TwiType /\ FaultInv /\ Silent /\ hw \in {"idle", "hung"}
    BY <1>1 DEF TwiInv, StartInv
  <1>3. TwiType'
    <2>1. hw' \in Places
      BY <1>1, <1>2 DEF Places
    <2>2. QED
      BY <1>1, <1>2, <2>1 DEF TwiType
  <1>4. FaultInv'
    BY <1>1, <1>2 DEF FaultInv
  <1>5. Length' = Length /\ 0 < Length /\ ~Reading'
    BY <1>1, <1>2, OpFacts DEF Length, Reading, TwiType
  <1>6. TransmitInv'
    BY <1>1, <1>2, <1>5, CountedNone DEF TransmitInv, Silent
  <1>7. QED
    BY <1>1, <1>3, <1>4, <1>5, <1>6
       DEF TwiInv, RestInv, StartInv, WriteStopInv, ReceiveInv, ResumeInv, ReadStopInv,
           ResultInv

LEMMA StartRxStep ==
  ASSUME TwiInv, StartRx
  PROVE  TwiInv'
  <1>1. /\ pc = "start" /\ Reading /\ pc' = "poll" /\ done' = 0
        /\ ppi' = [task |-> PpiTask(op.len), on |-> TRUE]
        /\ event' = [event EXCEPT !.rxdready = FALSE]
        /\ hw' = (IF hw = "hung" THEN hw ELSE "boundary")
        /\ receiving' = TRUE
        /\ UNCHANGED <<op, transfer, okay, buffer, txd, rxd, at_boundary, slave>>
    BY DEF StartRx, Started, Channel
  <1>2. TwiType /\ FaultInv /\ Silent /\ hw \in {"idle", "hung"} /\ Ahead(0)
    BY <1>1 DEF TwiInv, StartInv
  <1>3. TwiType'
    <2>1. hw' \in Places /\ ppi' \in Channels /\ event' \in Events
      BY <1>1, <1>2, EventFacts DEF Places, Channels, PpiTask, TwiType
    <2>2. QED
      BY <1>1, <1>2, <2>1 DEF TwiType, slave
  <1>4. FaultInv'
    BY <1>1, <1>2 DEF FaultInv, TwiType, slave, Events
  <1>5. op \in Ops /\ op.len \in Nat /\ op.len >= 1 /\ op.len - 0 = op.len
    BY <1>1, <1>2, OpFacts DEF TwiType
  <1>6. Filled(0)' /\ Ahead(0)'
    BY <1>1, <1>2 DEF Filled, Ahead, slave
  <1>7. ReceiveInv'
    BY <1>1, <1>2, <1>5, <1>6 DEF ReceiveInv, Silent, TwiType, Filled, Ahead, PpiTask, Events
  <1>8. QED
    BY <1>1, <1>3, <1>4, <1>7
       DEF TwiInv, RestInv, StartInv, TransmitInv, WriteStopInv, ResumeInv, ReadStopInv,
           ResultInv, Reading

\* The driver goes on to the next byte, to the STOP, or to the read.
LEMMA SentStep ==
  ASSUME TwiInv, Sent
  PROVE  TwiInv'
  <1>1. /\ pc = "poll" /\ ~Reading /\ event.txdsent /\ ~event.error
        /\ done' = done + 1
        /\ UNCHANGED <<buffer, receiving, rxd, ppi, at_boundary, slave>>
    BY DEF Sent
  <1>2. TwiType /\ FaultInv
    BY DEF TwiInv
  <1>3. /\ hw \in {"after", "wait"} /\ (hw = "after" => at_boundary = "none")
        /\ txd = 0 /\ got = Counted(done + 1) /\ (done = 0 => pointer = op.reg)
        /\ ~receiving /\ ~ppi.on /\ done < Length
    BY <1>1 DEF TwiInv, TransmitInv
  <1>4. op \in Ops /\ op.len \in Nat /\ op.len >= 1
    BY <1>1, <1>2, OpFacts DEF TwiType
  <1>5. CASE More(done')
    <2>1. /\ event' = [event EXCEPT !.txdsent = FALSE]
          /\ txd' = done' + 1 /\ hw' = (IF hw = "wait" THEN "boundary" ELSE hw)
          /\ UNCHANGED <<pc, op, transfer, okay>>
      BY <1>5 DEF Sent
    <2>2. TwiType'
      <3>1. hw' \in Places /\ event' \in Events
        BY <1>2, <1>3, <2>1, EventFacts DEF Places, TwiType
      <3>2. done' \in Nat /\ txd' \in Nat
        BY <1>1, <1>2, <2>1 DEF TwiType
      <3>3. QED
        BY <1>1, <1>2, <2>1, <3>1, <3>2 DEF TwiType, slave
    <2>3. FaultInv'
      BY <1>1, <1>2, <1>3, <2>1 DEF FaultInv, TwiType, slave, Events
    <2>4. done' < Length' /\ ~Reading'
      BY <1>1, <1>5, <2>1 DEF More, Length, Reading
    <2>5. ~event'.error /\ ~event'.txdsent
      BY <1>1, <1>2, <2>1 DEF TwiType
    <2>6. TransmitInv'
      BY <1>1, <1>3, <2>1, <2>4, <2>5 DEF TransmitInv, slave
    <2>7. QED
      BY <1>1, <2>1, <2>2, <2>3, <2>4, <2>6
         DEF TwiInv, RestInv, StartInv, WriteStopInv, ReceiveInv, ResumeInv,
             ReadStopInv, ResultInv
  <1>6. CASE ~More(done') /\ transfer = "write"
    <2>1. Stop
      BY <1>6 DEF Sent
    <2>2. /\ event' = [event EXCEPT !.txdsent = FALSE, !.stopped = FALSE]
          /\ hw' = "stopping" /\ pc' = "stop"
          /\ UNCHANGED <<op, transfer, okay, txd>>
      BY <1>3, <2>1 DEF Stop
    <2>3. done + 1 = op.len + 1
      BY <1>1, <1>2, <1>3, <1>4, <1>6 DEF More, Length, Reading, TwiType
    <2>4. ~event'.error /\ ~event'.txdsent /\ ~event'.stopped
      BY <1>1, <1>2, <2>2 DEF TwiType, Events
    <2>5. TwiType'
      <3>1. hw' \in Places /\ event' \in Events
        BY <1>2, <2>2, EventFacts DEF Places, TwiType
      <3>2. done' \in Nat
        BY <1>1, <1>2 DEF TwiType
      <3>3. QED
        BY <1>1, <1>2, <2>2, <3>1, <3>2 DEF TwiType, slave
    <2>6. FaultInv'
      BY <1>1, <1>2, <2>2, <2>4 DEF FaultInv, slave, Events
    <2>7. WriteStopInv'
      BY <1>1, <1>3, <1>6, <2>2, <2>3, <2>4 DEF WriteStopInv, Silent, slave
    <2>8. QED
      BY <1>1, <2>2, <2>5, <2>6, <2>7
         DEF TwiInv, RestInv, StartInv, TransmitInv, ReceiveInv, ResumeInv,
             ReadStopInv, ResultInv, Reading
  <1>7. CASE ~More(done') /\ transfer = "address"
    <2>1. event' = [event EXCEPT !.txdsent = FALSE] /\ EndTransfer(TRUE)
          /\ UNCHANGED <<hw, txd>>
      BY <1>7 DEF Sent
    <2>2. done = 0
      BY <1>2, <1>3, <1>7 DEF Length, Reading, TwiType
    <2>3. event' \in Events
      BY <1>2, <2>1, EventFacts DEF TwiType
    <2>4. Silent'
      BY <1>1, <1>2, <1>3, <2>1 DEF TwiType, Silent, Events
    <2>5. FaultInv'
      BY <1>1, <1>2, <1>7, <2>1, <2>4 DEF FaultInv, Silent, EndTransfer, slave
    <2>6. /\ done' \in Nat /\ hw' \in {"after", "wait"} /\ txd' = 0
          /\ receiving' \in BOOLEAN /\ rxd' \in Nat /\ ppi' \in Channels
          /\ at_boundary' \in {"none", "suspend", "stop"}
          /\ pointer' \in Nat /\ stuck' \in BOOLEAN /\ slow' \in BOOLEAN
          /\ fault' \in BOOLEAN /\ UNCHANGED buffer /\ pc # "idle"
      BY <1>1, <1>2, <1>3, <2>1 DEF TwiType, slave
    <2>7. pointer' = op.reg /\ ~receiving' /\ (hw' = "after" => at_boundary' = "none")
      BY <1>1, <1>3, <2>1, <2>2 DEF slave
    <2>8. \/ hw' \in {"idle", "stopping", "hung"}
          \/ hw' = "after" /\ at_boundary' = "stop"
          \/ /\ transfer = "address" /\ hw' \in {"after", "wait"}
             /\ ~receiving' /\ txd' = 0 /\ (hw' = "after" => at_boundary' = "none")
      BY <1>7, <2>6, <2>7
    <2>9. transfer \notin {"write", "read"} /\ pointer' = op.reg
          /\ hw' \in {"idle", "after", "wait", "stopping", "hung"} /\ txd' \in Nat
      BY <1>7, <2>6, <2>7
    <2>10. QED
      BY <1>2, <2>1, <2>3, <2>4, <2>5, <2>6, <2>8, <2>9, EndTransferStep
  <1>8. QED
    BY <1>1, <1>2, <1>5, <1>6, <1>7 DEF TwiType, Reading

\* A byte is taken: the next boundary is the last one's when one is left.
LEMMA ReceivedStep ==
  ASSUME TwiInv, Received
  PROVE  TwiInv'
  <1>1. /\ pc = "poll" /\ Reading /\ event.rxdready /\ ~event.error
        /\ event' = [event EXCEPT !.rxdready = FALSE] /\ done' = done + 1
        /\ buffer' = [buffer EXCEPT ![done + 1] = rxd]
        /\ ppi' = [ppi EXCEPT !.task = NextTask(op.len - (done + 1))]
        /\ pc' = IF done + 1 = op.len THEN "stop" ELSE "resume"
        /\ UNCHANGED <<op, transfer, okay, hw, receiving, txd, rxd, at_boundary, slave>>
    BY DEF Received
  <1>2. TwiType /\ FaultInv
    BY DEF TwiInv
  <1>3. /\ receiving /\ ~event.txdsent /\ done < op.len
        /\ ppi.on /\ ppi.task = PpiTask(op.len - done)
        /\ Filled(done) /\ Arrived
        /\ \/ hw = "after" /\ at_boundary = PpiTask(op.len - done)
           \/ hw = "suspended" /\ done + 1 < op.len
           \/ hw \in {"stopping", "idle", "hung"} /\ done + 1 = op.len
    BY <1>1, <1>2 DEF TwiInv, ReceiveInv
  <1>4. op \in Ops /\ op.len \in Nat /\ op.reg \in Nat /\ done \in Nat /\ done + 1 <= op.len
        /\ done + 1 \in 1..op.len /\ op.len - (done + 1) \in Nat
        /\ buffer \in [1..op.len -> Nat \cup {Unwritten}]
    BY <1>1, <1>2, <1>3, OpFacts DEF TwiType
  <1>5. TwiType'
    <2>1. event' \in Events
      BY <1>1, <1>2, EventFacts DEF TwiType
    <2>2. ppi' \in Channels
      BY <1>1, <1>2 DEF TwiType, Channels, NextTask, PpiTask
    <2>3. buffer' \in [1..op.len -> Nat \cup {Unwritten}]
      BY <1>1, <1>2, <1>4 DEF TwiType
    <2>4. done' \in Nat /\ pc' \in {"stop", "resume"}
      BY <1>1, <1>4
    <2>5. QED
      BY <1>1, <1>2, <1>4, <2>1, <2>2, <2>3, <2>4 DEF TwiType, slave
  <1>6. ~event'.error /\ ~event'.rxdready /\ ~event'.txdsent
    BY <1>1, <1>2, <1>3 DEF TwiType, Events
  <1>7. FaultInv'
    BY <1>1, <1>2, <1>6 DEF FaultInv, slave
  <1>8. Filled(done)'
    <2>1. ASSUME okay, NEW k \in 1..done + 1 PROVE buffer'[k] = op.reg + k - 1
      <3>1. CASE k = done + 1
        BY <1>1, <1>3, <1>4, <2>1, <3>1 DEF Arrived
      <3>2. CASE k \in 1..done
        BY <1>1, <1>3, <1>4, <2>1, <3>2 DEF Filled
      <3>3. QED
        BY <1>4, <3>1, <3>2
    <2>2. QED
      BY <1>1, <2>1 DEF Filled
  <1>9. CASE done + 1 = op.len
    <2>1. /\ pc' = "stop"
          /\ \/ hw' \in {"stopping", "idle", "hung"}
             \/ hw' = "after" /\ at_boundary' = "stop"
      <3>1. op.len - done = 1
        BY <1>4, <1>9
      <3>2. PpiTask(op.len - done) = "stop" /\ ~(done + 1 < op.len)
        BY <1>4, <1>9, <3>1 DEF PpiTask
      <3>3. QED
        BY <1>1, <1>3, <1>9, <3>2
    <2>2. ReadStopInv'
      BY <1>1, <1>6, <1>8, <1>9, <2>1 DEF ReadStopInv, Filled
    <2>3. QED
      BY <1>1, <1>5, <1>7, <2>1, <2>2
         DEF TwiInv, RestInv, StartInv, TransmitInv, WriteStopInv, ReceiveInv, ResumeInv,
             ResultInv, Reading
  <1>10. CASE done + 1 # op.len
    <2>1. pc' = "resume" /\ done' < op.len
      BY <1>1, <1>4, <1>10
    <2>2. op.len - done # 1
      BY <1>4, <1>10
    <2>3. hw' = "suspended" \/ (hw' = "after" /\ at_boundary' = "suspend")
      BY <1>1, <1>3, <1>10, <2>2 DEF PpiTask
    <2>4. ppi'.on /\ ppi'.task = PpiTask(op.len - done')
      BY <1>1, <1>2, <1>3, <1>4, <2>2 DEF TwiType, Channels, NextTask, PpiTask
    <2>5. Ahead(done)'
      BY <1>1, <1>3, <1>4, <1>10 DEF Arrived, Ahead, slave
    <2>6. ResumeInv'
      BY <1>1, <1>3, <1>6, <1>8, <2>1, <2>3, <2>4, <2>5
         DEF ResumeInv, Filled, Ahead, Reading
    <2>7. QED
      BY <1>1, <1>5, <1>7, <2>1, <2>6
         DEF TwiInv, RestInv, StartInv, TransmitInv, WriteStopInv, ReceiveInv,
             ReadStopInv, ResultInv, Reading
  <1>11. QED
    BY <1>9, <1>10

LEMMA ResumeStep ==
  ASSUME TwiInv, Resume
  PROVE  TwiInv'
  <1>1. /\ pc = "resume" /\ hw # "after" /\ pc' = "poll"
        /\ hw' = IF hw = "suspended" THEN "boundary" ELSE hw
        /\ UNCHANGED <<op, transfer, done, okay, buffer, receiving, txd, rxd, event, ppi,
                       at_boundary, slave>>
    BY DEF Resume, DelayOver
  <1>2. TwiType /\ FaultInv /\ ResumeInv
    BY DEF TwiInv
  <1>3. hw' = "boundary"
    BY <1>1, <1>2 DEF ResumeInv
  <1>4. TwiType'
    BY <1>1, <1>2, <1>3 DEF TwiType, Places, slave
  <1>5. FaultInv'
    BY <1>1, <1>2, <1>3 DEF FaultInv, slave
  <1>6. ReceiveInv'
    BY <1>1, <1>2, <1>3 DEF ResumeInv, ReceiveInv, Reading, Filled, Ahead, slave
  <1>7. QED
    BY <1>1, <1>2, <1>4, <1>5, <1>6
       DEF TwiInv, RestInv, StartInv, TransmitInv, WriteStopInv, ResumeInv, ReadStopInv,
           ResultInv, Reading

LEMMA StoppedStep ==
  ASSUME TwiInv, Stopped
  PROVE  TwiInv'
  <1>1. pc = "stop" /\ event.stopped /\ EndTransfer(TRUE)
        /\ UNCHANGED <<done, buffer, hw, receiving, txd, rxd, at_boundary, slave>>
    BY DEF Stopped
  <1>2. TwiType /\ FaultInv /\ WriteStopInv /\ ReadStopInv
    BY DEF TwiInv
  <1>3. okay' = okay /\ op \in Ops
    BY <1>1, <1>2 DEF EndTransfer, TwiType
  <1>4. CASE Reading
    <2>1. /\ event' = [event EXCEPT !.stopped = FALSE] /\ ppi' = [ppi EXCEPT !.on = FALSE]
      BY <1>4 DEF Stopped
    <2>2. /\ ~event.txdsent /\ ~event.error /\ Filled(op.len) /\ transfer = "read"
          /\ hw \in {"stopping", "idle", "hung"} \/ (hw = "after" /\ at_boundary = "stop")
      BY <1>1, <1>2, <1>4 DEF ReadStopInv, Reading
    <2>3. event' \in Events /\ ppi' \in Channels
      BY <1>2, <2>1, EventFacts DEF TwiType, Channels
    <2>4. Silent'
      BY <1>2, <2>1, <2>2 DEF TwiType, Silent, Events, Channels
    <2>5. FaultInv'
      BY <1>1, <1>2, <1>3, <2>4 DEF FaultInv, Silent, slave
    <2>6. /\ done' \in Nat /\ txd' \in Nat
          /\ hw' \in {"idle", "after", "wait", "stopping", "hung"}
          /\ receiving' \in BOOLEAN /\ rxd' \in Nat
          /\ at_boundary' \in {"none", "suspend", "stop"}
          /\ pointer' \in Nat /\ stuck' \in BOOLEAN /\ slow' \in BOOLEAN
          /\ fault' \in BOOLEAN /\ UNCHANGED buffer /\ pc # "idle"
      BY <1>1, <1>2, <2>2 DEF TwiType, slave
    <2>7. hw' \in {"idle", "stopping", "hung"} \/ (hw' = "after" /\ at_boundary' = "stop")
      BY <1>1, <2>2
    <2>8. QED
      BY <1>1, <1>2, <2>2, <2>3, <2>4, <2>5, <2>6, <2>7, EndTransferStep
  <1>5. CASE ~Reading
    <2>1. UNCHANGED <<event, ppi>>
      BY <1>5 DEF Stopped
    <2>2. Silent /\ transfer = "write" /\ got = Counted(op.len + 1) /\ hw = "idle"
      BY <1>1, <1>2, <1>5 DEF WriteStopInv
    <2>3. event' \in Events /\ ppi' \in Channels
      BY <1>2, <2>1 DEF TwiType
    <2>4. Silent'
      BY <2>1, <2>2 DEF Silent
    <2>5. FaultInv'
      BY <1>1, <1>2, <1>3, <2>1 DEF FaultInv, slave
    <2>6. /\ done' \in Nat /\ txd' \in Nat /\ hw' = "idle"
          /\ receiving' \in BOOLEAN /\ rxd' \in Nat
          /\ at_boundary' \in {"none", "suspend", "stop"}
          /\ pointer' \in Nat /\ stuck' \in BOOLEAN /\ slow' \in BOOLEAN
          /\ fault' \in BOOLEAN /\ UNCHANGED <<buffer, got>> /\ pc # "idle"
      BY <1>1, <1>2, <2>2 DEF TwiType, slave
    <2>7. QED
      BY <1>1, <1>2, <2>2, <2>3, <2>4, <2>5, <2>6, EndTransferStep
  <1>6. QED
    BY <1>4, <1>5

\* Only a fault makes the driver recover: otherwise the event it waits for is there
\* or still to come.
LEMMA RecoverStep ==
  ASSUME TwiInv, Recover
  PROVE  TwiInv'
  <1>1. /\ pc = "poll" /\ hw' = "idle" /\ txd' = 0 /\ twi_master_init /\ EndTransfer(FALSE)
        /\ lasting' = FALSE
        /\ UNCHANGED <<done, buffer, receiving, rxd, at_boundary, pointer, got, stuck, slow,
                       fault>>
    BY DEF Recover, PowerCycled
  <1>2. TwiType /\ FaultInv /\ TransmitInv /\ ReceiveInv
    BY DEF TwiInv
  <1>3. fault
    <2>1. CASE event.error \/ slow \/ hw = "hung"
      BY <1>1, <1>2, <2>1 DEF FaultInv
    <2>2. CASE Reading /\ ~event.error /\ ~slow /\ hw # "hung"
      <3>1. ~event.rxdready /\ hw \in {"idle", "wait", "suspended"}
        BY <2>2 DEF Recover
      <3>2. FALSE
        BY <1>1, <1>2, <2>2, <3>1 DEF ReceiveInv
      <3>3. QED
        BY <3>2
    <2>3. CASE ~Reading /\ ~event.error /\ ~slow /\ hw # "hung"
      <3>1. ~event.txdsent /\ hw \in {"idle", "wait", "suspended"}
        BY <2>3 DEF Recover
      <3>2. FALSE
        BY <1>1, <1>2, <2>3, <3>1 DEF TransmitInv
      <3>3. QED
        BY <3>2
    <2>4. QED
      BY <2>1, <2>2, <2>3
  <1>4. event' \in Events /\ ppi' \in Channels
    BY <1>1, <1>2 DEF twi_master_init, TwiType, Events, Channels
  <1>5. Silent'
    BY <1>1 DEF twi_master_init, Silent
  <1>6. FaultInv'
    BY <1>1, <1>3, <1>4, <1>5 DEF FaultInv, Silent
  <1>7. /\ done' \in Nat /\ txd' \in Nat
        /\ receiving' \in BOOLEAN /\ rxd' \in Nat
        /\ at_boundary' \in {"none", "suspend", "stop"}
        /\ pointer' \in Nat /\ stuck' \in BOOLEAN /\ slow' \in BOOLEAN
        /\ fault' \in BOOLEAN /\ UNCHANGED buffer /\ pc # "idle"
    BY <1>1, <1>2 DEF TwiType
  <1>8. QED
    BY <1>1, <1>2, <1>4, <1>5, <1>6, <1>7, EndTransferStep

-------------------------------------------------------------------------------
(* The peripheral and the slave.                                           *)

\* A byte is moved only while main() polls for it.
LEMMA MovesWhilePolled ==
  ASSUME TwiInv, hw \in {"boundary", "shift"}
  PROVE  pc = "poll"
  BY DEF TwiInv, TwiType, RestInv, StartInv, WriteStopInv, ResumeInv, ReadStopInv

\* What a step of the bus while main() polls has to keep.
LEMMA PollStep ==
  ASSUME TwiInv, pc = "poll", UNCHANGED main,
         TwiType', FaultInv', TransmitInv', ReceiveInv'
  PROVE  TwiInv'
  BY DEF TwiInv, RestInv, StartInv, WriteStopInv, ResumeInv, ReadStopInv, ResultInv, main

LEMMA ByteBoundaryStep ==
  ASSUME TwiInv, ByteBoundary
  PROVE  TwiInv'
  <1>1. /\ hw = "boundary" /\ hw' = "shift"
        /\ at_boundary' = IF ppi.on THEN ppi.task ELSE "none"
        /\ UNCHANGED <<main, receiving, txd, rxd, event, ppi, slave>>
    BY DEF ByteBoundary
  <1>2. TwiType /\ FaultInv /\ TransmitInv /\ ReceiveInv /\ pc = "poll"
    BY <1>1, MovesWhilePolled DEF TwiInv
  <1>3. TwiType'
    BY <1>1, <1>2 DEF TwiType, Places, Channels, main, slave
  <1>4. FaultInv'
    BY <1>1, <1>2 DEF FaultInv, main, slave
  <1>5. TransmitInv'
    BY <1>1, <1>2 DEF TransmitInv, Reading, Length, main, slave
  <1>6. ReceiveInv'
    BY <1>1, <1>2 DEF ReceiveInv, Reading, Filled, Ahead, main, slave
  <1>7. QED
    BY <1>1, <1>2, <1>3, <1>4, <1>5, <1>6, PollStep

\* A byte moves: into RXD from where the pointer stands, or from TXD to the slave.
LEMMA ShiftStep ==
  ASSUME TwiInv, Shift
  PROVE  TwiInv'
  <1>1. /\ hw = "shift" /\ hw' = "after"
        /\ UNCHANGED <<main, receiving, ppi, at_boundary, stuck, slow, fault, lasting>>
    BY DEF Shift
  <1>2. TwiType /\ FaultInv /\ TransmitInv /\ ReceiveInv /\ pc = "poll"
    BY <1>1, MovesWhilePolled DEF TwiInv
  <1>3. /\ op \in Ops /\ op.reg \in Nat /\ op.len \in Nat /\ op.len >= 1
        /\ FileSize \in Nat /\ FileSize >= 1 /\ op.reg + op.len <= FileSize
        /\ done \in Nat /\ pointer \in Nat /\ event \in Events
    BY <1>2, OpFacts DEF TwiType
  <1>4. CASE receiving
    <2>1. /\ rxd' = pointer /\ pointer' = (pointer + 1) % FileSize
          /\ event' = [event EXCEPT !.rxdready = TRUE] /\ UNCHANGED <<txd, got>>
      BY <1>4 DEF Shift
    <2>2. Reading
      BY <1>2, <1>4 DEF TransmitInv
    <2>3. /\ ~event.error /\ ~event.txdsent /\ done < op.len /\ Ahead(done) /\ Filled(done)
          /\ at_boundary = PpiTask(op.len - done)
      BY <1>1, <1>2, <2>2 DEF ReceiveInv
    <2>4. TwiType'
      <3>1. event' \in Events /\ hw' \in Places
        BY <1>1, <1>3, <2>1, EventFacts DEF Places
      <3>2. rxd' \in Nat /\ pointer' \in Nat
        BY <1>3, <2>1, PointerStays
      <3>3. QED
        BY <1>1, <1>2, <2>1, <3>1, <3>2 DEF TwiType, main
    <2>5. event'.rxdready /\ ~event'.error /\ ~event'.txdsent
      BY <1>3, <2>1, <2>3 DEF Events
    <2>6. FaultInv'
      BY <1>1, <1>2, <2>5 DEF FaultInv, main
    <2>7. Arrived'
      <3>1. UNCHANGED <<okay, op, done>>
        BY <1>1 DEF main
      <3>2. ASSUME okay PROVE rxd' = op.reg + done
        BY <2>1, <2>3, <3>2 DEF Ahead
      <3>3. ASSUME okay, done + 1 < op.len PROVE pointer' = op.reg + (done + 1)
        <4>1. pointer = op.reg + done /\ pointer + 1 < FileSize
          BY <1>3, <2>3, <3>3 DEF Ahead
        <4>2. QED
          BY <1>3, <2>1, <4>1, PointerMoves
      <3>4. QED
        BY <3>1, <3>2, <3>3 DEF Arrived, Ahead
    <2>8. ReceiveInv'
      BY <1>1, <1>2, <2>2, <2>3, <2>5, <2>7 DEF ReceiveInv, Filled, Reading, main
    <2>9. TransmitInv'
      BY <1>1, <2>2 DEF TransmitInv, Reading, main
    <2>10. QED
      BY <1>1, <1>2, <2>4, <2>6, <2>8, <2>9, PollStep
  <1>5. CASE ~receiving
    <2>1. /\ got' = Append(got, txd) /\ txd' = 0 /\ UNCHANGED rxd
          /\ pointer' = IF got = << >> THEN op.reg ELSE (pointer + 1) % FileSize
          /\ event' = [event EXCEPT !.txdsent = TRUE]
      BY <1>5 DEF Shift
    <2>2. ~Reading
      BY <1>2, <1>5 DEF ReceiveInv
    <2>3. /\ ~event.error /\ ~ppi.on /\ done < Length
          /\ txd = done + 1 /\ got = Counted(done) /\ at_boundary = "none"
      BY <1>1, <1>2, <2>2 DEF TransmitInv
    <2>4. TwiType'
      <3>1. event' \in Events /\ hw' \in Places
        BY <1>1, <1>3, <2>1, EventFacts DEF Places
      <3>2. txd' \in Nat /\ pointer' \in Nat
        BY <1>3, <2>1, PointerStays
      <3>3. QED
        BY <1>1, <1>2, <2>1, <3>1, <3>2 DEF TwiType, main
    <2>5. event'.txdsent /\ ~event'.error
      BY <1>3, <2>1, <2>3 DEF Events
    <2>6. FaultInv'
      BY <1>1, <1>2, <2>5 DEF FaultInv, main
    <2>7. got' = Counted(done + 1)
      BY <1>3, <2>1, <2>3, CountedMore
    <2>8. done = 0 => pointer' = op.reg
      BY <2>1, <2>3, CountedNone
    <2>9. TransmitInv'
      BY <1>1, <1>2, <1>5, <2>1, <2>2, <2>3, <2>5, <2>7, <2>8
         DEF TransmitInv, Reading, Length, main
    <2>10. ReceiveInv'
      BY <1>1, <2>2 DEF ReceiveInv, Reading, main
    <2>11. QED
      BY <1>1, <1>2, <2>4, <2>6, <2>9, <2>10, PollStep
  <1>6. QED
    BY <1>4, <1>5

\* A step of the bus that only moves hw, and may raise STOPPED, when main() does not
\* poll: it stays at rest, or in the wait for the STOP.
LEMMA SettleStep ==
  ASSUME TwiInv, pc # "poll", hw \in {"after", "stopping"},
         UNCHANGED <<main, receiving, txd, rxd, ppi, at_boundary, pointer, got>>,
         hw = "after" => hw' = CASE at_boundary = "suspend" -> "suspended"
                                 [] at_boundary = "stop" -> "stopping"
                                 [] OTHER -> IF receiving \/ txd # 0 THEN "boundary"
                                             ELSE "wait",
         hw = "stopping" => hw' \in {"idle", "hung"},
         hw' = "hung" => event' = event,
         event' \in Events, event'.txdsent = event.txdsent, event'.error = event.error,
         event'.rxdready = event.rxdready,
         TwiType', FaultInv'
  PROVE  TwiInv'
  <1>1. RestInv'
    BY DEF TwiInv, TwiType, RestInv, Silent, Reading, Ahead, main
  <1>2. StartInv'
    BY DEF TwiInv, TwiType, StartInv, main
  <1>3. WriteStopInv'
    BY DEF TwiInv, TwiType, WriteStopInv, Silent, Reading, main
  <1>4. ResumeInv'
    BY DEF TwiInv, TwiType, ResumeInv, Reading, Filled, Ahead, main
  <1>5. ReadStopInv'
    BY DEF TwiInv, TwiType, ReadStopInv, Reading, Filled, main
  <1>6. ResultInv'
    BY DEF TwiInv, TwiType, ResultInv, main
  <1>7. QED
    BY <1>1, <1>2, <1>3, <1>4, <1>5, <1>6 DEF TwiInv, TransmitInv, ReceiveInv, main

LEMMA AfterByteStep ==
  ASSUME TwiInv, AfterByte
  PROVE  TwiInv'
  <1>1. /\ hw = "after"
        /\ hw' = CASE at_boundary = "suspend" -> "suspended"
                   [] at_boundary = "stop" -> "stopping"
                   [] OTHER -> IF receiving \/ txd # 0 THEN "boundary" ELSE "wait"
        /\ UNCHANGED <<main, receiving, txd, rxd, event, ppi, at_boundary, slave>>
    BY DEF AfterByte
  <1>2. TwiType /\ FaultInv
    BY DEF TwiInv
  <1>3. hw' \in Places /\ hw' # "hung"
    BY <1>1 DEF Places
  <1>4. TwiType'
    BY <1>1, <1>2, <1>3 DEF TwiType, main, slave
  <1>5. FaultInv'
    BY <1>1, <1>2, <1>3 DEF FaultInv, main, slave
  <1>6. CASE pc # "poll"
    BY <1>1, <1>2, <1>4, <1>5, <1>6, SettleStep DEF TwiType, slave
  <1>7. CASE pc = "poll"
    <2>1. CASE Reading
      <3>1. /\ ReceiveInv /\ op \in Ops /\ op.len \in Nat /\ done \in Nat
        BY <1>2, <1>7, OpFacts DEF TwiInv, TwiType
      <3>2. /\ receiving /\ ~event.txdsent /\ done < op.len
            /\ ppi.on /\ ppi.task = PpiTask(op.len - done) /\ Filled(done)
            /\ ~event.error /\ event.rxdready /\ Arrived
            /\ at_boundary = PpiTask(op.len - done)
        BY <1>1, <1>7, <2>1, <3>1 DEF ReceiveInv
      <3>3. \/ hw' = "suspended" /\ done + 1 < op.len
            \/ hw' = "stopping" /\ done + 1 = op.len
        <4>1. op.len - done = 1 <=> done + 1 = op.len
          BY <3>1
        <4>2. QED
          BY <1>1, <3>1, <3>2, <4>1 DEF PpiTask
      <3>4. ReceiveInv'
        BY <1>1, <1>7, <2>1, <3>2, <3>3
           DEF ReceiveInv, Reading, Filled, Arrived, Ahead, main, slave
      <3>5. TransmitInv'
        BY <1>1, <2>1 DEF TransmitInv, Reading, main
      <3>6. QED
        BY <1>1, <1>4, <1>5, <1>7, <3>4, <3>5, PollStep
    <2>2. CASE ~Reading
      <3>1. TransmitInv'
        BY <1>1, <1>2, <1>7, <2>2
           DEF TwiInv, TwiType, TransmitInv, Reading, Length, main, slave
      <3>2. ReceiveInv'
        BY <1>1, <2>2 DEF ReceiveInv, Reading, main
      <3>3. QED
        BY <1>1, <1>4, <1>5, <1>7, <3>1, <3>2, PollStep
    <2>3. QED
      BY <2>1, <2>2
  <1>8. QED
    BY <1>6, <1>7

LEMMA SendStopStep ==
  ASSUME TwiInv, SendStop
  PROVE  TwiInv'
  <1>1. /\ hw = "stopping" /\ hw' = "idle" /\ event' = [event EXCEPT !.stopped = TRUE]
        /\ UNCHANGED <<main, receiving, txd, rxd, ppi, at_boundary, slave>>
    BY DEF SendStop
  <1>2. TwiType /\ FaultInv
    BY DEF TwiInv
  <1>3. /\ event' \in Events /\ event'.txdsent = event.txdsent
        /\ event'.error = event.error /\ event'.rxdready = event.rxdready
    <2>1. event \in Events
      BY <1>2 DEF TwiType
    <2>2. event' \in Events
      BY <1>1, <2>1, EventFacts
    <2>3. QED
      BY <1>1, <2>1, <2>2 DEF Events
  <1>4. TwiType'
    BY <1>1, <1>2, <1>3 DEF TwiType, Places, main, slave
  <1>5. FaultInv'
    BY <1>1, <1>2, <1>3 DEF FaultInv, main, slave
  <1>6. CASE pc # "poll"
    BY <1>1, <1>3, <1>4, <1>5, <1>6, SettleStep DEF slave
  <1>7. CASE pc = "poll"
    <2>1. Reading
      BY <1>1, <1>7 DEF TwiInv, TransmitInv
    <2>2. TransmitInv'
      BY <1>1, <2>1 DEF TransmitInv, Reading, main
    <2>3. ReceiveInv'
      BY <1>1, <1>3, <1>7, <2>1
         DEF TwiInv, ReceiveInv, Reading, Filled, Arrived, Ahead, main, slave
    <2>4. QED
      BY <1>1, <1>4, <1>5, <1>7, <2>2, <2>3, PollStep
  <1>8. QED
    BY <1>6, <1>7

-------------------------------------------------------------------------------
(* The faults.                                                             *)

LEMMA NackStep ==
  ASSUME TwiInv, Nack
  PROVE  TwiInv'
  <1>1. /\ hw = "shift" /\ hw' = "wait" /\ event' = [event EXCEPT !.error = TRUE]
        /\ fault' = TRUE
        /\ UNCHANGED <<main, receiving, txd, rxd, ppi, at_boundary, pointer, got, stuck, slow,
                       lasting>>
    BY DEF Nack
  <1>2. TwiType /\ FaultInv /\ TransmitInv /\ ReceiveInv /\ pc = "poll"
    BY <1>1, MovesWhilePolled DEF TwiInv
  <1>3. event' \in Events /\ event'.error /\ event'.txdsent = event.txdsent
    BY <1>1, <1>2, EventFacts DEF TwiType, Events
  <1>4. TwiType'
    BY <1>1, <1>2, <1>3 DEF TwiType, Places, main
  <1>5. FaultInv'
    BY <1>1, <1>2 DEF FaultInv, main
  <1>6. TransmitInv'
    BY <1>1, <1>2, <1>3 DEF TransmitInv, Reading, Length, main
  <1>7. ReceiveInv'
    BY <1>1, <1>2, <1>3 DEF ReceiveInv, Reading, Filled, main
  <1>8. QED
    BY <1>1, <1>2, <1>4, <1>5, <1>6, <1>7, PollStep

LEMMA LockUpStep ==
  ASSUME TwiInv, LockUp
  PROVE  TwiInv'
  <1>1. /\ hw \in {"boundary", "shift", "stopping"} /\ hw' = "hung"
        /\ stuck' \in {stuck, TRUE} /\ fault' = TRUE /\ lasting' = TRUE
        /\ UNCHANGED <<main, receiving, txd, rxd, event, ppi, at_boundary, pointer, got, slow>>
    BY DEF LockUp
  <1>2. TwiType /\ FaultInv
    BY DEF TwiInv
  <1>3. TwiType'
    <2>1. hw' \in Places /\ stuck' \in BOOLEAN /\ fault' \in BOOLEAN
      BY <1>1, <1>2 DEF TwiType, Places
    <2>2. QED
      BY <1>1, <1>2, <2>1 DEF TwiType, main
  <1>4. FaultInv'
    BY <1>1 DEF FaultInv
  <1>5. CASE pc # "poll"
    <2>1. hw = "stopping"
      BY <1>1, <1>5, MovesWhilePolled
    <2>2. QED
      BY <1>1, <1>2, <1>3, <1>4, <1>5, <2>1, SettleStep DEF TwiType
  <1>6. CASE pc = "poll"
    <2>1. TransmitInv'
      BY <1>1, <1>2, <1>6 DEF TwiInv, TransmitInv, Reading, Length, main
    <2>2. ReceiveInv'
      BY <1>1, <1>2, <1>6
         DEF TwiInv, ReceiveInv, Reading, Filled, Arrived, Ahead, main
    <2>3. QED
      BY <1>1, <1>3, <1>4, <1>6, <2>1, <2>2, PollStep
  <1>7. QED
    BY <1>5, <1>6

\* A step that no part of the invariant but FaultInv looks at.
LEMMA SlaveStep ==
  ASSUME TwiInv, Stretch \/ LetGo
  PROVE  TwiInv'
  <1>1. /\ UNCHANGED <<main, twi, pointer, got, lasting>>
        /\ stuck' \in BOOLEAN /\ slow' \in BOOLEAN /\ fault' \in BOOLEAN
        /\ slow' => fault' \/ (slow /\ fault' = fault)
        /\ fault => fault'
    <2>1. TwiType
      BY DEF TwiInv
    <2>2. CASE Stretch
      BY <2>1, <2>2 DEF Stretch, TwiType
    <2>3. CASE LetGo
      BY <2>1, <2>3 DEF LetGo, TwiType
    <2>4. QED
      BY <2>2, <2>3
  <1>2. TwiType' /\ FaultInv'
    BY <1>1 DEF TwiInv, TwiType, FaultInv, main, twi
  <1>3. RestInv' /\ StartInv' /\ WriteStopInv' /\ ResumeInv' /\ ReadStopInv' /\ ResultInv'
    BY <1>1 DEF TwiInv, RestInv, StartInv, WriteStopInv, ResumeInv, ReadStopInv, ResultInv,
                Silent, Reading, Filled, Ahead, main, twi
  <1>4. TransmitInv' /\ ReceiveInv'
    BY <1>1 DEF TwiInv, TransmitInv, ReceiveInv, Reading, Length, Filled, Ahead, Arrived,
                main, twi
  <1>5. QED
    BY <1>2, <1>3, <1>4 DEF TwiInv

-------------------------------------------------------------------------------
LEMMA TwiNext == TwiInv /\ [Next]_vars => TwiInv'
  <1> SUFFICES ASSUME TwiInv, [Next]_vars PROVE TwiInv'
    OBVIOUS
  <1>1. CASE Access
    BY <1>1, AccessStep
  <1>2. CASE Transfer
    BY <1>2, ClearBusStep, StartTxStep, StartRxStep, SentStep, ReceivedStep, ResumeStep,
       StoppedStep, RecoverStep DEF Transfer
  <1>3. CASE Peripheral
    BY <1>3, ByteBoundaryStep, ShiftStep, AfterByteStep, SendStopStep DEF Peripheral
  <1>4. CASE Fault
    BY <1>4, NackStep, LockUpStep, SlaveStep DEF Fault
  <1>5. CASE UNCHANGED vars
    <2>1. UNCHANGED <<main, twi, slave>>
      BY <1>5 DEF vars
    <2>2. TwiType' /\ FaultInv'
      BY <2>1 DEF TwiInv, TwiType, FaultInv, main, twi, slave
    <2>3. RestInv' /\ StartInv' /\ WriteStopInv' /\ ResumeInv' /\ ReadStopInv' /\ ResultInv'
      BY <2>1 DEF TwiInv, RestInv, StartInv, WriteStopInv, ResumeInv, ReadStopInv, ResultInv,
                  Silent, Reading, Filled, Ahead, main, twi, slave
    <2>4. TransmitInv' /\ ReceiveInv'
      BY <2>1 DEF TwiInv, TransmitInv, ReceiveInv, Reading, Length, Filled, Ahead, Arrived,
                  main, twi, slave
    <2>5. QED
      BY <2>2, <2>3, <2>4 DEF TwiInv
  <1>6. QED
    BY <1>1, <1>2, <1>3, <1>4, <1>5 DEF Next

LEMMA TwiInvHolds == Spec => []TwiInv
  BY TwiInit, TwiNext, PTL DEF Spec

\* A read that succeeds gave the registers asked for, in order, for every register,
\* length and sequence of faults before and during it (twi_hw_master_sd.c:97).
THEOREM ReadsAreWhole == Spec => []ReadIsWhole
  <1>1. TwiInv => ReadIsWhole
    BY DEF TwiInv, ResultInv, ReadIsWhole, Succeeded
  <1>2. QED
    BY <1>1, TwiInvHolds, PTL

\* A write that succeeds was taken whole, and its STOP is on the bus, whatever event
\* an earlier transfer left standing (twi_hw_master_sd.c:78).
THEOREM WritesAreWhole == Spec => []WriteIsWhole
  <1>1. TwiInv => WriteIsWhole
    BY DEF TwiInv, ResultInv, WriteIsWhole, Succeeded, Counted
  <1>2. QED
    BY <1>1, TwiInvHolds, PTL

\* The PPI channel suspends or stops the bus before every byte main() has no room
\* for, however late main() is (twi_hw_master_sd.c:139).
THEOREM BusIsStoppedInTime == Spec => []BusStopsInTime
  <1>1. TwiInv => BusStopsInTime
    <2> SUFFICES ASSUME TwiInv, receiving, hw \in {"boundary", "shift"}
                 PROVE  Reading /\ done < op.len /\ ~event.rxdready
      BY DEF BusStopsInTime
    <2>1. pc = "poll"
      BY MovesWhilePolled
    <2>2. Reading
      BY <2>1 DEF TwiInv, TransmitInv
    <2>3. QED
      BY <2>1, <2>2 DEF TwiInv, ReceiveInv
  <1>2. QED
    BY <1>1, TwiInvHolds, PTL

\* An access fails only on a fault of its own time or a lock-up that no recovery has
\* followed: what one recovery has seen makes no later access fail
\* (twi_hw_master_sd.c:49 and :122).
THEOREM FailureHasACause == Spec => []FailsOnlyOnFault
  <1>1. TwiInv => FailsOnlyOnFault
    BY DEF TwiInv, FaultInv, FailsOnlyOnFault
  <1>2. QED
    BY <1>1, TwiInvHolds, PTL
===============================================================================
