------------------------------ MODULE TwiMaster ------------------------------
(***************************************************************************)
(* The I2C master under the sensors: the register accesses of              *)
(* src/src/i2c_wrapper.c on top of the SDK's twi_hw_master_sd.c, which     *)
(* polls the events of the TWI1 peripheral while a PPI channel, switched   *)
(* by the driver, tells the peripheral to suspend or to stop after a byte. *)
(*                                                                         *)
(* Two parties move: main(), the only thread that transfers, and the       *)
(* peripheral with the slave behind it.  The bytes are abstracted to what  *)
(* tells them apart: a byte read is the number of the register it comes    *)
(* from, a byte written its position in the message.  The peripheral       *)
(* (events, tasks, the byte boundary BB that PPI listens to, the lock-up   *)
(* the driver calls PAN 56) is modelled from how the driver uses it.       *)
(*                                                                         *)
(* Faults: the slave refuses a byte, stretches the clock past the time-out *)
(* of the driver, the peripheral locks up, a slave keeps SDA low.          *)
(***************************************************************************)
EXTENDS Naturals, Sequences

CONSTANTS
    Registers,   \* the registers that are read or written first
    Lengths,     \* how many bytes an access moves
    FileSize,    \* how many registers the slave has; its pointer wraps there
    Unwritten    \* what a buffer holds before anything is read into it

ASSUME TwiAssumption ==
    /\ FileSize \in Nat
    /\ Registers \subseteq Nat
    /\ Lengths \subseteq Nat \ {0}
    /\ \A r \in Registers, l \in Lengths : r + l <= FileSize
    /\ Unwritten \notin Nat

VARIABLES
    \* main()
    pc,          \* where the transfer stands
    op,          \* the access: its kind, first register and length
    transfer,    \* its current transfer: "write", "address" or "read"
    done,        \* bytes of this transfer the driver has seen through
    okay,        \* transfer_succeeded, over the transfers of the access
    buffer,      \* the caller's data
    \* TWI1 and PPI channel 0
    hw, receiving, txd, rxd, event, ppi,
    at_boundary, \* the task PPI raised at the last byte boundary
    \* the slave
    pointer,     \* its register pointer
    got,         \* what it took since the last START, by position
    stuck,       \* it keeps SDA low
    slow,        \* it stretches the clock
    fault,       \* a fault since the access began, or a lock-up that lasts
    lasting      \* history: a lock-up that no recovery has followed

main == <<pc, op, transfer, done, okay, buffer>>
twi == <<hw, receiving, txd, rxd, event, ppi, at_boundary>>
slave == <<pointer, got, stuck, slow, fault, lasting>>
vars == <<main, twi, slave>>

Reading == transfer = "read"
Length == IF Reading THEN op.len ELSE IF transfer = "write" THEN op.len + 1 ELSE 1

Ops == [kind : {"write", "read_bytes", "read_byte"}, reg : Registers, len : Lengths]

-----------------------------------------------------------------------------
(* The transfers of an access.  A read writes the register number without  *)
(* a STOP, and then reads whatever became of that first transfer.          *)

Access ==
    /\ pc = "idle"
    /\ op' \in {o \in Ops : o.kind = "read_byte" => o.len = 1}
    /\ transfer' = IF op'.kind = "write" THEN "write" ELSE "address"
    /\ okay' = TRUE
    /\ buffer' = [i \in 1..op'.len |-> Unwritten]
    /\ done' = 0
    /\ pc' = "clear"
    /\ fault' = lasting
    /\ slow' = FALSE
    /\ UNCHANGED <<twi, pointer, got, stuck, lasting>>

\* transfer_succeeded = instead of &=: the first transfer is forgotten.
EndTransferLast(succeeded) ==
    /\ okay' = succeeded
    /\ IF transfer = "address"
       THEN transfer' = "read" /\ pc' = "clear"
       ELSE pc' = "idle" /\ UNCHANGED transfer
    /\ UNCHANGED op

EndTransfer(succeeded) ==
    /\ okay' = (okay /\ succeeded)
    /\ IF transfer = "address"
       THEN transfer' = "read" /\ pc' = "clear"
       ELSE pc' = "idle" /\ UNCHANGED transfer
    /\ UNCHANGED op

\* The pins are taken from the peripheral: a STOP under way is cut short.
\* Eighteen pulses free the bus from a slave in the middle of a byte, not
\* from one that keeps SDA low.
twi_master_clear_bus ==
    /\ pc = "clear"
    /\ hw' = IF hw = "hung" THEN hw ELSE "idle"
    /\ IF stuck
       THEN /\ EndTransfer(FALSE)
            /\ fault' = TRUE
       ELSE /\ pc' = "start"
            /\ UNCHANGED <<op, transfer, okay, fault>>
    /\ UNCHANGED <<done, buffer, receiving, txd, rxd, event, ppi, at_boundary, pointer,
                   got, stuck, slow, lasting>>

-----------------------------------------------------------------------------
(* twi_master_write and twi_master_read                                    *)

Started == IF hw = "hung" THEN hw ELSE "boundary"

StartTx ==
    /\ pc = "start" /\ ~Reading
    /\ txd' = 1
    /\ hw' = Started
    /\ receiving' = FALSE
    /\ got' = << >>
    /\ done' = 0
    /\ pc' = "poll"
    /\ UNCHANGED <<op, transfer, okay, buffer, rxd, event, ppi, at_boundary, pointer,
                   stuck, slow, fault, lasting>>

\* sd_ppi_channel_assign: what the next byte boundary does.
PpiTask(left) == IF left = 1 THEN "stop" ELSE "suspend"

\* sd_ppi_channel_enable_set is forgotten.
ChannelNotEnabled(left) == [task |-> PpiTask(left), on |-> ppi.on]
Channel(left) == [task |-> PpiTask(left), on |-> TRUE]

StartRx ==
    /\ pc = "start" /\ Reading
    /\ ppi' = Channel(op.len)
    /\ event' = [event EXCEPT !.rxdready = FALSE]
    /\ hw' = Started
    /\ receiving' = TRUE
    /\ done' = 0
    /\ pc' = "poll"
    /\ UNCHANGED <<op, transfer, okay, buffer, txd, rxd, at_boundary, slave>>

\* The STOPPED of an earlier transfer is left standing.
StopKeepsEvent ==
    /\ event' = [event EXCEPT !.txdsent = FALSE]
    /\ hw' = IF hw \in {"after", "wait"} THEN "stopping" ELSE hw
    /\ pc' = "stop"
    /\ UNCHANGED <<op, transfer, okay, txd>>

\* TASKS_STOP, after STOPPED was cleared.
Stop ==
    /\ event' = [event EXCEPT !.txdsent = FALSE, !.stopped = FALSE]
    /\ hw' = IF hw \in {"after", "wait"} THEN "stopping" ELSE hw
    /\ pc' = "stop"
    /\ UNCHANGED <<op, transfer, okay, txd>>

More(sent) == sent < Length

\* A byte went out: the next one, the STOP, or the end of the transfer.
Sent ==
    /\ pc = "poll" /\ ~Reading
    /\ event.txdsent /\ ~event.error
    /\ done' = done + 1
    /\ \/ /\ More(done')
          /\ event' = [event EXCEPT !.txdsent = FALSE]
          /\ txd' = done' + 1
          /\ hw' = IF hw = "wait" THEN "boundary" ELSE hw
          /\ UNCHANGED <<pc, op, transfer, okay>>
       \/ /\ ~More(done') /\ transfer = "write"
          /\ Stop
       \/ /\ ~More(done') /\ transfer = "address"
          /\ event' = [event EXCEPT !.txdsent = FALSE]
          /\ EndTransfer(TRUE)
          /\ UNCHANGED <<hw, txd>>
    /\ UNCHANGED <<buffer, receiving, rxd, ppi, at_boundary, slave>>

\* The task of PPI once this byte is taken: STOP before the last boundary.
NextTaskUnchanged(left) == ppi.task
NextTask(left) == IF left = 1 THEN PpiTask(1) ELSE ppi.task

Received ==
    /\ pc = "poll" /\ Reading
    /\ event.rxdready /\ ~event.error
    /\ event' = [event EXCEPT !.rxdready = FALSE]
    /\ done' = done + 1
    /\ buffer' = [buffer EXCEPT ![done'] = rxd]
    /\ ppi' = [ppi EXCEPT !.task = NextTask(op.len - done')]
    /\ pc' = IF done' = op.len THEN "stop" ELSE "resume"
    /\ UNCHANGED <<op, transfer, okay, hw, receiving, txd, rxd, at_boundary,
                   slave>>

\* Twenty microseconds later the peripheral has suspended.
DelayOver == hw # "after"

Resume ==
    /\ pc = "resume"
    /\ DelayOver
    /\ hw' = IF hw = "suspended" THEN "boundary" ELSE hw
    /\ pc' = "poll"
    /\ UNCHANGED <<op, transfer, done, okay, buffer, receiving, txd, rxd, event, ppi,
                   at_boundary, slave>>

\* EVENTS_STOPPED: the read clears it afterwards, the write did so before.
Stopped ==
    /\ pc = "stop"
    /\ event.stopped
    /\ IF Reading
       THEN /\ event' = [event EXCEPT !.stopped = FALSE]
            /\ ppi' = [ppi EXCEPT !.on = FALSE]
       ELSE UNCHANGED <<event, ppi>>
    /\ EndTransfer(TRUE)
    /\ UNCHANGED <<done, buffer, hw, receiving, txd, rxd, at_boundary, slave>>

\* The PPI channel of the read that failed stays enabled.
InitKeepsPpi ==
    /\ event' \in [txdsent : {FALSE}, rxdready : {FALSE}, error : {FALSE},
                   stopped : {FALSE, event.stopped}]
    /\ ppi' = [ppi EXCEPT !.task = "suspend"]

\* twi_master_init, as far as the peripheral is concerned.
twi_master_init ==
    /\ event' \in [txdsent : {FALSE}, rxdready : {FALSE}, error : {FALSE},
                   stopped : {FALSE, event.stopped}]
    /\ ppi' = [task |-> "suspend", on |-> FALSE]

\* The POWER register is not written: what locked up stays so.
NotPowerCycled == IF hw = "hung" THEN hw ELSE "idle"

\* Off and on again, whatever the peripheral was doing.
PowerCycled == "idle"

\* An error, or no event within MAX_TIMEOUT_LOOPS turns: the peripheral is
\* switched off and on.  The time-out needs a slow slave, or a peripheral
\* that will not raise the event.
Recover ==
    /\ pc = "poll"
    /\ \/ event.error
       \/ /\ IF Reading THEN ~event.rxdready ELSE ~event.txdsent
          /\ slow \/ hw \in {"idle", "wait", "suspended", "hung"}
    /\ hw' = PowerCycled
    /\ txd' = 0
    /\ twi_master_init
    /\ EndTransfer(FALSE)
    /\ lasting' = FALSE
    /\ UNCHANGED <<done, buffer, receiving, rxd, at_boundary, pointer, got, stuck, slow,
                   fault>>

-----------------------------------------------------------------------------
(* The peripheral and the slave.                                           *)

\* BB, before each byte: PPI raises its task, which waits for the byte's end.
ByteBoundary ==
    /\ hw = "boundary"
    /\ hw' = "shift"
    /\ at_boundary' = IF ppi.on THEN ppi.task ELSE "none"
    /\ UNCHANGED <<main, receiving, txd, rxd, event, ppi, slave>>

\* The first byte written after a START is the register number.
Shift ==
    /\ hw = "shift"
    /\ hw' = "after"
    /\ IF receiving
       THEN /\ rxd' = pointer
            /\ pointer' = (pointer + 1) % FileSize
            /\ event' = [event EXCEPT !.rxdready = TRUE]
            /\ UNCHANGED <<txd, got>>
       ELSE /\ got' = Append(got, txd)
            /\ pointer' = IF got = << >> THEN op.reg ELSE (pointer + 1) % FileSize
            /\ event' = [event EXCEPT !.txdsent = TRUE]
            /\ txd' = 0
            /\ UNCHANGED rxd
    /\ UNCHANGED <<main, receiving, ppi, at_boundary, stuck, slow, fault, lasting>>

AfterByte ==
    /\ hw = "after"
    /\ hw' = CASE at_boundary = "suspend" -> "suspended"
               [] at_boundary = "stop" -> "stopping"
               [] OTHER -> IF receiving \/ txd # 0 THEN "boundary" ELSE "wait"
    /\ UNCHANGED <<main, receiving, txd, rxd, event, ppi, at_boundary, slave>>

SendStop ==
    /\ hw = "stopping"
    /\ hw' = "idle"
    /\ event' = [event EXCEPT !.stopped = TRUE]
    /\ UNCHANGED <<main, receiving, txd, rxd, ppi, at_boundary, slave>>

\* The address, or a byte of a write, is not acknowledged.
Nack ==
    /\ hw = "shift"
    /\ receiving => done = 0
    /\ hw' = "wait"
    /\ event' = [event EXCEPT !.error = TRUE]
    /\ fault' = TRUE
    /\ UNCHANGED <<main, receiving, txd, rxd, ppi, at_boundary, pointer, got, stuck, slow,
                   lasting>>

\* PAN 56; a slave cut off may keep SDA low from then on.
LockUp ==
    /\ hw \in {"boundary", "shift", "stopping"}
    /\ hw' = "hung"
    /\ stuck' \in {stuck, TRUE}
    /\ fault' = TRUE
    /\ lasting' = TRUE
    /\ UNCHANGED <<main, receiving, txd, rxd, event, ppi, at_boundary, pointer, got, slow>>

Stretch ==
    /\ hw \in {"boundary", "shift"} /\ ~slow
    /\ slow' = TRUE
    /\ fault' = TRUE
    /\ UNCHANGED <<main, twi, pointer, got, stuck, lasting>>

LetGo ==
    /\ stuck
    /\ stuck' = FALSE
    /\ UNCHANGED <<main, twi, pointer, got, slow, fault, lasting>>

-----------------------------------------------------------------------------
\* After twi_master_init in i2c_init, and before the first access.
Init ==
    /\ pc = "idle"
    /\ op = [kind |-> "write", reg |-> CHOOSE r \in Registers : TRUE, len |-> 1]
    /\ transfer = "write" /\ done = 0 /\ okay = FALSE /\ buffer = <<Unwritten>>
    /\ hw = "idle" /\ receiving = FALSE /\ txd = 0 /\ rxd = 0
    /\ event = [txdsent |-> FALSE, rxdready |-> FALSE, error |-> FALSE, stopped |-> FALSE]
    /\ ppi = [task |-> "suspend", on |-> FALSE]
    /\ at_boundary = "none"
    /\ pointer = 0 /\ got = << >> /\ stuck = FALSE /\ slow = FALSE
    /\ fault = TRUE /\ lasting = FALSE

Transfer ==
    \/ twi_master_clear_bus
    \/ StartTx \/ StartRx \/ Sent \/ Received \/ Resume \/ Stopped \/ Recover

Peripheral == ByteBoundary \/ Shift \/ AfterByte \/ SendStop
Fault == Nack \/ LockUp \/ Stretch \/ LetGo

Next == Access \/ Transfer \/ Peripheral \/ Fault

\* main() runs on and the peripheral finishes what it began; no access has
\* to be made, and no fault has to happen.
Spec == Init /\ [][Next]_vars /\ WF_vars(Transfer) /\ WF_vars(Peripheral)

-----------------------------------------------------------------------------
Succeeded(kinds) == pc = "idle" /\ okay /\ op.kind \in kinds

\* A read whose two transfers succeeded filled the buffer with the registers
\* asked for, in order: no byte taken twice, none lost, none from where the
\* pointer stood before (i2c_read_bytes and i2c_read_byte; the caller of the
\* latter is given no status, and a byte nobody wrote when one failed).
ReadIsWhole ==
    Succeeded({"read_bytes", "read_byte"}) =>
        buffer = [i \in 1..op.len |-> op.reg + i - 1]

\* A write that reports success was taken by the slave byte by byte, and the
\* STOP is on the bus: the wait of twi_hw_master_sd.c:78 is not passed on the
\* event of an earlier transfer.
WriteIsWhole ==
    Succeeded({"write"}) =>
        /\ got = [i \in 1..op.len + 1 |-> i]
        /\ hw # "stopping"

\* The bus stops in time: a read is never given a byte while the last one is
\* still in RXD, nor one more than was asked for, whatever the delay of main()
\* between two bytes (the PPI channel of twi_hw_master_sd.c:97 and :139).
BusStopsInTime ==
    receiving /\ hw \in {"boundary", "shift"} =>
        Reading /\ done < op.len /\ ~event.rxdready

\* An access fails only on a fault during it, or on a lock-up of the
\* peripheral that no recovery has followed (one behind an access that had
\* already reported success): once a transfer has failed and recovered,
\* nothing of the failure is left that makes a later one fail (the events,
\* the PPI channel and the power cycle of twi_hw_master_sd.c:49 and :122).
FailsOnlyOnFault == pc = "idle" /\ ~okay => fault

\* Every access returns, whatever the faults, but for one: the waits for the
\* STOP have no time-out, and a peripheral that locks up there keeps main()
\* for ever (twi_hw_master_sd.c:78 and :159).
LostInStop == pc = "stop" /\ hw = "hung"

AccessReturns == pc # "idle" ~> pc = "idle" \/ LostInStop
=============================================================================
