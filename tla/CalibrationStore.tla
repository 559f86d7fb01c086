--------------------------- MODULE CalibrationStore ---------------------------
(***************************************************************************)
(* The calibration in flash: twi_calibration_store.c on top of the SDK's   *)
(* pstorage.c, whose commands the SoftDevice carries out one at a time and *)
(* answers with system events (SWI2, twi_sys_evt.c).  The thread clears    *)
(* the block, spins until the callback says that this succeeded, stores    *)
(* the block, and spins again.  Power may fail at any moment.              *)
(*                                                                         *)
(* The block is the whole of the module's storage and is shorter than one  *)
(* write, so that clear erases a page and store writes once: the swap page *)
(* is only erased (at boot) and the round counter of pstorage stays out.   *)
(***************************************************************************)
EXTENDS Naturals, FiniteSets

CONSTANTS
  Cal,          \* calibrations
  Factory,      \* the one compiled in
  NoCal,        \* none
  Garbage,      \* a block that passes for valid and is not
  Words,        \* words of a block, the first and the last of them magic
  QueueSize,    \* PSTORAGE_CMD_QUEUE_SIZE
  EarlyEvents,  \* may an event be handled in the middle of cmd_queue_enqueue?
  FlashErrors   \* may the SoftDevice refuse or fail a command?

ASSUME StoreAssumption ==
  /\ Factory \in Cal
  /\ NoCal \notin Cal /\ Garbage \notin Cal /\ NoCal # Garbage
  /\ Words \in Nat /\ 2 < Words
  /\ QueueSize \in 2 .. 127
  /\ EarlyEvents \in BOOLEAN /\ FlashErrors \in BOOLEAN
  /\ {"erased", "magic", "mixed"} \intersect Cal = {}

VARIABLES
  flash,         \* the block, word by word
  op,            \* the SoftDevice's flash command
  written,       \* words of it written so far
  evt,           \* its system event, if one is pending
  initialized,   \* m_module_initialized
  swap,          \* m_swap_state
  flash_access,  \* m_cmd_queue.flash_access
  rp, count,     \* m_cmd_queue.rp, m_cmd_queue.count
  cmd,           \* the op-codes in m_cmd_queue.cmd
  status,        \* status of twi_calibration_store.c
  data,          \* the static copy calibration_store_write makes
  cal,           \* the calibration in use (imu.c)
  main,          \* where the thread is
  step,          \* the command calibration_store_write is at
  tmp,           \* count, read and not yet written back
  early,         \* history: an event has met a half-done request
  failed         \* history: the SoftDevice has refused or failed a command

sdVars == <<op, written, evt>>
queueVars == <<rp, count, cmd>>
pstorageVars == <<initialized, swap, flash_access, queueVars>>
calVars == <<data, cal>>
ctxVars == <<main, step, tmp>>
history == <<early, failed>>
stateVars == <<flash, sdVars, pstorageVars, status, calVars, ctxVars>>
vars == <<stateVars, history>>

-------------------------------------------------------------------------------
(***************************************************************************)
(* The block.                                                              *)
(***************************************************************************)

\* calibration_data_t, magic words and all.
Image(d) == [i \in 1 .. Words |-> IF i \in {1, Words} THEN "magic" ELSE d]

Erased == [i \in 1 .. Words |-> "erased"]

\* Writing flash only clears bits.
Program(old, new) == IF old \in {"erased", new} THEN new ELSE "mixed"

\* Slip: only the first magic word looked at.
LoadAcceptsFirst(block) == block[1] = "magic"

\* calibration_store_load: which blocks it takes for a calibration ...
LoadAccepts(block) == block[1] = "magic" /\ block[Words] = "magic"

\* ... and what it takes them for.
Content(block) ==
  IF ~LoadAccepts(block) THEN NoCal
  ELSE IF \E d \in Cal : block = Image(d)
       THEN CHOOSE d \in Cal : block = Image(d)
       ELSE Garbage

-------------------------------------------------------------------------------
(***************************************************************************)
(* The SoftDevice.                                                         *)
(***************************************************************************)

\* What sd_flash_page_erase and sd_flash_write may answer.
SdFlashResults ==
  IF op # "none" THEN {"busy"}
  ELSE {"success"} \union IF FlashErrors THEN {"internal"} ELSE {}

\* A write occupies the CPU from its first word to its last.
CpuFree == written = 0

Finish(e) == op' = "none" /\ written' = 0 /\ evt' = e

FlashErase ==
  /\ op \in {"erase_swap", "clear"}
  /\ flash' = IF op = "clear" THEN Erased ELSE flash
  /\ Finish("success")
  /\ UNCHANGED <<pstorageVars, status, calVars, ctxVars>>

FlashWord ==
  /\ op = "store"
  /\ flash' = [flash EXCEPT ![written + 1] =
                 Program(flash[written + 1], Image(data)[written + 1])]
  /\ IF written + 1 = Words
     THEN Finish("success")
     ELSE written' = written + 1 /\ UNCHANGED <<op, evt>>
  /\ UNCHANGED <<pstorageVars, status, calVars, ctxVars>>

\* The command could not be started.
FlashError ==
  /\ FlashErrors
  /\ op # "none" /\ CpuFree
  /\ Finish("error")
  /\ UNCHANGED <<flash, pstorageVars, status, calVars, ctxVars>>

-------------------------------------------------------------------------------
(***************************************************************************)
(* pstorage: the event handler.                                            *)
(***************************************************************************)

\* app_notify for an element that is free: the callback is read from behind
\* the end of m_app_table, and may be anything.
WildCall == main' \in {main, "fault"}

\* Slip: the handler does not give flash_access back.
DequeueKeepsFlag(c, r, n, st) ==
  /\ status' = st
  /\ UNCHANGED <<flash_access, op, main>>

\* cmd_process and the app_notify after it, in the event handler: start the
\* command at r of the queue c, when n commands wait; st is the status so far.
Dequeue(c, r, n, st) ==
  \/ /\ n = 0
     /\ flash_access' = FALSE
     /\ status' = st
     /\ UNCHANGED <<op, main>>
  \/ /\ n # 0 /\ c[r] = "none"
     /\ flash_access' = FALSE
     /\ status' = st
     /\ WildCall
     /\ UNCHANGED op
  \/ /\ n # 0 /\ c[r] # "none"
     /\ \E res \in SdFlashResults :
          IF res = "success"
          THEN op' = c[r] /\ flash_access' = TRUE /\ status' = st
          ELSE op' = op /\ flash_access' = FALSE /\ status' = res
     /\ UNCHANGED main

\* Slip: the handler of the swap page's event leaves the queue alone.
SwapEventNoDequeue ==
  /\ swap = "dirty"
  /\ IF evt = "success"
     THEN swap' = "init" /\ UNCHANGED initialized
     ELSE initialized' = FALSE /\ UNCHANGED swap
  /\ flash_access' = FALSE
  /\ UNCHANGED <<op, status, main, queueVars>>

\* pstorage_sys_event_handler: the event of the erasure of the swap page.  A
\* failure leaves the module uninitialised, but starts the next command too.
SwapEvent ==
  /\ swap = "dirty"
  /\ IF evt = "success"
     THEN swap' = "init" /\ UNCHANGED initialized
     ELSE initialized' = FALSE /\ UNCHANGED swap
  /\ Dequeue(cmd, rp, count, status)
  /\ UNCHANGED queueVars

\* The element after the one at rp.
NextRp == (rp + 1) % QueueSize

\* m_cmd_queue.count--, a uint8_t.
Left == (count + 255) % 256

\* Slip: the command freed, and still counted.
CmdSuccessStillCounted ==
  LET freed == [cmd EXCEPT ![rp] = "none"] IN
  /\ swap = "init" /\ evt = "success"
  /\ cmd' = freed /\ rp' = NextRp
  /\ Dequeue(freed, NextRp, 0, "success")
  /\ UNCHANGED <<initialized, swap, count>>

\* ... the success of a command of the queue, which is the end of it, for the
\* block is the whole module and shorter than SOC_MAX_WRITE_SIZE ...
CmdSuccess ==
  LET freed == [cmd EXCEPT ![rp] = "none"] IN
  /\ swap = "init" /\ evt = "success"
  /\ cmd' = freed /\ rp' = NextRp /\ count' = Left
  /\ Dequeue(freed, NextRp, Left, "success")
  /\ UNCHANGED <<initialized, swap>>

\* ... or its failure: the application is told, and the command stays.
CmdError ==
  /\ swap = "init" /\ evt = "error"
  /\ flash_access' = FALSE
  /\ status' = "timeout"
  /\ UNCHANGED <<op, main, initialized, swap, queueVars>>

\* An event while flash_access is not set is taken for somebody else's.
IgnoredEvent ==
  /\ ~flash_access
  /\ UNCHANGED <<op, main, status, pstorageVars>>

\* The places where an event meets a half-done request of the thread.
Window == {"init_flags", "cmd_process", "flash_access", "count_read",
           "count_write"}

Running == main \notin {"halted", "fault"}

SysEvent ==
  /\ evt # "none" /\ evt' = "none"
  /\ CpuFree /\ Running
  /\ main \in Window => EarlyEvents
  /\ IgnoredEvent \/ (flash_access /\ (SwapEvent \/ CmdSuccess \/ CmdError))
  /\ UNCHANGED <<flash, written, calVars, step, tmp>>

-------------------------------------------------------------------------------
(***************************************************************************)
(* The thread: main() up to the end of the calibration dialog.             *)
(***************************************************************************)

Thread(from) == main = from /\ CpuFree

\* pstorage_init: everything is reset, and the swap page is erased.
PstorageInit ==
  /\ Thread("boot")
  /\ swap' = "dirty"
  /\ \E res \in SdFlashResults :
       IF res = "success"
       THEN op' = "erase_swap" /\ main' = "init_flags"
       ELSE op' = op /\ main' = "halted"
  /\ UNCHANGED <<flash, written, evt, initialized, flash_access, queueVars,
                 status, calVars, step, tmp>>

PstorageInitFlags ==
  /\ Thread("init_flags")
  /\ flash_access' = TRUE
  /\ initialized' = TRUE
  /\ main' = "register"
  /\ UNCHANGED <<flash, sdVars, swap, queueVars, status, calVars, step, tmp>>

\* calibration_store_init: APP_ERROR_CHECK(pstorage_register(...)).
PstorageRegister ==
  /\ Thread("register")
  /\ main' = IF initialized THEN "load" ELSE "halted"
  /\ UNCHANGED <<flash, sdVars, pstorageVars, status, calVars, step, tmp>>

\* imu_load_calibration_data: a block that is not accepted changes nothing.
ImuLoadCalibrationData ==
  /\ Thread("load")
  /\ IF ~initialized
     THEN main' = "halted" /\ UNCHANGED cal
     ELSE /\ main' = "dialog"
          /\ cal' = IF LoadAccepts(flash) THEN Content(flash) ELSE cal
  /\ UNCHANGED <<flash, sdVars, pstorageVars, status, data, step, tmp>>

\* imu_calibrate: new coefficients from the serial line or the measured biases.
Recalibrate ==
  /\ Thread("dialog")
  /\ cal' \in Cal
  /\ UNCHANGED <<flash, sdVars, pstorageVars, status, data, ctxVars>>

\* imu_calibrate: done.  Nothing is written from here on.
Quit ==
  /\ Thread("dialog")
  /\ main' = "quit"
  /\ UNCHANGED <<flash, sdVars, pstorageVars, status, calVars, step, tmp>>

\* calibration_store_write, up to the call of pstorage_clear.
CalibrationStoreWrite ==
  /\ Thread("dialog")
  /\ data' = cal
  /\ status' = "pending"
  /\ step' = "clear"
  /\ main' = "enqueue"
  /\ UNCHANGED <<flash, sdVars, pstorageVars, cal, tmp>>

\* pstorage_clear, pstorage_store: the checks of the module and of the queue.
\* What they return is dropped by calibration_store_write.
EnqueueRefused ==
  /\ Thread("enqueue")
  /\ ~initialized \/ count = QueueSize
  /\ main' = "wait"
  /\ UNCHANGED <<flash, sdVars, pstorageVars, status, calVars, step, tmp>>

\* cmd_queue_enqueue, up to the test of flash_access ...
Enqueue ==
  /\ Thread("enqueue")
  /\ initialized /\ count # QueueSize
  /\ cmd' = [cmd EXCEPT ![(rp + count) % QueueSize] = step]
  /\ main' = IF flash_access THEN "count_read" ELSE "cmd_process"
  /\ UNCHANGED <<flash, sdVars, initialized, swap, flash_access, rp, count,
                 status, calVars, step, tmp>>

\* ... cmd_process: the command at rp, which need not be the new one ...
CmdProcess ==
  /\ Thread("cmd_process")
  /\ \/ /\ cmd[rp] = "none"
        /\ main' = "count_read" /\ UNCHANGED op
     \/ /\ cmd[rp] # "none"
        /\ \E res \in SdFlashResults :
             IF res = "success"
             THEN op' = cmd[rp] /\ main' = "flash_access"
             ELSE main' = "count_read" /\ UNCHANGED op
  /\ UNCHANGED <<flash, written, evt, pstorageVars, status, calVars, step, tmp>>

SetFlashAccess ==
  /\ Thread("flash_access")
  /\ flash_access' = TRUE
  /\ main' = "count_read"
  /\ UNCHANGED <<flash, sdVars, initialized, swap, queueVars, status, calVars,
                 step, tmp>>

\* ... and m_cmd_queue.count++, a load and a store.
CountRead ==
  /\ Thread("count_read")
  /\ tmp' = count
  /\ main' = "count_write"
  /\ UNCHANGED <<flash, sdVars, pstorageVars, status, calVars, step>>

CountWrite ==
  /\ Thread("count_write")
  /\ count' = (tmp + 1) % 256
  /\ main' = "wait"
  /\ UNCHANGED <<flash, sdVars, initialized, swap, flash_access, rp, cmd, status,
                 calVars, step, tmp>>

\* Slip: status not reset before pstorage_store.
WaitClearNoReset ==
  /\ Thread("wait") /\ step = "clear"
  /\ status = "success"
  /\ step' = "store"
  /\ main' = "enqueue"
  /\ UNCHANGED <<flash, sdVars, pstorageVars, status, calVars, tmp>>

\* Wait for end of erase ...
WaitClear ==
  /\ Thread("wait") /\ step = "clear"
  /\ status = "success"
  /\ status' = "pending"
  /\ step' = "store"
  /\ main' = "enqueue"
  /\ UNCHANGED <<flash, sdVars, pstorageVars, calVars, tmp>>

\* ... and of write.
WaitStore ==
  /\ Thread("wait") /\ step = "store"
  /\ status = "success"
  /\ main' = "dialog"
  /\ UNCHANGED <<flash, sdVars, pstorageVars, status, calVars, step, tmp>>

Write == EnqueueRefused \/ Enqueue \/ CmdProcess \/ SetFlashAccess \/ CountRead
         \/ CountWrite \/ WaitClear \/ WaitStore

Boot == PstorageInit \/ PstorageInitFlags \/ PstorageRegister
        \/ ImuLoadCalibrationData

Dialog == Recalibrate \/ Quit \/ CalibrationStoreWrite

-------------------------------------------------------------------------------
\* RAM when main() begins: static variables as the C start-up leaves them.
RamReset(c) ==
  /\ initialized' = FALSE /\ swap' = "init" /\ flash_access' = FALSE
  /\ rp' = 0 /\ count' = 0
  /\ cmd' = [i \in 0 .. QueueSize - 1 |-> "none"]
  /\ status' = "success"
  /\ data' = c /\ cal' = c
  /\ main' = "boot" /\ step' = "clear" /\ tmp' = 0

Init ==
  /\ flash = Erased
  /\ op = "none" /\ written = 0 /\ evt = "none"
  /\ initialized = FALSE /\ swap = "init" /\ flash_access = FALSE
  /\ rp = 0 /\ count = 0
  /\ cmd = [i \in 0 .. QueueSize - 1 |-> "none"]
  /\ status = "success"
  /\ data = Factory /\ cal = Factory
  /\ main = "boot" /\ step = "clear" /\ tmp = 0
  /\ early = FALSE /\ failed = FALSE

\* Power fails, or the user resets the device: the flash stays as it is, with
\* the words written so far.
PowerLoss ==
  /\ op' = "none" /\ written' = 0 /\ evt' = "none"
  /\ RamReset(Factory)
  /\ UNCHANGED flash

Flash == FlashErase \/ FlashWord \/ FlashError

\* An event is handled while the thread is within a request.
MeetsRequest == main \in Window /\ evt # "none" /\ evt' = "none"

\* The SoftDevice reports a failure, or refuses what pstorage asks for.
Fails ==
  \/ evt' = "error"
  \/ status' \in {"internal", "busy"}
  \/ main = "cmd_process" /\ main' = "count_read" /\ cmd[rp] # "none"

\* What the properties remember of the steps since the last restart.
Remember ==
  /\ early' = (main' # "boot" /\ (early \/ MeetsRequest))
  /\ failed' = (main' # "boot" /\ (failed \/ Fails))

Next == (Flash \/ SysEvent \/ Boot \/ Dialog \/ Write \/ PowerLoss) /\ Remember

Spec == Init /\ [][Next]_vars

\* The hardware, the interrupt and the thread are served; nothing is assumed of
\* the user and the power.
FairSpec ==
  Spec /\ WF_stateVars(Flash) /\ WF_stateVars(SysEvent) /\ WF_stateVars(Write)

-------------------------------------------------------------------------------
(***************************************************************************)
(* Properties.                                                             *)
(***************************************************************************)

InQueue == {i \in 0 .. QueueSize - 1 : cmd[i] # "none"}

\* A block the boot would accept is one whole calibration, wherever the power
\* failed: calibration_store_load looks only at the first and the last word.
BlockIsWholeOrRejected == Content(flash) # Garbage

\* pstorage.c:212, m_cmd_queue.count: "Number of elements in the queue."
\* The count is right unless an event has met a half-done request, for
\* cmd_queue_enqueue counts a command only after handing it over.
CountIsQueued == ~early /\ main \notin Window => count = Cardinality(InQueue)

\* pstorage.c:213: flash_access is set exactly while a command of pstorage is
\* with the SoftDevice or its event is on the way, failures included.
FlashAccessTracksCommand ==
  ~early /\ main \notin Window /\ Running =>
    (flash_access <=> op # "none" \/ evt # "none")

\* AtomicStore, seen through the variables of this module.
Mode == IF main \in {"boot", "init_flags", "register", "load", "halted", "fault"}
        THEN "down"
        ELSE IF main \in {"dialog", "quit"} THEN "idle" ELSE "writing"

Store == INSTANCE AtomicStore WITH
           stored  <- Content(flash),
           mode    <- Mode,
           request <- IF Mode = "writing" THEN data ELSE NoCal

\* calibration_store_write and calibration_store_load keep the promises of
\* AtomicStore, through power failures: what a restart loads changes only while
\* it is being written, and is the new calibration once the write has returned.
KeepsStore == Store!Spec

\* twi_calibration_store.c:85,92: "Wait for end of erase", "Wait for end of
\* write": a write that has begun returns (or the device is restarted), unless
\* the flash has failed once, which is never tried again, or an event has met a
\* half-done request.
WriteReturns ==
  main = "wait" ~> main \in {"dialog", "boot"} \/ failed \/ early
===============================================================================
