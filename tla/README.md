# Verification of the Twiz firmware

Twiz is the firmware of a small motion sensor: an nRF51822 with a 9-axis IMU
that advertises its orientation, or notifies it to a connected central, every
40 ms while it moves. The application (`src/src`) runs on Nordic's SDK
(`src/lib/nrf51822/sdk_nrf51822_5.2.0`) and on the S110 SoftDevice, a binary
that owns the radio. This directory holds TLA+ models of the code, TLC
configurations that check them on small instances, and TLAPS proofs.

## 1. The system

### Execution contexts

| context | priority | runs |
|---|---|---|
| SoftDevice | highest | radio, link, event queue |
| GPIOTE interrupt | APP_HIGH | `app_gpiote`, `app_button` edges |
| RTC1 (17), SWI0 (20), SWI2 (22), UART0 (2) | APP_LOW | timers, timer lists, SoftDevice events, serial input; one at a time, lowest number first |
| `main()` | thread | boot, then `app_sched_execute`, `imu_update`, sleep |

A failed check (`APP_ERROR_CHECK`, `ERR_CHECK`) calls `app_error_handler`, which
turns the interrupts off and loops: the device is dead until it is reset.

### Components

| component | state | operations | talks to | correct when |
|---|---|---|---|---|
| Event dispatch (`twi_ble_evt.c`, `softdevice_handler.c`) | none of its own | pull every event, tell five modules | SoftDevice, services, advertising, buttons | every module ends up with the same view of the link |
| Advertising (`twi_advertising.c`) | `is_advertising` | start, stop, set data | tick, dispatch, main | the flag is what the radio does; no refused call |
| 40 ms tick (`low_res_timer.c`) | two skip counters | notify, or start/stop advertising | IMU service, motion flag | the radio is never dark for longer than the timeout |
| Services (`ble_imu.c`, `ble_lbs.c`, `ble_nus.c`) | handle, NUS flag | link events, writes, notifications | SoftDevice | notify only the current peer, only what it enabled |
| Connection parameters (`ble_conn_params.c`, `twi_conn.c`) | handle, count, parameters, timer | negotiate, time out | app_timer, SoftDevice | asks only when needed, on a live link |
| app_timer | list of timers, queues of requests | start, stop, expire, update the list | everything | a stopped timer does not fire |
| Buttons (`buttons.c`, `app_button.c`, `app_gpiote.c`) | enabled, detection delay | edge, delay, event | scheduler, LBS | presses are taken only in a connection |
| Scheduler (`app_scheduler.c`) | ring of 10 events | put (interrupt), get (main) | buttons | nothing lost, no overflow |
| Boot and main loop (`main.c`) | program counter | init order, calibration dialog, loop | all | nothing runs before it is initialised |
| UART (`uart.c`, `simple_uart.c`) | line buffer | interrupt, getline, put | NUS, calibration | bytes reach one reader, in order |
| IMU acquisition (`imu.c`, `mpu9150.c`, `ak8975a.c`) | samples, quaternion, motion flag | read, fuse, publish, calibrate | I2C, tick | a published sample is of one moment |
| I2C (`i2c_wrapper.c`, `twi_hw_master_sd.c`) | bus | read, write, clear | sensors | no unbounded wait, no invented byte |
| Clock (`high_res_timer.c`) | two chained timers | get, delay | fusion, TWI | time never goes back |
| Calibration store (`twi_calibration_store.c`, `pstorage.c`) | flash page, swap page, command queue, status | load, store, system events | SoftDevice flash | a whole calibration or none after a power loss; a write that returned is kept; always ends |
| Fusion, LEDs, GAP parameters, printf, start-up | | | | see 8 |

### Hard behaviours

Events are delivered late: between what the radio does and the dispatch of the
event that tells, the tick, the buttons, the UART and the main thread act on
stale state. A timer is stopped by a request that is carried out later. Boot is
preempted by what it has already started. Notifications fail for want of
buffers. Samples and clocks are read in more than one step. Flash operations
complete by event, may fail, and may be cut by a power loss.
`PROJECT.json` lists each hazard at its line.

## 2. Modules

| module | models | abstract specification | proofs |
|---|---|---|---|
| `TwizLink` | the link: dispatch, advertising, tick, services, buttons, connection parameters, main loop | `LinkLifecycle` | `TwizLinkProofs` |
| `AppTimer` | `app_timer.c` in detail: what `TwizLink` takes for granted of its timers | | `AppTimerProofs` |
| `AppScheduler` | `app_scheduler.c` in detail: what `TwizLink` takes for granted of `sched` | `EventQueue` | `AppSchedulerProofs` |
| `CalibrationStore` | `twi_calibration_store.c` over `pstorage.c` and the flash | `AtomicStore` | `CalibrationStoreProofs` |
| `SerialDialog` | the receive interrupt, the calibration window and dialog | | `SerialDialogProofs` |
| `ImuPipeline` | `imu_update` against the tick | | `ImuPipelineProofs` |
| `TwiMaster` | `i2c_wrapper.c` over `twi_hw_master_sd.c` | | `TwiMasterProofs` |
| `HighResTimer` | `get_time()` | | `HighResTimerProofs` |

Each has an `MC` module with the definitions its instances need. `TwizLink` and
`LinkLifecycle`, `AppScheduler` and `EventQueue`, `CalibrationStore` and
`AtomicStore` are composed by a refinement mapping; `TwizLink` takes a
timer for a few facts and the scheduler for a queue, and `AppTimer` and
`AppScheduler` show that it may: the 40 ms timer never stops, a request is never
forgotten, a handler does not run early or much too late, the ring is a queue.
That one start may run a handler twice (section 5) is not passed on to
`TwizLink`: it would ask for an update, or queue a press, twice in a row.

## 3. The link core

`TwizLink` puts together the SoftDevice's radio and event queue with all of the
application that starts, stops or follows a link. Each interrupt handler is one
action, since those that share state run at one priority and do not preempt one
another; the SWI2 loop keeps the context (`low = "swi2"`) until its queue is
empty, one action per event. The main thread runs only when no interrupt is
active or pending, and is split wherever it reads something it acts on later.
The GPIOTE interrupt (`ButtonEdge`) and the SoftDevice interleave with all.

| model | code |
|---|---|
| `adv`, `link`, `sysattr`, `cccd`, `tx`, `evtq` | the SoftDevice (external) |
| `is_advertising`, `AdvertisingStart/Stop`, `MainAdv*` | `twi_advertising.c`; from `main()` in three steps |
| `m_conn_handle`, `conn_handle[m]`, `nus_enabled` | `twi_conn.c`, the services, `ble_conn_params.c` |
| `OnConnected` ... `OnConnParamUpdate`, `Pull`, `EventsDone` | `intern_softdevice_events_execute`, `ble_evt_dispatch` and all it calls |
| `motion`, `adv_cnt`, `notif_cnt`, `TimerTick` | `mpu9150_motion_detected`, `imu_timer_handler` |
| `btn_enabled`, `btn_timer`, `sched`, `ButtonEdge`, `DetectionTimeout`, `SchedGet`, `ButtonNotify` | `app_button.c`, `app_scheduler.c`, `buttons.c` |
| `upd_timer`, `update_count`, `params_ok`, `Negotiate`, `UpdateTimeout` | `ble_conn_params.c` |
| `StartTimer`, `StopTimer`, `Expired`, `Served`, `TimerListHandler` | `app_timer.c` |
| `main`, `Boot`, `MainAt` | `main.c` from `low_res_timer_start()`; `ButtonsInit` is main.c:66-68 in one step |
| `halted` | `app_error_handler`, with the check that failed |
| `dark` | history: ticks in a row that left the radio neither advertising nor connected, nor with a lost link whose event waits |
| `asked` | history: the turn of SWI2 that runs, or that ended the last connection, has queued a start of the update timer |

A timer is a record of three facts: it is in the running list, a start is
queued, a stop is queued. The list handler carries out all stops and then all
starts, so the order of the two in the queue does not matter, which is what
`Served` says and what the finding about timers comes from. An expiry removes the
timer at once; in the code the removal waits for SWI0, which is what
`TimerExpiresOnce` (section 5) comes from and is not repeated here.

Boot calibration (main.c:50-59) may have read samples before the first tick, so
that the motion flag is anything when the model begins. A press is remembered
only as being queued: it may be taken in a later connection than its own, or in
none, and is notified on whatever handle the service has then.

`LinkLifecycle` is the abstract specification: silent, advertising, connected or
halted, with no step from silent to connected and none from connected to silent,
and with silence that does not last. `TwizLink` implements it with the mode its
own variables tell (`Mode`).

Left out of the actions, as no property reads it: the advertised and notified
data, LEDs, the GATT tables. A busy or memory-short SoftDevice
(`BLE_ERROR_..BUSY` of `sd_ble_gap_conn_param_update`) is not modelled, nor a full
operation queue of `app_timer`: both would add ways to halt.

### The calibration store

`CalibrationStore` is `calibration_store_write` and `calibration_store_load` on
top of `pstorage.c`, for the use the firmware makes of it: one block, the whole
of its module, shorter than one flash write. A clear then erases one page and a
store is one write, so the state machine of the swap page is never entered and
the swap page is only erased once, at boot.

| model | code |
|---|---|
| `flash`, `op`, `written`, `evt`, `Flash*` | the flash and the SoftDevice (external): one command at a time, words in order, one event |
| `initialized`, `swap`, `flash_access`, `rp`, `count`, `cmd` | `m_module_initialized`, `m_swap_state`, `m_cmd_queue` |
| `SysEvent` and its cases | `pstorage_sys_event_handler` with all it calls, in the SWI2 interrupt |
| `Enqueue`, `CmdProcess`, `SetFlashAccess`, `CountRead`, `CountWrite` | `cmd_queue_enqueue` and `cmd_process`, from the thread, split where the interrupt can come in |
| `PstorageInit*`, `PstorageRegister`, `ImuLoadCalibrationData` | the storage part of the boot in `main.c` |
| `CalibrationStoreWrite`, `WaitClear`, `WaitStore` | `calibration_store_write` and its two waits |
| `PowerLoss` | RAM as the start-up code leaves it, the flash as it is |

`AtomicStore` is what the callers rely on: a restart loads a whole calibration or
none; it changes only while one is being written; a write that has returned has
kept it. A calibration is a value; the two magic words and at least one word
between them are what `calibration_store_load` and a torn write can tell apart.
An erasure is taken to be atomic: what half an erasure leaves is not in the
source, and a block whose two magic words survived one would be accepted.

An element that is free holds a module number one past `m_app_table`;
`app_notify` of such an element calls whatever is there (`WildCall`): it returns,
or the firmware crashes.

`early` and `failed` are history: since the last restart, an event was handled in
the middle of a request of the thread, or the SoftDevice refused or failed a
command. They let one run, with all faults on, say what each property owes to
which of them: the block and the refinement hold whatever happens; the queue is
consistent unless an event came early; a write returns unless either happened.
Both exceptions are real (section 5).

### The clock

`HighResTimer` is `get_time()`, one action per read of a counter, with the
counters running in between. `shown` and `carries` record what the clock showed
and how often the low counter turned over during the call, which is what the
result is compared with. `MaxCarries < Period` bounds a call to one turn of the
32-bit clock, 71 minutes.

### The scheduler

| model | code |
|---|---|
| `entries`, `start`, `end` | `m_queue_event_headers` and `_data`, the two indices |
| `puts` | the calls of `app_sched_event_put` that have reserved an entry and not yet filled it, one per interrupt level at most |
| `Reserve`, `Refuse`, `Fill` | the critical region of a put, its refusal, the copy outside the region |
| `Take`, `ReadHeader`, `Handled` | `app_sched_event_get` in its two steps, and the return of the handler in `app_sched_execute` |

The thread gives the entry back (`Take` advances `start`) before it has read it;
the ring has one entry more than it holds events, which keeps that one free.
`EventQueue` is the queue the header file promises; the refinement counts an
event as put when its entry is reserved.

### The timers

| model | code |
|---|---|
| `counter`, `cc`, `armed`, `rtc`, `Tick` | RTC1 and its compare register (external) |
| `list`, `delta`, `latest`, `elapsed` | the list of nodes, `ticks_to_expire`, `m_ticks_latest`, `m_ticks_elapsed` |
| `ops`, `Request`, `LowResTimerStart`, `LowRequest`, `Edge` | the operation queues, and who queues what: `main()` once, `ble_conn_params.c` and `app_button_disable` in SWI2, `app_button.c` in GPIOTE |
| `Rtc1Handler`, `Rtc1Queue` | `timer_timeouts_check`, cut where the handlers run |
| `Swi0Deletions`, `Swi0Insertions`, `Swi0Compare`, `Swi0Check` | `timer_list_handler`, cut where GPIOTE or the counter can come in |
| `timer_list_insert`, `timer_list_remove`, `TicksToExpire`, `CompareTicks`, `Forced` | the functions and expressions of these names |
| `due`, `ran`, `runs` | history: the time a timer must expire, the handlers running, how often one start ran |

`due` is what everything is compared with. Two delays are allowed: `MaxLag`,
the ticks from an interrupt to the end of all it leads to, and `OffsetMin`, the
three ticks the code itself puts a compare off (`app_timer.h:214`), once for each
other timer that leaves the head of the list; `Jitter` is their sum. A stop that
GPIOTE queues between the deletions and the insertions of SWI0 is dropped by the
code and by the model. `Wrap` is 33 to 51 instead of 2^24; the assumption names
what has to hold between it and the intervals, and the firmware's values have it
by far.

The run has a VIEW. All conditions are on differences of counter values modulo
`Wrap`, so that two states that differ by a shift of every counter value have
the same future; `FromLatest` counts each value from `m_ticks_latest`, and leaves
out values that are written again before they are read. No invariant tells such
states apart; the type invariant bounds values, and a shift modulo `Wrap` keeps it.

### The serial line

| model | code |
|---|---|
| `fifo`, `rdy`, `rxd`, `Receive`, `ClearEvent`, `ReadRXD` | the UART's receiver (external): reading RXD brings the next byte and its event; without one the byte is read again |
| `pending`, `isr`, `index`, `Interrupt`, `ClearInHandler`, `Collect` | `UART0_IRQHandler`, which reads with the polling `simple_uart_get()` |
| `i`, `timeout_ms`, `button_was_pressed`, `c`, `Turn`, `See`, `Wait`, `ClearInWindow`, `GetWithTimeout` | the window of `main()` and `simple_uart_get_with_timeout` |
| `buf`, `lines`, `SeeInLine`, `ClearInLine`, `getline`, `Line`, `DoCommand`, `Command` | `getline` and `imu_calibrate` |
| `asked`, `calibrated`, `stolen` | history: a `c` came; the dialog was entered; the interrupt has read a byte `main()` had looked for |

`uart_init` enables the interrupt long before the window, and both sides read one
register, each in three steps: look at RXDRDY, clear it, read RXD
(`simple_uart.c:22-28`, `:35-53`). The interrupt may come between any two of those
of `main()`. After the look it takes the character, and `main()` reads the old one
again (`ReadTwiceOnlyAfterTheft`). After the clear it finds no event, although the
byte is there, and waits for ever: the byte is `main()`'s to read, and those behind
it raise no event while RXD is full (the exception in `NoCharacterStranded`). When
`main()` has read the byte that pended it, it waits for the next one. All else
at its priority or below stands still meanwhile, and `WindowCloses` excepts both.
An event that comes while the interrupt runs is latched and pends it again.

### The acquisition

`ImuPipeline` gives every value an age: 0 for what the last burst or the last
update of the filter produced, 1 for the one before. `mpu9150_new_data`,
`mpu9150_read_raw_data`, `motion_detection_check`, `SaveValues`, `CopyAxis`,
`madgwick_quaternion_update`, `StorePart` are the steps of `imu_update`, cut at
every store of a value the tick reads, the motion flag and the saved sample
apart; `Tick` is `imu_timer_handler` with `get_imu_data` and the conversion of
the heading, done with the integers the code uses. `raw` is the static buffer of
the burst: a failed transfer leaves some axes of it whole, some `Torn`, and the
rest with the bytes of earlier bursts.

The conversion of a float that a 16-bit integer cannot hold is undefined in C:
`Int16` is a set, and gives anything (`Junk`) there. The declination takes a
heading below -180 degrees there, and a roll may be 180, so that
`HeadingDecodes` promises a decoded angle from -180 up to but not at 180 only.

### The I2C master

| model | code |
|---|---|
| `pc`, `op`, `transfer`, `done`, `okay`, `buffer` | the access, its transfers and their loops; `transfer_succeeded` |
| `hw`, `event`, `ppi`, `txd`, `rxd`, `at_boundary`, `ByteBoundary`, `Shift`, `AfterByte`, `SendStop` | TWI1 and the PPI channel that suspends or stops it at a byte boundary (external) |
| `pointer`, `got`, `stuck`, `slow`, `Nack`, `LockUp`, `Stretch`, `LetGo` | the slave and the faults (external) |
| `twi_master_clear_bus`, `StartTx`, `StartRx`, `Sent`, `Received`, `Resume`, `Stopped`, `Recover` | `twi_hw_master_sd.c` |
| `Access`, `EndTransfer` | `i2c_wrapper.c` |
| `fault`, `lasting` | history: a fault since the access began; a lock-up no recovery has followed, which the next access begins with |

The recovery is `Recover`: it clears the events and the PPI channel, and turns the
power of the peripheral off and on (`PowerCycled`, `twi_hw_master_sd.c:53-57`),
which alone ends a lock-up. `lasting` is cleared by every recovery, whether the
peripheral is well or not, so that `FailsOnlyOnFault` fails if it is not. A lock-up
is carried into an access only by one that returned success: a STOP locked up
behind a stale STOPPED event.

Bytes are told apart by the register they come from, or by their place in a
write, which is enough to see one lost, doubled or out of place.

## 4. Runs

The bounds are the code's constants made small, or how far an environment goes.

| run | instance | states | shows |
|---|---|---|---|
| `Link` | 2 handles (symmetric), `AdvTimeoutCnt` 1, `NotifTimeoutCnt` 1, 1 buffer, 1 queued press, 1 update request, 1 peer event; the tick and the central may come during boot | 2.7 M | `FlagTracksRadio`, `AdvStopFailsOnlyOnUnseenLink`, `ButtonsFollowLink`, `DarknessBound`, `OnlySlowBootRaces`, `HandlesCatchUp`, `ReplyFailsOnlyOnLostLink`, `TimerOutlivesOnlyItsTurn`, `NotifyFailsOnlyUnready`, the inductive invariant `IInv`, `KeepsLifecycle` (refinement of `LinkLifecycle`) |
| `LinkLive` | 1 handle, `AdvTimeoutCnt` 2, `NotifTimeoutCnt` 0, fairness | 247 k | `SilenceEnds` |
| `Clock` | counters of 4 values, 3 turns in a call | 35 k | `AgreementIsExact`, `BehindByWholeTurns` |
| `Store` | 3 calibrations, 4 words, queue of 4; commands fail, events come early, power fails in every state; fairness | 4 k | `CountIsQueued`, `FlashAccessTracksCommand`, `BlockIsWholeOrRejected`, `KeepsStore` (refinement of `AtomicStore`), `WriteReturns` |
| `Sched` | 2 events, ring of 3, 2 interrupt levels; fairness | 9 k | `RingInv`, `HandlerHasItsData`, `KeepsQueue` (refinement of `EventQueue`, its liveness included) |
| `Timer` | the 40 ms timer and the button's, `MaxLag` 2, queues of 3 | 1.8 M | `TypeOK`, `NeverOverdue`, `NeverEarly`, `NoRequestForgotten` |
| `TimerList` | all 3 timers, `MaxLag` 0, queues of 2 | 171 k | `DeltasAddUp`, `TickNeverLost` |
| `Twi` | 2 first registers of 5, 1 to 3 bytes, every fault at every moment; fairness | 137 k | `ReadIsWhole`, `WriteIsWhole`, `BusStopsInTime`, `FailsOnlyOnFault`, `AccessReturns` |
| `Serial` | window of 2 turns, lines of 2, 2 lines of coefficients, receiver of 2, NUS lines of 3; fairness | 218 k | `TypeOK`, `NoCharacterStranded`, `CalibrationOnRequest`, `ReadTwiceOnlyAfterTheft`, `WindowCloses` |
| `Imu` | headings on either side of the wrap and of the declination, three values for a conversion out of range | 46 k | `TickMixesTwo`, `HeadingDecodes` |
| `LinkAdvStopSucceeds` | | | a violation, see section 5 |
| `TimerExpiresOnce` | 2 timers, `MaxLag` 4 | | a violation, see section 5 |

Why the bounds are enough.

- `Link`. `MaxEvents` stops optional peer traffic once that many events wait;
  connections and disconnections are never held back, so that a queue of two
  occurs. The code compares the timeouts, the buffers and the count only for
  equality or against zero: with a timeout of 1, below and at the limit, advertising
  and connected, and in either order; the longer count is in `LinkLive` and in
  the proofs. The symmetry is used with safety and
  with a refinement that names no handle; the liveness run has no symmetry.
- `Store`. The thread waits for each command, so that the queue never holds more
  than one but for early events, which leave up to two and an element beyond.
- `Timer`, `TimerList`. Two timers, one of them repeated, show every race of the
  compare register; three are needed for an insertion in the middle of the list.
  A turn of SWI2 may queue several requests, up to the queue. With `MaxLag` 0 no
  interrupt of `TimerList` is late: late ones are in `Timer`, and, for three
  timers or more, in the proofs of `DeltasAddUp` and of the three timing properties.
- `Serial`. 2 lines stand for 12, `DataLen` 3 for 20: each is only counted to its
  end. An interrupted line, a full one and an empty one all occur.
- `Sched`. The ring of 3 goes round, fills, and refuses with the thread at each
  of its steps; the proof covers all sizes.

`CHECK_DEADLOCK FALSE` is said by the `Link` runs, where a halted firmware
really stops, by `Twi`, where a peripheral that locks up before a STOP keeps
`main()` for ever, and by `Serial`, where the interrupt may wait for ever for an
event `main()` has cleared, with the byte in RXD. All other systems go on for ever.

`SlowBoot`. `low_res_timer_start()` is a few microseconds before the end of boot
and the first tick 40 ms later; a central needs an advertising packet first. With
`SlowBoot = FALSE` neither comes before boot is over, and no boot race exists;
with `TRUE`, as in `Link`, both may. `OnlySlowBootRaces` says that this is the
only way to reach those checks; that `FALSE` never does is part of `IInv`, proved
for both values.

`EarlyEvents`. The SoftDevice blocks the CPU while it writes flash, so the thread
that has just asked for a command may be stopped until its event has been
handled, inside `cmd_queue_enqueue`.

### Fairness

| run | assumed | why |
|---|---|---|
| `LinkLive` | weak, of `Dispatch` and `EventsDone`, `TimerTick`, `Boot` | a pending interrupt is served; the timer is repeated and never lost (`TickNeverLost`); the thread runs when no interrupt does |
| `Store` | weak, of the flash, `SysEvent` and the thread inside a write | a command is answered, its event handled; nothing of the user or the power |
| `Sched` | weak of `Fill`, strong of `app_sched_execute` | an interrupt handler ends; interrupts preempt the thread again and again, but leave it time between |
| `Twi` | weak, of the driver and of the peripheral | `main()` runs on, and what the peripheral began goes on; no fault needs to end |
| `Serial` | weak of `UART0_IRQHandler`, strong of `MainLoop` | the interrupt takes every byte again, but a byte takes 87 microseconds on the line |

## 5. Disagreements between the code and what it says

Two have a run that expects the violation:

| run | the code | against |
|---|---|---|
| `LinkAdvStopSucceeds` | a tick between a connection and its CONNECTED stops an advertising that is over: fatal | check, `twi_advertising.c:72` |
| `TimerExpiresOnce` | the compare event comes although the interrupt was forced; RTC1 runs again before SWI0 has removed the timer, and calls the handler twice | `app_timer.h:115`, "The timer will expire only once." |

The others are excused by name in a property that holds, so that the property
says exactly how far the trouble goes:

| where | what happens | named in |
|---|---|---|
| `twi_ble_evt.c:60`, `ble_conn_params.c:64` | a peer's request is answered, or an update asked for, when the link is gone and DISCONNECTED is queued behind: fatal | `ReplyFailsOnlyOnLostLink` |
| `ble_conn_params.c:215` | "Stop timer if running" does not stop a timer whose start was queued in the same turn of SWI2: it runs on without a connection, and into the next one, where its update request is one more that a lost link makes fatal | `TimerOutlivesOnlyItsTurn` |
| `buttons.c:26`, `uart.c:98` | a notification before the attributes are set, or with no buffer: fatal, also for a press of the connection before | `NotifyFailsOnlyUnready` |
| `ble_nus.c:38` | the NUS flag outlives its connection | `NotifyFailsOnlyUnready` |
| `twi_ble_evt.c:34` | a central before `buttons_init()`: fatal; the tick during the first `advertising_start()` likewise | `OnlySlowBootRaces` |
| `twi_calibration_store.c:86` | a flash command that fails is waited for without end | `WriteReturns`, `failed` |
| `pstorage.c:344` | a command finished before it is counted: the count wraps to 255 and a free element is processed | `CountIsQueued`, `early` |
| `uart.c:90` | the interrupt waits at APP_LOW for the event of a byte `main()` has taken, or has cleared the event of and not read | `WindowCloses`, `NoCharacterStranded` |
| `uart.c:90`, `main.c:51` | the interrupt takes a character of the dialog, and `main()` reads the one before again | `ReadTwiceOnlyAfterTheft` |
| `high_res_timer.c:53` | a turn of TIMER1 between the reads gives the old high half with the new low one: time goes back by a turn | `BehindByWholeTurns` |
| `imu.c:22` | the tick publishes a mixture of two samples; a failed burst is used | `TickMixesTwo` |
| `imu.c:129` | a heading the declination takes below -180 degrees, or a roll of 180, does not fit the 16-bit conversion, against `imu.c:128`, "keep precision and sign" | `HeadingDecodes` |
| `twi_hw_master_sd.c:78` | no time-out while the STOP is waited for | `AccessReturns` |

Observed while reading, and without a property. The detection timer of the
buttons may outlive a connection like that of the update requests
(`app_button.c:234`): `TwizLink` lets it, and what it queues is a press like any
other. The motion flag is overwritten by the next sample at rest before the tick
reads it (`mpu9150.c:313`): nothing prevents it. When the interrupt takes the end of a
line of coefficients two lines merge, and the next command is parsed as a
coefficient (`imu.c:221`). The interrupt may take the `c` the window waits for.
The gyroscope bias is averaged in radians per second and subtracted from raw
units (`mpu9150.c:310`). Once started, RTC1 never stops, for the 40 ms timer is
always in the list.

## 6. Proofs

For every finite or infinite set of handles and every value of the limits
(`LinkAssumption`: naturals, and an invalid handle that is not a handle):

| theorem | states |
|---|---|
| `TypeCorrect` | `TypeOK` |
| `Inductive` | `IInv` |
| `FlagIsTheRadio`, `HandlesAgree`, `ButtonsFollow`, `DarknessIsBounded` | `FlagTracksRadio`, `HandlesCatchUp`, `ButtonsFollowLink`, `DarknessBound` |
| `TimerLeftoversExplained` | `TimerOutlivesOnlyItsTurn` |
| `SlowBootExplained`, `HaltsExplained`, `RepliesExplained`, `NotificationsExplained` | when the checks of starting and stopping advertising, of replies and update requests, and of notifications can fail: `OnlySlowBootRaces`, `AdvStopFailsOnlyOnUnseenLink`, `ReplyFailsOnlyOnLostLink`, `NotifyFailsOnlyUnready` |
| `ImplementsLifecycle` | `TwizLink` implements the safety part of `LinkLifecycle` |

None of these properties is inductive. What makes them so is the shape of the
event queue (`LinkInv`): CONNECTED can only be its first event and DISCONNECTED
only its last, since a new link needs advertising, and advertising restarts only
in the handler of the DISCONNECTED, with an empty queue. From it follow the flag,
the handles and the reasons for each halt. `BootInv` says the same of a firmware
that still boots (a link then has its CONNECTED at the head, where it will halt),
`DarkInv` ties the darkness to the counter of the tick, whatever the motion flag
was when it began, `TimerInv` adds to `TimerOutlivesOnlyItsTurn` that a start
queued within a turn of SWI2 was queued by that turn, and `HaltInv` remembers why
the firmware stopped. `NotifyFailsOnlyUnready` is inductive relative to `IInv`: a
step that stops the firmware elsewhere does not say "hvx", and the two that do
find the handle they notify on equal to the link, or a DISCONNECTED behind it.
The proofs have a lemma for each action that matters,
two about the queue (`AfterPull`, `AfterPost`) and frame lemmas for the rest.

For every `Period` and `MaxCarries` below it (`ClockAssumption`):

| theorem | states |
|---|---|
| `ClockInductive` | `ClockInv` |
| `ClockBehind`, `AgreementExact` | `BehindByWholeTurns`, `AgreementIsExact` |

`ClockInv` says that TIMER2 is ahead of `th` by the turns counted since, and that
each time read belongs to one shown, but for turns; that fewer than `Period`
turns never bring a counter back to where it was (`OnlyNoTurnStays`) does the rest.

For every size of the ring, every number of levels and every set of events
(`SchedAssumption`: a size of 1 to 255, the indices being bytes):

| theorem | states |
|---|---|
| `RingHolds` | `RingInv` |
| `HandlersGetTheirData` | `HandlerHasItsData` |
| `RingIsAQueue` | `AppScheduler` implements the safety part of `EventQueue` |

Neither property is inductive. `RingInv` measures every index by its distance
from `start` (`Offset`): the entries reserved lie inside the ring in the order of
the puts, so no two interrupts fill the same one; the others inside are filled;
and the entry the thread has given back but still reads is the one at distance
`QueueSize`, which no put can reach (`TakenIsFree`). The arithmetic of indices is
in five lemmas, the refinement has one lemma for each action.

For all headings (`ImuAssumption`: integers from -18000 to 18000, hundredths of a
degree, and `Torn` is no number), and whatever 16 bits a conversion out of range
gives (`JunkAssumption`):

| theorem | states |
|---|---|
| `TickFindsTwo` | `TickMixesTwo` |
| `HeadingSurvives` | `HeadingDecodes` |

`PipeInv` says of each point of `imu_update` which axes are copied and equal the
bytes read, that nothing read is older than what it is still to replace, and that
an axis of neither the last burst nor the one before belongs to a burst that
failed; and the same of the parts of `q`, which no failure reaches.
`HeadingDecodes` is arithmetic: `RoundTrip` follows a value of either sign through
the two truncating divisions and the 16 bits between them, and loses at most one
hundredth.

For every set of calibrations, every block of more than two words, every queue of
2 to 127 elements, with and without early events and flash errors
(`StoreAssumption`: the factory calibration is one; the markers are none):

| theorem | states |
|---|---|
| `BlockNeverGarbage` | `BlockIsWholeOrRejected` |
| `CountsWhatIsQueued`, `FlagTracksCommand` | `CountIsQueued`, `FlashAccessTracksCommand` |
| `StoreIsAtomic` | `KeepsStore`: `CalibrationStore` implements the safety part of `AtomicStore` |

`StoreInv` has one part for each thing that could drift. `BlockInv`: the block is
the first words of the calibration being written, or erased, or whole, and its last
word is written last, which is why a torn block is rejected. `CommandInv`: a
command with the SoftDevice, or its answer, is the one at `rp`, and the thread
waits for it. `RequestInv`: the queue holds at most the command of the thread; when
its status is success the flash is as asked; a store begins on an erased block
only. These hold whatever fails and whatever comes early, and the block and the
refinement need no more. `CountInv` and `AccessInv` say how count and flag lag behind
at each place of the request, unless an event came early. The refinement has a
lemma for each action; what a write promised is read off `status` and `Done`.

For every window, depth of the receiver, length of a line and number of lines
(`SerialAssumption`: all positive, a NUS line of more than two bytes):

| theorem | states |
|---|---|
| `SerialTypes` | `TypeOK`, the bound on the notified line included |
| `NothingStranded` | `NoCharacterStranded` |
| `CalibratesOnRequest` | `CalibrationOnRequest` |
| `ReadTwiceExplained` | `ReadTwiceOnlyAfterTheft` |

`ReceiverInv` adds to `NoCharacterStranded` that a side which saw RXDRDY finds a
byte in RXD even when the other side took it. `TheftInv` is that as long as the
interrupt has taken nothing `main()` had looked for, the event tells exactly that a
byte waits and no side is about to read it. `RequestInv` says of every `c` in the
receiver, or left in RXD under a `main()` about to read it, that it was asked for.

For every set of registers and lengths that fit the slave (`TwiAssumption`), and
every sequence of accesses and faults:

| theorem | states |
|---|---|
| `ReadsAreWhole`, `WritesAreWhole` | `ReadIsWhole`, `WriteIsWhole` |
| `BusIsStoppedInTime` | `BusStopsInTime` |
| `FailureHasACause` | `FailsOnlyOnFault` |

`TwiInv` lists, for every place `main()` can be at, what the peripheral, its events
and the PPI channel may be doing meanwhile: a byte to send is in TXD, on the bus or
acknowledged (`TransmitInv`); the byte in RXD is the one after those read, and the
task at its boundary was the one for it (`ReceiveInv`, `ResumeInv`); between two
transfers nothing is armed or left over (`RestInv`). `FaultInv` says that all that
can make an access fail is a fault of this access, or a lock-up that no recovery
has followed: the recovery clears the rest.

For every set of timers, every queue size, every width of the counter and every
latency for which the intervals of the timers are longer than the jitter and shorter
than half a turn of the counter (`TimerAssumption`; the firmware's 40 ms to 30 s
against 512 s and the three ticks of `app_timer.h` have this by far):

| theorem | states |
|---|---|
| `TypeCorrect` | `TypeOK` |
| `RequestsServed` | `NoRequestForgotten` |
| `TickStays` | `TickNeverLost` |
| `SumsAreDue` | `DeltasAddUp` |
| `NoCompareLost` | `NeverOverdue` |
| `HandlersInTime` | `NeverEarly` |

The last three take three timers or more: with two, the tick a compare can be put
off for is not covered by a `Jitter` of three ticks for each timer but one, in the
count of the proof. The firmware has three; the run `Timer` has two.

The types are a hard part: that no delta goes below nought, that no timer is in
the list twice and that a sum of deltas stays below `Wrap` depend on what three
loops do to the list. `InsertSums`, `RemoveSums` and `ExpireSums` say what one
insertion, one removal and the expiry do to every sum of deltas;
`DeletedFacts`, `InsertedFacts` and `RestartedFacts` carry that through the
loops, whatever their length, by induction over the turns (`Counting`,
`LoopReaches`): a timer that stays keeps the time it expires at. `TypeInv` is
`TypeOK` with the bound on the sums; `BootInv` adds that nobody queues a stop of the
repeated timer, and where it is while it is being restarted.

`TimeInv` is for the last three, and counts everything from `m_ticks_latest`, where
no value turns round: `Total`, the ticks to the expiry of a timer, `Now`, those to
the counter, `Gap`, those from the counter to CC[0]. `DueInv` says that the
totals are the due times, and none is further off than its interval;
`OverdueInv` that the counter is past none by more than its `Slack`, two ticks for
each place further up the list it could still fall from, and the latency;
`AgeInv` that a start waiting in a queue is no older than the latency, and one of the
restart list no older than its timer is late, so that `ticks_diff_get` counts it right
on either side of `m_ticks_latest` (`ExpiryFacts`). None of that is inductive
without what the handlers know at each place: with nothing pending the compare
register will match, and before the slack of every timer is used up (`Waiting`);
between deletions and insertions, either that with two ticks to spare, for the
head has gone and everyone moved up, or no timer is later than the handlers
(`InsertInv`); and while CC[0] is written, that its value is in time for everyone,
and is only missed if `Swi0Check` forces the interrupt (`CompareInv`). A tick, a
request and each stage of the two handlers has a lemma of its own (`TickTime` to
`InsertionsTime`). TLC found `TimeInv` true of two and of three timers first.

## 7. Only model-checked

Liveness is beyond the prover: `SilenceEnds`, `WriteReturns`, `AccessReturns`,
`WindowCloses`, and the fairness of `EventQueue`. The three timing properties
of `AppTimer` are model-checked, not proved, for fewer than three timers.

## 8. Not modelled

- Sensor fusion beyond the order in which its result is stored: floating point.
  A vector of length nought, whose `dt` is lost, and values that are not numbers
  are numeric questions.
- The conversion of negative accelerations to an unsigned type (`imu.c:123`),
  undefined in C like that of `imu.c:129`: no value of it is promised or read.
- The text of a line of coefficients: which numbers are stored after the interrupt
  has taken characters of them.
- LEDs and GAP parameters (written, never read), the GATT tables built at boot,
  printf and start-up code (third-party), `helpers.c` and `twi_error.c` (not
  compiled).
- A full operation queue of `app_timer`: it would need three connection events in
  one turn of the SWI2 loop.
- A SoftDevice that answers BUSY to an update request; the swap page of `pstorage`
  in use; `app_timer_stop_all` and `app_timer_cnt_get`, which nothing calls.

Nearly all of the repository's lines are vendored: the SDK with its headers, its
serialised BLE calls, bond and device managers, example services and their unit
tests, none of which this firmware compiles. The definitions map the application and
the few files of the SDK it runs on; the rest is no part of the program.
