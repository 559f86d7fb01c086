------------------------------- MODULE TwizLink -------------------------------
(***************************************************************************)
(* The link core of the Twiz firmware: the SoftDevice's radio state and    *)
(* event queue (external), and everything in the application that starts,  *)
(* stops or follows a link.                                                *)
(*                                                                         *)
(* Execution contexts.  All application interrupts that matter here run at *)
(* APP_IRQ_PRIORITY_LOW (SWI2 event dispatch, RTC1/SWI0 timers, UART0), so *)
(* they never preempt one another; each handler below is one action.  The  *)
(* main thread runs only while none of them does (low = "idle"), and is    *)
(* split wherever it reads something it later acts on.  The SoftDevice and *)
(* the GPIOTE interrupt interleave with everything.                        *)
(***************************************************************************)
EXTENDS Naturals, Sequences

CONSTANTS
  Handles,          \* connection handles the SoftDevice may hand out
  NoHandle,         \* BLE_CONN_HANDLE_INVALID
  AdvTimeoutCnt,    \* adv_timeout_cnt: 250 timer ticks
  NotifTimeoutCnt,  \* notif_timeout_cnt: 150 timer ticks
  TxBuffers,        \* application TX buffers of the SoftDevice
  SchedQueueSize,   \* SCHED_QUEUE_SIZE: 10
  MaxUpdates,       \* MAX_CONN_PARAMS_UPDATE_COUNT: 3
  MaxEvents,        \* bound: no optional peer traffic once this many events wait
  SlowBoot          \* TRUE: a tick or a central may come before boot is over

ASSUME LinkAssumption ==
  /\ NoHandle \notin Handles
  /\ AdvTimeoutCnt \in Nat
  /\ NotifTimeoutCnt \in Nat
  /\ TxBuffers \in Nat
  /\ SchedQueueSize \in Nat
  /\ MaxUpdates \in Nat
  /\ MaxEvents \in Nat
  /\ SlowBoot \in BOOLEAN

VARIABLES
  \* --- the SoftDevice ---
  adv,             \* is the radio advertising
  link,            \* handle of the current link, or NoHandle
  sysattr,         \* are the link's system attributes set
  cccd,            \* per service: has the peer enabled notifications
  tx,              \* free TX buffers
  evtq,            \* events the application has not pulled yet
  \* --- the application ---
  is_advertising,  \* twi_advertising.c
  m_conn_handle,   \* twi_conn.c
  conn_handle,     \* per module: its own copy of the handle
  nus_enabled,     \* m_nus.is_notification_enabled
  motion,          \* motion_detected of mpu9150.c
  adv_cnt, notif_cnt,  \* statics of imu_timer_handler
  btn_enabled,     \* GPIOTE user of app_button enabled
  btn_timer,       \* detection delay timer of app_button
  sched,           \* button events in the scheduler queue
  upd_timer,       \* m_conn_params_timer_id of ble_conn_params.c
  update_count,    \* m_update_count
  params_ok,       \* is_conn_params_ok(&m_current_conn_params)
  asked,           \* history: the turn of SWI2 that runs, or that ended the last
                   \* connection, has queued a start of that timer
  main, arg,       \* main thread: where it is, the handle it has read
  low,             \* "swi2" while the SoftDevice event loop runs, else "idle"
  halted,          \* "no", or the check that sent the firmware to its error loop
  dark             \* history: ticks in a row that left the radio without
                   \* advertising and without a link event on its way

sdVars   == <<adv, link, sysattr, cccd, tx, evtq>>
linkVars == <<is_advertising, m_conn_handle, conn_handle, nus_enabled>>
tickVars == <<motion, adv_cnt, notif_cnt, dark>>
btnVars  == <<btn_enabled, btn_timer, sched>>
cpVars   == <<upd_timer, update_count, params_ok, asked>>
ctxVars  == <<main, arg, low>>
vars == <<sdVars, linkVars, tickVars, btnVars, cpVars, ctxVars, halted>>

Services == {"imu", "lbs", "nus"}
\* The modules ble_evt_dispatch tells of a link.
Modules == Services \union {"conn_params"}
Requests == {"SYS_ATTR_MISSING", "SEC_PARAMS_REQUEST", "SEC_INFO_REQUEST"}
EventIds == Requests \union {"CONNECTED", "DISCONNECTED", "NUS_CCCD_ON",
                             "NUS_CCCD_OFF", "CONN_PARAM_UPDATE"}
PeerEvents == Requests \union {"CONN_PARAM_UPDATE"}
\* An app_timer: is it in the list of running timers, and the start and stop
\* requests in the operation queues, which SWI0 carries out later.
Timer == [on : BOOLEAN, start : BOOLEAN, stop : BOOLEAN]
Idle  == [on |-> FALSE, start |-> FALSE, stop |-> FALSE]
HaltSites == {"adv_start", "adv_stop", "button_enable", "reply", "conn_update",
              "nus_hvx", "sched_put", "button_hvx"}
BootPcs == {"start_timer", "adv_check", "adv_svc", "adv_flag", "buttons"}
MainPcs == BootPcs \union {"loop", "imu", "hvx"}

Event == [id : EventIds, handle : Handles]

SdTypeOK ==
  /\ adv \in BOOLEAN
  /\ link \in Handles \union {NoHandle}
  /\ sysattr \in BOOLEAN
  /\ cccd \in [Services -> BOOLEAN]
  /\ tx \in 0..TxBuffers
  /\ evtq \in Seq(Event)

LinkTypeOK ==
  /\ is_advertising \in BOOLEAN
  /\ m_conn_handle \in Handles \union {NoHandle}
  /\ conn_handle \in [Modules -> Handles \union {NoHandle}]
  /\ nus_enabled \in BOOLEAN

TickTypeOK ==
  /\ motion \in BOOLEAN
  /\ adv_cnt \in 0..AdvTimeoutCnt
  /\ notif_cnt \in 0..NotifTimeoutCnt
  /\ dark \in Nat

BtnTypeOK ==
  /\ btn_enabled \in BOOLEAN
  /\ btn_timer \in Timer
  /\ sched \in 0..SchedQueueSize

CpTypeOK ==
  /\ upd_timer \in Timer
  /\ update_count \in 0..MaxUpdates
  /\ params_ok \in BOOLEAN
  /\ asked \in BOOLEAN

CtxTypeOK ==
  /\ main \in MainPcs
  /\ arg \in Handles \union {NoHandle}
  /\ low \in {"idle", "swi2"}
  /\ halted \in HaltSites \union {"no"}

\* Every variable holds a value of its C type; the TX buffers, the scheduler
\* queue, the two skip counters of imu_timer_handler and the update count of
\* ble_conn_params.c stay in their ranges.
TypeOK == /\ SdTypeOK
          /\ LinkTypeOK
          /\ TickTypeOK
          /\ BtnTypeOK
          /\ CpTypeOK
          /\ CtxTypeOK

\* main() up to its low_res_timer_start(): nothing is started yet.  The motion
\* flag starts TRUE, but the calibration at boot reads samples too.
Init ==
  /\ adv = FALSE
  /\ link = NoHandle
  /\ sysattr = FALSE
  /\ cccd = [s \in Services |-> FALSE]
  /\ tx = TxBuffers
  /\ evtq = <<>>
  /\ is_advertising = FALSE
  /\ m_conn_handle = NoHandle
  /\ conn_handle = [m \in Modules |-> NoHandle]
  /\ nus_enabled = FALSE
  /\ motion \in BOOLEAN
  /\ adv_cnt = 0
  /\ notif_cnt = 0
  /\ btn_enabled = FALSE
  /\ btn_timer = Idle
  /\ sched = 0
  /\ upd_timer = Idle
  /\ update_count = 0
  /\ params_ok = FALSE
  /\ asked = FALSE
  /\ main = "start_timer"
  /\ arg = NoHandle
  /\ low = "idle"
  /\ halted = "no"
  /\ dark = 0

\* Once the error handler runs, interrupts are off and nothing moves.
Running == halted = "no"
Booted  == main \notin BootPcs
\* The first tick is 40 ms and the first advertising packet a radio start-up
\* away from main()'s last boot step, which follows within microseconds.
OutsideMayAct == Booted \/ SlowBoot

Pending(id) == \E i \in 1..Len(evtq) : evtq[i].id = id

-------------------------------------------------------------------------------
(***************************************************************************)
(* SoftDevice calls (external).                                            *)
(***************************************************************************)

\* sd_ble_gap_adv_start: refused while advertising or connected.
SdAdvStartOk == ~adv /\ link = NoHandle

\* sd_ble_gap_conn_param_update: refused on a handle that is not the link's.
SdConnParamUpdateOk(h) == h = link

\* sd_ble_gatts_hvx: NRF_SUCCESS, or any of the errors that apply.
HvxErrors(h, s) ==
  IF h = NoHandle \/ h # link
  THEN {"INVALID_CONN_HANDLE"}
  ELSE {e \in {"SYS_ATTR_MISSING", "INVALID_STATE", "NO_TX_BUFFERS"} :
          \/ e = "SYS_ATTR_MISSING" /\ ~sysattr
          \/ e = "INVALID_STATE" /\ ~cccd[s]
          \/ e = "NO_TX_BUFFERS" /\ tx = 0}

HvxResults(h, s) ==
  IF HvxErrors(h, s) = {} THEN {"SUCCESS"} ELSE HvxErrors(h, s)

TxAfter(r) == IF r = "SUCCESS" THEN tx - 1 ELSE tx

-------------------------------------------------------------------------------
(***************************************************************************)
(* app_timer.                                                              *)
(***************************************************************************)

\* app_timer_start() and app_timer_stop() only enqueue a request, and all
\* stops are carried out before all starts, whatever their order: a stop counts
\* only for a timer that runs and that no start is queued for.
StartTimer(t) == [t EXCEPT !.start = TRUE, !.stop = FALSE]
StopTimer(t)  == [t EXCEPT !.stop = t.on /\ ~t.start]
Requested(t)  == t.start \/ t.stop

\* SWI0 is not pending.  It is served before SWI2, and before main().
NoTimerRequest == ~Requested(btn_timer) /\ ~Requested(upd_timer)

\* timer_list_handler.
Served(t) == [Idle EXCEPT !.on = t.start \/ (t.on /\ ~t.stop)]

\* timer_timeouts_check: a timer whose stop is only requested still expires.
Expired(t) == [t EXCEPT !.on = FALSE, !.stop = FALSE]

-------------------------------------------------------------------------------
(***************************************************************************)
(* Advertising.                                                            *)
(***************************************************************************)

\* Slip: advertising_start() without its early return.
AdvertisingStartAlways ==
  IF SdAdvStartOk
  THEN adv' = TRUE /\ is_advertising' = TRUE /\ UNCHANGED halted
  ELSE halted' = "adv_start" /\ UNCHANGED <<adv, is_advertising>>

\* Slip: the test of the early return the wrong way round.
AdvertisingStartIfAdvertising ==
  IF ~is_advertising
  THEN UNCHANGED <<adv, is_advertising, halted>>
  ELSE IF SdAdvStartOk
       THEN adv' = TRUE /\ is_advertising' = TRUE /\ UNCHANGED halted
       ELSE halted' = "adv_start" /\ UNCHANGED <<adv, is_advertising>>

\* advertising_start(), called from an interrupt handler.
AdvertisingStart ==
  IF is_advertising
  THEN UNCHANGED <<adv, is_advertising, halted>>
  ELSE IF SdAdvStartOk
       THEN adv' = TRUE /\ is_advertising' = TRUE /\ UNCHANGED halted
       ELSE halted' = "adv_start" /\ UNCHANGED <<adv, is_advertising>>

\* Slip: advertising_stop() without its early return.
AdvertisingStopAlways ==
  IF adv
  THEN adv' = FALSE /\ is_advertising' = FALSE /\ UNCHANGED halted
  ELSE halted' = "adv_stop" /\ UNCHANGED <<adv, is_advertising>>

\* Slip: advertising_stop() leaving the flag set.
AdvertisingStopKeepsFlag ==
  /\ adv' = FALSE
  /\ UNCHANGED <<is_advertising, halted>>

\* advertising_stop(): sd_ble_gap_adv_stop() is refused unless advertising.
AdvertisingStop ==
  IF ~is_advertising
  THEN UNCHANGED <<adv, is_advertising, halted>>
  ELSE IF adv
       THEN adv' = FALSE /\ is_advertising' = FALSE /\ UNCHANGED halted
       ELSE halted' = "adv_stop" /\ UNCHANGED <<adv, is_advertising>>

-------------------------------------------------------------------------------
(***************************************************************************)
(* SWI2: ble_evt_dispatch() of the event at the head of the queue.  The    *)
(* loop keeps the context until the queue is empty.                        *)
(***************************************************************************)

Pull(id) ==
  /\ Running
  /\ low = "swi2" \/ NoTimerRequest
  /\ evtq # <<>>
  /\ Head(evtq).id = id
  /\ evtq' = Tail(evtq)
  /\ low' = "swi2"

\* What is remembered from one event to the next of the same turn of SWI2.
AskedBefore == low = "swi2" /\ asked

\* Slip: the LED/button service not told of link events.
ModulesTakeButLbs(h) ==
  [m \in Modules |-> IF m = "lbs" THEN conn_handle[m] ELSE h]

\* The on_connect and on_disconnect of the three services and of
\* ble_conn_params.c: each copies the handle, BLE_CONN_HANDLE_INVALID included.
ModulesTake(h) == [m \in Modules |-> h]

\* conn_params_negotiation() with parameters that are, or are not, acceptable.
Negotiate(ok) ==
  /\ params_ok' = ok
  /\ upd_timer' = IF ok THEN upd_timer ELSE StartTimer(upd_timer)
  /\ asked' = (~ok \/ AskedBefore)

\* Slip: m_conn_handle not set on connection.
OnBleEvtConnectedNoHandle(h) ==
  /\ is_advertising' = FALSE
  /\ btn_enabled' = TRUE
  /\ UNCHANGED <<m_conn_handle, halted>>

\* BLE_GAP_EVT_CONNECTED in on_ble_evt.  app_button_enable() is refused until
\* buttons_init() has run.
OnBleEvtConnected(h) ==
  /\ m_conn_handle' = h
  /\ is_advertising' = FALSE
  /\ IF Booted
     THEN btn_enabled' = TRUE /\ UNCHANGED halted
     ELSE halted' = "button_enable" /\ UNCHANGED btn_enabled

OnConnected ==
  /\ Pull("CONNECTED")
  /\ OnBleEvtConnected(Head(evtq).handle)
  /\ IF halted' = "no"
     THEN /\ conn_handle' = ModulesTake(Head(evtq).handle)
          /\ update_count' = 0
          /\ \E ok \in BOOLEAN : Negotiate(ok)
     ELSE UNCHANGED <<conn_handle, cpVars>>
  /\ UNCHANGED <<adv, link, sysattr, cccd, tx, nus_enabled, tickVars,
                 btn_timer, sched, main, arg>>

\* Slip: button detection left running after a disconnection.
OnBleEvtDisconnectedButtonsOn ==
  /\ m_conn_handle' = NoHandle
  /\ AdvertisingStart
  /\ UNCHANGED <<btn_enabled, btn_timer>>

\* Slip: advertising not restarted after a disconnection.
OnBleEvtDisconnectedSilent ==
  /\ m_conn_handle' = NoHandle
  /\ btn_enabled' = FALSE
  /\ btn_timer' = StopTimer(btn_timer)
  /\ UNCHANGED <<adv, is_advertising, halted>>

\* BLE_GAP_EVT_DISCONNECTED in on_ble_evt.
OnBleEvtDisconnected ==
  /\ m_conn_handle' = NoHandle
  /\ btn_enabled' = FALSE
  /\ btn_timer' = StopTimer(btn_timer)
  /\ AdvertisingStart

\* Slip: the count is reset but the timer is not stopped.
ConnParamsForgetTimer ==
  /\ update_count' = 0
  /\ UNCHANGED upd_timer

\* on_disconnect of ble_conn_params.c.
ConnParamsOnDisconnect ==
  /\ update_count' = 0
  /\ upd_timer' = StopTimer(upd_timer)

OnDisconnected ==
  /\ Pull("DISCONNECTED")
  /\ OnBleEvtDisconnected
  /\ IF halted' = "no"
     THEN /\ conn_handle' = ModulesTake(NoHandle)
          /\ ConnParamsOnDisconnect
     ELSE UNCHANGED <<conn_handle, update_count, upd_timer>>
  /\ asked' = AskedBefore
  /\ UNCHANGED <<link, sysattr, cccd, tx, nus_enabled, tickVars, sched,
                 params_ok, main, arg>>

\* The requests the stack waits on: each is answered on m_conn_handle, and a
\* refused answer is fatal.
OnRequest(id) ==
  /\ Pull(id)
  /\ IF m_conn_handle = link /\ link # NoHandle
     THEN /\ sysattr' = (sysattr \/ id = "SYS_ATTR_MISSING")
          /\ UNCHANGED halted
     ELSE /\ halted' = "reply"
          /\ UNCHANGED sysattr
  /\ asked' = AskedBefore
  /\ UNCHANGED <<adv, link, cccd, tx, linkVars, tickVars, btnVars, upd_timer,
                 update_count, params_ok, main, arg>>

\* on_write of ble_nus.c for its CCCD.
OnNusCccd(on) ==
  /\ Pull(IF on THEN "NUS_CCCD_ON" ELSE "NUS_CCCD_OFF")
  /\ nus_enabled' = on
  /\ asked' = AskedBefore
  /\ UNCHANGED <<adv, link, sysattr, cccd, tx, is_advertising, m_conn_handle,
                 conn_handle, tickVars, btnVars, upd_timer, update_count,
                 params_ok, main, arg, halted>>

\* on_conn_params_update of ble_conn_params.c.
OnConnParamUpdate ==
  /\ Pull("CONN_PARAM_UPDATE")
  /\ \E ok \in BOOLEAN : Negotiate(ok)
  /\ UNCHANGED <<adv, link, sysattr, cccd, tx, linkVars, tickVars, btnVars,
                 update_count, main, arg, halted>>

Dispatch ==
  \/ OnConnected
  \/ OnDisconnected
  \/ OnConnParamUpdate
  \/ \E id \in Requests : OnRequest(id)
  \/ \E on \in BOOLEAN : OnNusCccd(on)

\* sd_ble_evt_get finds nothing: the loop ends, the context is released.
EventsDone ==
  /\ Running
  /\ low = "swi2"
  /\ evtq = <<>>
  /\ low' = "idle"
  /\ asked' = (asked /\ m_conn_handle = NoHandle)
  /\ UNCHANGED <<sdVars, linkVars, tickVars, btnVars, upd_timer, update_count,
                 params_ok, main, arg, halted>>

-------------------------------------------------------------------------------
(***************************************************************************)
(* The 40 ms timer.                                                        *)
(***************************************************************************)

\* Slip: one tick too many.
MotionDetectedLate(cnt, timeout) == motion \/ cnt = timeout + 1

\* mpu9150_motion_detected(&cnt, timeout): what it returns.
MotionDetected(cnt, timeout) == motion \/ cnt = timeout

\* ... and what it leaves in the counter.
NextCnt(cnt, timeout) == IF MotionDetected(cnt, timeout) THEN 0 ELSE cnt + 1

\* imu_timer_handler while the IMU service has a connection.
TickConnected ==
  /\ conn_handle["imu"] # NoHandle
  /\ notif_cnt' = NextCnt(notif_cnt, NotifTimeoutCnt)
  /\ IF MotionDetected(notif_cnt, NotifTimeoutCnt)
     THEN \E r \in HvxResults(conn_handle["imu"], "imu") : tx' = TxAfter(r)
     ELSE UNCHANGED tx
  /\ dark' = 0
  /\ UNCHANGED <<adv, is_advertising, adv_cnt, halted>>

\* imu_timer_handler otherwise.
TickDisconnected ==
  /\ conn_handle["imu"] = NoHandle
  /\ adv_cnt' = NextCnt(adv_cnt, AdvTimeoutCnt)
  /\ IF MotionDetected(adv_cnt, AdvTimeoutCnt)
     THEN AdvertisingStart
     ELSE AdvertisingStop
  /\ dark' = IF adv' \/ evtq # <<>> THEN 0 ELSE dark + 1
  /\ UNCHANGED <<tx, notif_cnt>>

TimerTick ==
  /\ Running
  /\ low = "idle"
  /\ main # "start_timer"
  /\ OutsideMayAct
  /\ TickConnected \/ TickDisconnected
  /\ UNCHANGED <<link, sysattr, cccd, evtq, m_conn_handle, conn_handle,
                 nus_enabled, motion, btnVars, cpVars, ctxVars>>

-------------------------------------------------------------------------------
(***************************************************************************)
(* Buttons and UART.                                                       *)
(***************************************************************************)

\* GPIOTE interrupt: gpiote_event_handler restarts the detection delay.
ButtonEdge ==
  /\ Running
  /\ btn_enabled
  /\ btn_timer' = StartTimer(StopTimer(btn_timer))
  /\ UNCHANGED <<sdVars, linkVars, tickVars, btn_enabled, sched, cpVars,
                 ctxVars, halted>>

\* detection_delay_timeout_handler: the event goes to the scheduler's queue.
DetectionTimeout ==
  /\ Running
  /\ low = "idle"
  /\ btn_timer.on
  /\ btn_timer' = Expired(btn_timer)
  /\ IF sched < SchedQueueSize
     THEN sched' = sched + 1 /\ UNCHANGED halted
     ELSE halted' = "sched_put" /\ UNCHANGED sched
  /\ UNCHANGED <<sdVars, linkVars, tickVars, btn_enabled, cpVars, ctxVars>>

\* update_timeout_handler of ble_conn_params.c: a refused request is fatal.
UpdateTimeout ==
  /\ Running
  /\ low = "idle"
  /\ upd_timer.on
  /\ upd_timer' = Expired(upd_timer)
  /\ IF conn_handle["conn_params"] = NoHandle
     THEN UNCHANGED <<update_count, halted>>
     ELSE IF update_count < MaxUpdates
          THEN /\ update_count' = update_count + 1
               /\ halted' = IF SdConnParamUpdateOk(conn_handle["conn_params"])
                            THEN halted ELSE "conn_update"
          ELSE update_count' = 0 /\ UNCHANGED halted
  /\ UNCHANGED <<sdVars, linkVars, tickVars, btnVars, params_ok, asked,
                 ctxVars>>

\* SWI0: the requests made since it last ran.
TimerListHandler ==
  /\ Running
  /\ low = "idle"
  /\ ~NoTimerRequest
  /\ btn_timer' = Served(btn_timer)
  /\ upd_timer' = Served(upd_timer)
  /\ UNCHANGED <<sdVars, linkVars, tickVars, btn_enabled, sched, update_count,
                 params_ok, asked, ctxVars, halted>>

\* UART0_IRQHandler completing a line: ble_nus_send_string and its check.
NusLine ==
  /\ Running
  /\ low = "idle"
  /\ conn_handle["nus"] # NoHandle
  /\ nus_enabled
  /\ \E r \in HvxResults(conn_handle["nus"], "nus") :
       /\ tx' = TxAfter(r)
       /\ halted' = IF r \in {"SUCCESS", "INVALID_STATE"} THEN "no" ELSE "nus_hvx"
  /\ UNCHANGED <<adv, link, sysattr, cccd, evtq, linkVars, tickVars, btnVars,
                 cpVars, ctxVars>>

-------------------------------------------------------------------------------
(***************************************************************************)
(* The main thread.                                                        *)
(***************************************************************************)

\* A waiting event, or a timer request, is a pending interrupt: the thread does
\* not move past it.
MainAt(pc) ==
  /\ Running
  /\ low = "idle"
  /\ evtq = <<>>
  /\ NoTimerRequest
  /\ main = pc

\* low_res_timer_start().
StartTick ==
  /\ MainAt("start_timer")
  /\ main' = "adv_check"
  /\ UNCHANGED <<sdVars, linkVars, tickVars, btnVars, cpVars, arg, low,
                 halted>>

\* advertising_start() of main(): the test, the call and the assignment are
\* three steps of a preemptible thread.
MainAdvCheck ==
  /\ MainAt("adv_check")
  /\ main' = IF is_advertising THEN "buttons" ELSE "adv_svc"
  /\ UNCHANGED <<sdVars, linkVars, tickVars, btnVars, cpVars, arg, low,
                 halted>>

MainAdvCall ==
  /\ MainAt("adv_svc")
  /\ IF SdAdvStartOk
     THEN adv' = TRUE /\ main' = "adv_flag" /\ UNCHANGED halted
     ELSE halted' = "adv_start" /\ UNCHANGED <<adv, main>>
  /\ UNCHANGED <<link, sysattr, cccd, tx, evtq, linkVars, tickVars, btnVars,
                 cpVars, arg, low>>

MainAdvFlag ==
  /\ MainAt("adv_flag")
  /\ is_advertising' = TRUE
  /\ main' = "buttons"
  /\ UNCHANGED <<sdVars, m_conn_handle, conn_handle, nus_enabled, tickVars,
                 btnVars, cpVars, arg, low, halted>>

\* gpiote_init(), buttons_init(), scheduler_init().
ButtonsInit ==
  /\ MainAt("buttons")
  /\ main' = "loop"
  /\ UNCHANGED <<sdVars, linkVars, tickVars, btnVars, cpVars, arg, low,
                 halted>>

Boot == StartTick \/ MainAdvCheck \/ MainAdvCall \/ MainAdvFlag \/ ButtonsInit

\* app_sched_execute() takes a button event; button_event_handler reads the
\* handle it will notify on.
SchedGet ==
  /\ MainAt("loop")
  /\ sched > 0
  /\ sched' = sched - 1
  /\ arg' = conn_handle["lbs"]
  /\ main' = "hvx"
  /\ UNCHANGED <<sdVars, linkVars, tickVars, btn_enabled, btn_timer, cpVars,
                 low, halted>>

\* Slip: a handle that is not the link's is no longer tolerated.
ButtonNotifyStrict ==
  /\ MainAt("hvx")
  /\ \E r \in HvxResults(arg, "lbs") :
       /\ tx' = TxAfter(r)
       /\ halted' = IF r \in {"SUCCESS", "INVALID_STATE"} THEN "no" ELSE "button_hvx"
  /\ arg' = NoHandle
  /\ main' = "loop"
  /\ UNCHANGED <<adv, link, sysattr, cccd, evtq, linkVars, tickVars, btnVars,
                 cpVars, low>>

\* ble_lbs_on_button_change and the errors button_event_handler tolerates.
ButtonNotify ==
  /\ MainAt("hvx")
  /\ \E r \in HvxResults(arg, "lbs") :
       /\ tx' = TxAfter(r)
       /\ halted' = IF r \in {"SUCCESS", "INVALID_CONN_HANDLE", "INVALID_STATE"}
                    THEN "no" ELSE "button_hvx"
  /\ arg' = NoHandle
  /\ main' = "loop"
  /\ UNCHANGED <<adv, link, sysattr, cccd, evtq, linkVars, tickVars, btnVars,
                 cpVars, low>>

\* app_sched_execute() finds its queue empty and returns.
SchedEmpty ==
  /\ MainAt("loop")
  /\ sched = 0
  /\ main' = "imu"
  /\ UNCHANGED <<sdVars, linkVars, tickVars, btnVars, cpVars, arg, low,
                 halted>>

\* imu_update(): a new sample overwrites the motion flag.
ImuUpdate ==
  /\ MainAt("imu")
  /\ motion' \in BOOLEAN
  /\ main' = "loop"
  /\ UNCHANGED <<sdVars, linkVars, adv_cnt, notif_cnt, dark, btnVars, cpVars,
                 arg, low, halted>>

-------------------------------------------------------------------------------
(***************************************************************************)
(* The central and the radio (external).                                   *)
(***************************************************************************)

Post(id, h) == evtq' = Append(evtq, [id |-> id, handle |-> h])

Connect(h) ==
  /\ Running
  /\ adv
  /\ OutsideMayAct
  /\ adv' = FALSE
  /\ link' = h
  /\ Post("CONNECTED", h)
  /\ UNCHANGED <<sysattr, cccd, tx, linkVars, tickVars, btnVars, cpVars,
                 ctxVars, halted>>

\* The per-link state goes with the link.
Disconnect ==
  /\ Running
  /\ link # NoHandle
  /\ link' = NoHandle
  /\ sysattr' = FALSE
  /\ cccd' = [s \in Services |-> FALSE]
  /\ tx' = TxBuffers
  /\ Post("DISCONNECTED", link)
  /\ UNCHANGED <<adv, linkVars, tickVars, btnVars, cpVars, ctxVars, halted>>

\* Pairing, new connection parameters, or a first access to a descriptor whose
\* attributes are not set.
PeerRequest(id) ==
  /\ Running
  /\ link # NoHandle
  /\ id = "SYS_ATTR_MISSING" => ~sysattr
  /\ ~Pending(id)
  /\ Len(evtq) < MaxEvents
  /\ Post(id, link)
  /\ UNCHANGED <<adv, link, sysattr, cccd, tx, linkVars, tickVars, btnVars,
                 cpVars, ctxVars, halted>>

\* Only the NUS service keeps anything of a descriptor write.
PeerWritesCccd(s) ==
  /\ Running
  /\ link # NoHandle
  /\ sysattr
  /\ cccd' = [cccd EXCEPT ![s] = ~@]
  /\ IF s = "nus"
     THEN /\ Len(evtq) < MaxEvents
          /\ Post(IF cccd[s] THEN "NUS_CCCD_OFF" ELSE "NUS_CCCD_ON", link)
     ELSE UNCHANGED evtq
  /\ UNCHANGED <<adv, link, sysattr, tx, linkVars, tickVars, btnVars, cpVars,
                 ctxVars, halted>>

TxComplete ==
  /\ Running
  /\ tx < TxBuffers
  /\ tx' = tx + 1
  /\ UNCHANGED <<adv, link, sysattr, cccd, evtq, linkVars, tickVars, btnVars,
                 cpVars, ctxVars, halted>>

-------------------------------------------------------------------------------
Next ==
  \/ Dispatch
  \/ EventsDone
  \/ TimerTick
  \/ ButtonEdge
  \/ DetectionTimeout
  \/ UpdateTimeout
  \/ TimerListHandler
  \/ NusLine
  \/ Boot
  \/ SchedGet
  \/ ButtonNotify
  \/ SchedEmpty
  \/ ImuUpdate
  \/ \E h \in Handles : Connect(h)
  \/ Disconnect
  \/ \E id \in PeerEvents : PeerRequest(id)
  \/ \E s \in Services : PeerWritesCccd(s)
  \/ TxComplete

Spec == Init /\ [][Next]_vars

\* The hardware serves a pending interrupt, the timer repeats, and main() runs
\* when no interrupt does.
Fairness ==
  /\ WF_vars(Dispatch)
  /\ WF_vars(EventsDone)
  /\ WF_vars(TimerTick)
  /\ WF_vars(Boot)

FairSpec == Spec /\ Fairness

-------------------------------------------------------------------------------
(***************************************************************************)
(* Properties.                                                             *)
(***************************************************************************)

\* is_advertising (twi_advertising.c) is what the radio does, except while a
\* CONNECTED event waits to be dispatched: then it is still TRUE although the
\* SoftDevice has stopped advertising by itself.  Every decision of the timer
\* handler and of the DISCONNECTED handler is taken on this flag.
FlagTracksRadio ==
  Running /\ Booted => (is_advertising <=> adv \/ Pending("CONNECTED"))

\* The check of sd_ble_gap_adv_start (twi_advertising.c:60), reached from
\* main(), from the timer and from the end of a connection, and the check of
\* app_button_enable (twi_ble_evt.c:35) can only fail while main() is still
\* booting, and only if boot is slower than the first tick or first central.
OnlySlowBootRaces ==
  halted \in {"adv_start", "button_enable"} => SlowBoot /\ ~Booted

\* The check of sd_ble_gap_adv_stop (twi_advertising.c:72) fails in one
\* situation only: a connection the application has not been told of yet.
AdvStopFailsOnlyOnUnseenLink ==
  halted = "adv_stop" =>
    is_advertising /\ m_conn_handle = NoHandle /\ Pending("CONNECTED")

\* A reply to the stack (twi_ble_evt.c:52-78), or a request for new connection
\* parameters (ble_conn_params.c:64), is refused in one situation only: the
\* link it is for is gone and its DISCONNECTED is still queued.  The timer that
\* asks may be this connection's or one left over from the connection before:
\* either way it is the loss of the present link that gets it refused.
ReplyFailsOnlyOnLostLink ==
  halted \in {"reply", "conn_update"} =>
    link = NoHandle /\ Pending("DISCONNECTED") /\ ~Pending("CONNECTED")

\* "Stop timer if running" (ble_conn_params.c:215): with no connection, the timer
\* of the update requests runs on, or is about to, only if the very turn of SWI2
\* that handled the DISCONNECTED had also queued a start for it, for the stop
\* then comes first or finds nothing to stop (app_timer.c:456).  A timer
\* that ran before that turn, or outlived one connection already, is stopped.
TimerOutlivesOnlyItsTurn ==
  Running /\ m_conn_handle = NoHandle /\ Served(upd_timer).on => asked

\* On the link, but the stack cannot notify yet, or not at the moment.
Unready == link # NoHandle /\ (~sysattr \/ tx = 0)

\* The checks after a notification (buttons.c:26, uart.c:98) fail on a link
\* whose attributes are not set or whose buffers are full.  For a press that is
\* so whenever it was queued, in this connection or an earlier one: one that is
\* notified without a link, or on a handle whose link is lost, is not fatal.
\* That of a NUS line, whose flag outlives its connection (ble_nus.c:38), fails
\* also on a link that is lost and whose DISCONNECTED is still queued, and
\* never once that has been handled.
NotifyFailsOnlyUnready ==
  /\ halted = "button_hvx" => Unready
  /\ halted = "nus_hvx" =>
       /\ nus_enabled
       /\ Unready \/ (link = NoHandle /\ Pending("DISCONNECTED"))

\* ble_evt_dispatch keeps m_conn_handle, the copies of the three services and
\* that of ble_conn_params.c equal, and all of them equal to the SoftDevice's
\* link unless the event that will correct them is already in the queue.
HandlesCatchUp ==
  Running =>
    /\ \A m \in Modules : conn_handle[m] = m_conn_handle
    /\ m_conn_handle # link => Pending("CONNECTED") \/ Pending("DISCONNECTED")

\* Button detection is enabled exactly while the application has a connection
\* (twi_ble_evt.c:34,43), and a count of update requests never survives one
\* (ble_conn_params.c:198,216), although the timers behind the two may.
ButtonsFollowLink ==
  Running =>
    /\ btn_enabled <=> m_conn_handle # NoHandle
    /\ update_count # 0 => m_conn_handle # NoHandle

\* "max number of time we can skip" (low_res_timer.c:37): however still the
\* sensor lies, whatever it did while main() booted, and however connections come
\* and go, no more than adv_timeout_cnt ticks in a row leave the radio itself,
\* not only the flag, without advertising and without a link or a link just lost.
DarknessBound == dark <= AdvTimeoutCnt

\* The application's own view of its radio ...
Mode == IF ~Running THEN "halted"
        ELSE IF m_conn_handle # NoHandle THEN "connected"
        ELSE IF is_advertising THEN "advertising" ELSE "silent"

Lifecycle == INSTANCE LinkLifecycle WITH mode <- Mode

\* ... keeps the promises of LinkLifecycle: it accepts a connection only when
\* it knew it was advertising, and advertises again within the handler of the
\* disconnection.
KeepsLifecycle == Lifecycle!SafeSpec

\* ... and, with the timer and the interrupts served, never stays silent.
SilenceEnds == Lifecycle!Liveness

(***************************************************************************)
(* The inductive invariant behind the safety properties above.             *)
(***************************************************************************)

\* While main() boots: nobody has been told of a link, and if one exists its
\* CONNECTED event is at the head of the queue, where it will halt.
BootInv ==
  /\ m_conn_handle = NoHandle
  /\ conn_handle = ModulesTake(NoHandle)
  /\ ~btn_enabled
  /\ update_count = 0
  /\ evtq # <<>> => SlowBoot /\ evtq[1].id = "CONNECTED"
  /\ evtq = <<>> =>
       /\ link = NoHandle
       /\ IF main = "adv_flag" THEN adv /\ ~is_advertising ELSE is_advertising <=> adv
  /\ ~SlowBoot /\ main \in {"start_timer", "adv_check", "adv_svc"} => ~adv

\* Afterwards: CONNECTED can only be the first event in the queue and
\* DISCONNECTED only the last, because advertising, which a new link needs,
\* only restarts when the queue has been emptied of the old one.
LinkInv ==
  /\ conn_handle = ModulesTake(m_conn_handle)
  /\ btn_enabled <=> m_conn_handle # NoHandle
  /\ update_count # 0 => m_conn_handle # NoHandle
  /\ adv => evtq = <<>> /\ m_conn_handle = NoHandle
  /\ is_advertising <=> adv \/ (evtq # <<>> /\ evtq[1].id = "CONNECTED")
  /\ \A i \in 1..Len(evtq) :
       /\ evtq[i].id = "CONNECTED" => i = 1 /\ m_conn_handle = NoHandle
       /\ evtq[i].id = "DISCONNECTED" => i = Len(evtq) /\ link = NoHandle
  /\ m_conn_handle = NoHandle =>
       IF evtq = <<>> THEN link = NoHandle ELSE evtq[1].id = "CONNECTED"
  /\ link = NoHandle /\ (evtq # <<>> \/ m_conn_handle # NoHandle) =>
       evtq # <<>> /\ evtq[Len(evtq)].id = "DISCONNECTED"
  /\ link # NoHandle =>
       link = IF m_conn_handle = NoHandle THEN evtq[1].handle ELSE m_conn_handle

\* Darkness never outruns the counter that bounds it.
DarkInv == dark <= adv_cnt

\* A start that is queued within a turn of SWI2 was queued by this turn, so that
\* the stop of a DISCONNECTED in it is the only one that can be without effect.
TimerInv ==
  /\ Running /\ low = "swi2" /\ upd_timer.start => asked
  /\ TimerOutlivesOnlyItsTurn

HaltInv ==
  /\ OnlySlowBootRaces
  /\ AdvStopFailsOnlyOnUnseenLink
  /\ ReplyFailsOnlyOnLostLink

\* APP_ERROR_CHECK of advertising_stop (twi_advertising.c:72): the stack accepts
\* the call.  Refuted: a tick may call it on a flag the connection has overtaken.
AdvStopSucceeds == halted # "adv_stop"

\* In every reachable state the variables have their types, the invariant of
\* the phase the firmware is in holds (while main() boots, main.c:62-68; once it
\* is served from the event loop, twi_ble_evt.c:31-49,88-98), the counter of
\* mpu9150_motion_detected bounds the darkness, a timer that outlives its
\* connection was asked for by the turn that ended it, and a halt of app_error_handler
\* has one of the known causes.
IInv ==
  /\ TypeOK
  /\ Running /\ ~Booted => BootInv
  /\ Running /\ Booted => LinkInv
  /\ DarkInv
  /\ TimerInv
  /\ HaltInv
===============================================================================
