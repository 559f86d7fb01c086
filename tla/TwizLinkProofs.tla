---------------------------- MODULE TwizLinkProofs ----------------------------
(***************************************************************************)
(* TwizLink, for every set of handles, every value of the two tick limits, *)
(* of the buffer and queue sizes and of MaxEvents, and for boot sequences  *)
(* slow and fast: what Tail and Append do to the event queue, the types,   *)
(* the inductive invariant and the safety properties that follow from it.  *)
(*                                                                         *)
(* Every handler runs only while the firmware is Running, so the invariant *)
(* has one part for a booting firmware (BootInv), one for a booted one     *)
(* (LinkInv), and one that remembers why it stopped (HaltInv).             *)
(***************************************************************************)
EXTENDS TwizLink, TLAPS

-------------------------------------------------------------------------------
(***************************************************************************)
(* The queue of events.                                                    *)
(***************************************************************************)

\* Pulling an event leaves the others in order.
LEMMA TailOfQueue ==
  ASSUME NEW S, NEW q \in Seq(S), q # <<>>
  PROVE  /\ Tail(q) \in Seq(S)
         /\ Len(q) \in Nat \ {0}
         /\ Len(Tail(q)) = Len(q) - 1
         /\ \A i \in 1..Len(Tail(q)) : Tail(q)[i] = q[i + 1]
         /\ Head(q) = q[1]
         /\ q[1] \in S
         /\ Tail(q) = <<>> <=> Len(q) = 1
  <1>1. Len(q) \in Nat \ {0}
    OBVIOUS
  <1>2. /\ Tail(q) \in Seq(S)
        /\ Len(Tail(q)) = Len(q) - 1
        /\ \A i \in 1..Len(Tail(q)) : Tail(q)[i] = q[i + 1]
    BY <1>1
  <1>3. Head(q) = q[1] /\ q[1] \in S
    BY <1>1
  <1>4. Tail(q) = <<>> <=> Len(q) = 1
    <2>1. Len(<<>>) = 0 /\ (Len(Tail(q)) = 0 => Tail(q) = <<>>)
      BY <1>2
    <2>2. QED
      BY <1>1, <1>2, <2>1
  <1>5. QED
    BY <1>1, <1>2, <1>3, <1>4

\* A queue that is not empty has a first and a last event.
LEMMA EmptyQueue ==
  ASSUME NEW S, NEW q \in Seq(S), q # <<>>
  PROVE  1 \in 1..Len(q) /\ Len(q) \in 1..Len(q)
  OBVIOUS

\* Posting an event leaves the others where they are.
LEMMA AppendToQueue ==
  ASSUME NEW S, NEW q \in Seq(S), NEW e \in S
  PROVE  /\ Append(q, e) \in Seq(S)
         /\ Append(q, e) # <<>>
         /\ Len(q) \in Nat
         /\ Len(Append(q, e)) = Len(q) + 1
         /\ \A i \in 1..Len(q) : Append(q, e)[i] = q[i]
         /\ Append(q, e)[Len(q) + 1] = e
         /\ q = <<>> <=> Len(q) = 0
  OBVIOUS

-------------------------------------------------------------------------------
(***************************************************************************)
(* Type correctness.                                                       *)
(***************************************************************************)

\* What a pulled event looks like, and what is left.
LEMMA PullType ==
  ASSUME SdTypeOK, NEW id, Pull(id)
  PROVE  /\ evtq' \in Seq(Event)
         /\ Head(evtq).handle \in Handles
         /\ low' = "swi2"
  <1>1. evtq \in Seq(Event) /\ evtq # <<>>
    BY DEF SdTypeOK, Pull
  <1>2. evtq' \in Seq(Event) /\ Head(evtq) \in Event
    BY <1>1, TailOfQueue DEF Pull
  <1>3. QED
    BY <1>2 DEF Pull, Event

\* Posting to the queue.
LEMMA PostType ==
  ASSUME SdTypeOK, NEW id \in EventIds, NEW h \in Handles, Post(id, h)
  PROVE  evtq' \in Seq(Event)
  BY AppendToQueue DEF SdTypeOK, Post, Event

\* A notification never takes a buffer that is not there.
LEMMA TxType ==
  ASSUME SdTypeOK, NEW h, NEW s \in Services, NEW r \in HvxResults(h, s)
  PROVE  /\ TxAfter(r) \in 0..TxBuffers
  <1>1. CASE r = "SUCCESS"
    <2>1. HvxErrors(h, s) = {}
      BY <1>1 DEF HvxResults, HvxErrors
    <2>2. tx # 0
      BY <2>1 DEF HvxErrors
    <2>3. QED
      BY <1>1, <2>2, LinkAssumption DEF SdTypeOK, TxAfter
  <1>2. CASE r # "SUCCESS"
    BY <1>2 DEF SdTypeOK, TxAfter
  <1>3. QED
    BY <1>1, <1>2

\* Starting and stopping the radio touch nothing else.
LEMMA AdvertisingType ==
  ASSUME SdTypeOK, LinkTypeOK, CtxTypeOK, AdvertisingStart \/ AdvertisingStop
  PROVE  /\ adv' \in BOOLEAN
         /\ is_advertising' \in BOOLEAN
         /\ halted' \in HaltSites \union {"no"}
  BY DEF SdTypeOK, LinkTypeOK, CtxTypeOK, AdvertisingStart, AdvertisingStop,
     HaltSites

\* Both counters stay within their timeout.
LEMMA CntType ==
  ASSUME NEW timeout \in Nat, NEW cnt \in 0..timeout
  PROVE  NextCnt(cnt, timeout) \in 0..timeout
  BY DEF NextCnt, MotionDetected

\* What is done to an app_timer leaves an app_timer.
LEMMA TimerType ==
  ASSUME NEW t \in Timer
  PROVE  /\ StartTimer(t) \in Timer
         /\ StopTimer(t) \in Timer
         /\ Served(t) \in Timer
         /\ Expired(t) \in Timer
  BY DEF Timer, Idle, StartTimer, StopTimer, Served, Expired

LEMMA InitType == Init => TypeOK
  <1> SUFFICES ASSUME Init PROVE TypeOK
    OBVIOUS
  <1> USE LinkAssumption
  <1>1. SdTypeOK
    <2>1. /\ adv = FALSE /\ link = NoHandle /\ sysattr = FALSE
          /\ cccd = [s \in Services |-> FALSE] /\ tx = TxBuffers /\ evtq = <<>>
      BY DEF Init
    <2>2. <<>> \in Seq(Event)
      OBVIOUS
    <2>3. cccd \in [Services -> BOOLEAN] /\ tx \in 0..TxBuffers
      BY <2>1
    <2>4. QED
      BY <2>1, <2>2, <2>3 DEF SdTypeOK
  <1>2. LinkTypeOK
    BY DEF Init, LinkTypeOK
  <1>3. TickTypeOK
    BY DEF Init, TickTypeOK
  <1>4. BtnTypeOK /\ CpTypeOK
    <2>1. Idle \in Timer
      BY DEF Idle, Timer
    <2>2. btn_enabled \in BOOLEAN /\ btn_timer \in Timer
      BY <2>1 DEF Init
    <2>3. upd_timer \in Timer /\ params_ok \in BOOLEAN /\ asked \in BOOLEAN
      BY <2>1 DEF Init
    <2>4. sched \in 0..SchedQueueSize /\ update_count \in 0..MaxUpdates
      BY DEF Init
    <2>5. QED
      BY <2>2, <2>3, <2>4 DEF BtnTypeOK, CpTypeOK
  <1>5. CtxTypeOK
    BY DEF Init, CtxTypeOK, MainPcs, BootPcs
  <1>6. QED
    BY <1>1, <1>2, <1>3, <1>4, <1>5 DEF TypeOK

LEMMA NextType == TypeOK /\ [Next]_vars => TypeOK'
  <1> SUFFICES ASSUME TypeOK, [Next]_vars
               PROVE  TypeOK'
    OBVIOUS
  <1> USE LinkAssumption
      DEF TypeOK, sdVars, linkVars, tickVars, btnVars, cpVars, ctxVars
  <1>1. CASE OnConnected
    <2> USE <1>1 DEF OnConnected, OnBleEvtConnected
    <2>1. SdTypeOK'
      BY PullType DEF SdTypeOK
    <2>2. LinkTypeOK'
      BY PullType DEF LinkTypeOK, ModulesTake
    <2>3. TickTypeOK'
      BY DEF TickTypeOK
    <2>4. BtnTypeOK'
      BY DEF BtnTypeOK
    <2>5. upd_timer' \in Timer /\ params_ok' \in BOOLEAN /\ asked' \in BOOLEAN
      BY TimerType DEF CpTypeOK, Negotiate, AskedBefore
    <2>6. update_count' \in 0..MaxUpdates
      BY DEF CpTypeOK
    <2>7. CtxTypeOK'
      BY PullType DEF CtxTypeOK, HaltSites
    <2>8. QED
      BY <2>1, <2>2, <2>3, <2>4, <2>5, <2>6, <2>7 DEF CpTypeOK
  <1>2. CASE OnDisconnected
    <2> USE <1>2 DEF OnDisconnected, OnBleEvtDisconnected, ConnParamsOnDisconnect
    <2>1. SdTypeOK'
      BY PullType, AdvertisingType DEF SdTypeOK
    <2>2. LinkTypeOK'
      BY AdvertisingType DEF LinkTypeOK, ModulesTake
    <2>3. TickTypeOK'
      BY DEF TickTypeOK
    <2>4. BtnTypeOK'
      BY TimerType DEF BtnTypeOK
    <2>5. upd_timer' \in Timer /\ params_ok' \in BOOLEAN /\ asked' \in BOOLEAN
      BY TimerType DEF CpTypeOK, AskedBefore
    <2>6. update_count' \in 0..MaxUpdates
      BY DEF CpTypeOK
    <2>7. CtxTypeOK'
      BY PullType, AdvertisingType DEF CtxTypeOK
    <2>8. QED
      BY <2>1, <2>2, <2>3, <2>4, <2>5, <2>6, <2>7 DEF CpTypeOK
  <1>3. ASSUME NEW id \in Requests, OnRequest(id)
        PROVE  TypeOK'
    <2> USE <1>3 DEF OnRequest
    <2>1. SdTypeOK'
      BY PullType DEF SdTypeOK
    <2>2. LinkTypeOK' /\ TickTypeOK' /\ BtnTypeOK' /\ CpTypeOK'
      BY DEF LinkTypeOK, TickTypeOK, BtnTypeOK, CpTypeOK, AskedBefore
    <2>3. CtxTypeOK'
      BY PullType DEF CtxTypeOK, HaltSites
    <2>4. QED
      BY <2>1, <2>2, <2>3
  <1>4. ASSUME NEW on \in BOOLEAN, OnNusCccd(on)
        PROVE  TypeOK'
    BY <1>4, PullType DEF OnNusCccd, SdTypeOK, LinkTypeOK, TickTypeOK,
       BtnTypeOK, CpTypeOK, AskedBefore,
       CtxTypeOK
  <1>5. CASE OnConnParamUpdate
    <2> USE <1>5 DEF OnConnParamUpdate
    <2>1. SdTypeOK' /\ CtxTypeOK'
      BY PullType DEF SdTypeOK, CtxTypeOK
    <2>2. LinkTypeOK' /\ TickTypeOK' /\ BtnTypeOK'
      BY DEF LinkTypeOK, TickTypeOK, BtnTypeOK
    <2>3. CpTypeOK'
      BY TimerType DEF CpTypeOK, Negotiate, AskedBefore
    <2>4. QED
      BY <2>1, <2>2, <2>3
  <1>6. CASE EventsDone
    BY <1>6 DEF EventsDone, SdTypeOK, LinkTypeOK, TickTypeOK, BtnTypeOK,
       CpTypeOK, CtxTypeOK
  <1>7. CASE TimerTick
    <2> USE <1>7 DEF TimerTick
    <2>1. CASE TickConnected
      <3>1. SdTypeOK'
        BY <2>1, TxType DEF TickConnected, SdTypeOK, Services
      <3>2. LinkTypeOK' /\ BtnTypeOK' /\ CpTypeOK' /\ CtxTypeOK'
        BY <2>1 DEF TickConnected, LinkTypeOK, BtnTypeOK, CpTypeOK, CtxTypeOK
      <3>3. TickTypeOK'
        BY <2>1, CntType DEF TickConnected, TickTypeOK
      <3>4. QED
        BY <3>1, <3>2, <3>3
    <2>2. CASE TickDisconnected
      <3>1. AdvertisingStart \/ AdvertisingStop
        BY <2>2 DEF TickDisconnected
      <3>2. SdTypeOK' /\ LinkTypeOK'
        BY <2>2, <3>1, AdvertisingType DEF TickDisconnected, SdTypeOK,
           LinkTypeOK
      <3>3. BtnTypeOK' /\ CpTypeOK' /\ CtxTypeOK'
        BY <2>2, <3>1, AdvertisingType DEF TickDisconnected, BtnTypeOK,
           CpTypeOK, CtxTypeOK
      <3>4. TickTypeOK'
        BY <2>2, CntType DEF TickDisconnected, TickTypeOK
      <3>5. QED
        BY <3>2, <3>3, <3>4
    <2>3. QED
      BY <2>1, <2>2
  <1>8. CASE ButtonEdge
    BY <1>8, TimerType DEF ButtonEdge, SdTypeOK, LinkTypeOK, TickTypeOK,
       BtnTypeOK, CpTypeOK, CtxTypeOK
  <1>9. CASE DetectionTimeout
    <2>1. SdTypeOK' /\ LinkTypeOK' /\ TickTypeOK'
      BY <1>9 DEF DetectionTimeout, SdTypeOK, LinkTypeOK, TickTypeOK
    <2>2. sched' \in 0..SchedQueueSize
      BY <1>9 DEF DetectionTimeout, BtnTypeOK, CpTypeOK
    <2>3. btn_enabled' \in BOOLEAN /\ btn_timer' \in Timer /\ CpTypeOK'
      BY <1>9, TimerType DEF DetectionTimeout, BtnTypeOK, CpTypeOK
    <2>4. BtnTypeOK' /\ CpTypeOK'
      BY <2>2, <2>3 DEF BtnTypeOK
    <2>5. CtxTypeOK'
      BY <1>9 DEF DetectionTimeout, CtxTypeOK, HaltSites
    <2>6. QED
      BY <2>1, <2>4, <2>5
  <1>10. CASE UpdateTimeout
    <2> USE <1>10 DEF UpdateTimeout
    <2>1. SdTypeOK' /\ LinkTypeOK' /\ TickTypeOK' /\ BtnTypeOK'
      BY DEF SdTypeOK, LinkTypeOK, TickTypeOK, BtnTypeOK
    <2>2. upd_timer' \in Timer /\ params_ok' \in BOOLEAN /\ asked' \in BOOLEAN
      BY TimerType DEF CpTypeOK
    <2>3. update_count' \in 0..MaxUpdates
      BY DEF CpTypeOK
    <2>4. CtxTypeOK'
      BY DEF CtxTypeOK, HaltSites
    <2>5. QED
      BY <2>1, <2>2, <2>3, <2>4 DEF CpTypeOK
  <1>11. CASE TimerListHandler
    BY <1>11, TimerType DEF TimerListHandler, SdTypeOK, LinkTypeOK, TickTypeOK,
       BtnTypeOK, CpTypeOK, CtxTypeOK
  <1>12. CASE NusLine
    <2> USE <1>12 DEF NusLine
    <2>1. SdTypeOK'
      BY TxType DEF SdTypeOK, Services
    <2>2. LinkTypeOK' /\ TickTypeOK' /\ BtnTypeOK' /\ CpTypeOK'
      BY DEF LinkTypeOK, TickTypeOK, BtnTypeOK, CpTypeOK
    <2>3. CtxTypeOK'
      BY DEF CtxTypeOK, HaltSites
    <2>4. QED
      BY <2>1, <2>2, <2>3
  <1>13. CASE Boot
    <2> USE <1>13 DEF Boot, StartTick, MainAdvCheck, MainAdvCall, MainAdvFlag,
                      ButtonsInit
    <2>1. SdTypeOK'
      BY DEF SdTypeOK
    <2>2. LinkTypeOK'
      BY DEF LinkTypeOK
    <2>3. TickTypeOK' /\ BtnTypeOK' /\ CpTypeOK'
      BY DEF TickTypeOK, BtnTypeOK, CpTypeOK
    <2>4. CtxTypeOK'
      BY DEF CtxTypeOK, MainPcs, BootPcs, HaltSites
    <2>5. QED
      BY <2>1, <2>2, <2>3, <2>4
  <1>14. CASE SchedGet
    <2>1. SdTypeOK' /\ LinkTypeOK' /\ TickTypeOK'
      BY <1>14 DEF SchedGet, SdTypeOK, LinkTypeOK, TickTypeOK
    <2>2. BtnTypeOK' /\ CtxTypeOK'
      BY <1>14 DEF SchedGet, BtnTypeOK, CtxTypeOK, LinkTypeOK,
         MainPcs, Modules, Services
    <2>3. CpTypeOK'
      BY <1>14 DEF SchedGet, CpTypeOK
    <2>4. QED
      BY <2>1, <2>2, <2>3
  <1>15. CASE ButtonNotify
    <2> USE <1>15 DEF ButtonNotify
    <2>1. SdTypeOK'
      BY TxType DEF SdTypeOK, Services
    <2>2. LinkTypeOK' /\ TickTypeOK' /\ BtnTypeOK' /\ CpTypeOK'
      BY DEF LinkTypeOK, TickTypeOK, BtnTypeOK, CpTypeOK
    <2>3. CtxTypeOK'
      BY DEF CtxTypeOK, MainPcs, HaltSites
    <2>4. QED
      BY <2>1, <2>2, <2>3
  <1>16. CASE SchedEmpty
    BY <1>16 DEF SchedEmpty, SdTypeOK, LinkTypeOK, TickTypeOK, BtnTypeOK,
       CpTypeOK, CtxTypeOK,
       MainPcs
  <1>17. CASE ImuUpdate
    BY <1>17 DEF ImuUpdate, SdTypeOK, LinkTypeOK, TickTypeOK, BtnTypeOK,
       CpTypeOK, CtxTypeOK,
       MainPcs
  <1>18. ASSUME NEW h \in Handles, Connect(h)
         PROVE  TypeOK'
    <2> USE <1>18 DEF Connect
    <2>1. SdTypeOK'
      BY PostType DEF SdTypeOK, EventIds
    <2>2. LinkTypeOK' /\ TickTypeOK' /\ BtnTypeOK' /\ CpTypeOK' /\ CtxTypeOK'
      BY DEF LinkTypeOK, TickTypeOK, BtnTypeOK, CpTypeOK, CtxTypeOK
    <2>3. QED
      BY <2>1, <2>2
  <1>19. CASE Disconnect
    <2> USE <1>19 DEF Disconnect
    <2>1. link \in Handles
      BY DEF SdTypeOK
    <2>2. evtq' \in Seq(Event)
      BY <2>1, PostType DEF EventIds
    <2>3. cccd' \in [Services -> BOOLEAN] /\ tx' \in 0..TxBuffers
      OBVIOUS
    <2>4. /\ adv' \in BOOLEAN
          /\ link' \in Handles \union {NoHandle}
          /\ sysattr' \in BOOLEAN
      BY DEF SdTypeOK
    <2>5. LinkTypeOK' /\ TickTypeOK' /\ BtnTypeOK' /\ CpTypeOK' /\ CtxTypeOK'
      BY DEF LinkTypeOK, TickTypeOK, BtnTypeOK, CpTypeOK, CtxTypeOK
    <2>6. QED
      BY <2>2, <2>3, <2>4, <2>5 DEF SdTypeOK
  <1>20. ASSUME NEW id \in PeerEvents, PeerRequest(id)
         PROVE  TypeOK'
    <2> USE <1>20 DEF PeerRequest
    <2>1. link \in Handles
      BY DEF SdTypeOK
    <2>2. SdTypeOK'
      BY <2>1, PostType DEF SdTypeOK, EventIds, PeerEvents
    <2>3. LinkTypeOK' /\ TickTypeOK' /\ BtnTypeOK' /\ CpTypeOK' /\ CtxTypeOK'
      BY DEF LinkTypeOK, TickTypeOK, BtnTypeOK, CpTypeOK, CtxTypeOK
    <2>4. QED
      BY <2>2, <2>3
  <1>21. ASSUME NEW s \in Services, PeerWritesCccd(s)
         PROVE  TypeOK'
    <2> USE <1>21 DEF PeerWritesCccd
    <2>1. link \in Handles
      BY DEF SdTypeOK
    <2>2. evtq' \in Seq(Event)
      BY <2>1, PostType DEF SdTypeOK, EventIds
    <2>3. SdTypeOK'
      BY <2>2 DEF SdTypeOK
    <2>4. LinkTypeOK' /\ TickTypeOK' /\ BtnTypeOK' /\ CpTypeOK' /\ CtxTypeOK'
      BY DEF LinkTypeOK, TickTypeOK, BtnTypeOK, CpTypeOK, CtxTypeOK
    <2>5. QED
      BY <2>3, <2>4
  <1>22. CASE TxComplete
    BY <1>22 DEF TxComplete, SdTypeOK, LinkTypeOK, TickTypeOK, BtnTypeOK,
       CpTypeOK, CtxTypeOK
  <1>23. CASE UNCHANGED vars
    BY <1>23 DEF vars, SdTypeOK, LinkTypeOK, TickTypeOK, BtnTypeOK, CpTypeOK,
       CtxTypeOK
  <1>24. QED
    BY <1>1, <1>2, <1>3, <1>4, <1>5, <1>6, <1>7, <1>8, <1>9, <1>10, <1>11,
       <1>12, <1>13, <1>14, <1>15, <1>16, <1>17, <1>18, <1>19, <1>20, <1>21,
       <1>22, <1>23
       DEF Next, Dispatch

\* TypeOK holds in every reachable state: in particular the counters of
\* imu_timer_handler never pass their limits, whatever the limits are.
THEOREM TypeCorrect == Spec => []TypeOK
  BY InitType, NextType, PTL DEF Spec

-------------------------------------------------------------------------------
(***************************************************************************)
(* Frames: what a step that leaves the link alone preserves.               *)
(***************************************************************************)

LEMMA LinkFrame ==
  ASSUME LinkInv,
         UNCHANGED <<adv, link, evtq, is_advertising, m_conn_handle,
                     conn_handle, btn_enabled>>,
         update_count' # 0 => m_conn_handle # NoHandle
  PROVE  LinkInv'
  BY DEF LinkInv, ModulesTake

LEMMA BootFrame ==
  ASSUME BootInv,
         UNCHANGED <<adv, link, evtq, is_advertising, m_conn_handle,
                     conn_handle, btn_enabled, update_count, main>>
  PROVE  BootInv'
  BY DEF BootInv, ModulesTake

LEMMA DarkFrame ==
  ASSUME DarkInv, UNCHANGED <<adv_cnt, dark>>
  PROVE  DarkInv'
  BY DEF DarkInv

\* A step of a running firmware that fails none of the checks that HaltInv explains.
LEMMA HaltFrame ==
  ASSUME halted' \notin {"adv_start", "button_enable", "adv_stop", "reply",
                      "conn_update"}
  PROVE  HaltInv'
  BY DEF HaltInv, OnlySlowBootRaces, AdvStopFailsOnlyOnUnseenLink,
     ReplyFailsOnlyOnLostLink

\* Nothing that concerns the invariant but, perhaps, the count of update
\* requests and the reason for stopping.
LEMMA AllFrame ==
  ASSUME IInv, TypeOK', TimerInv', Running,
         UNCHANGED <<adv, link, evtq, is_advertising, m_conn_handle,
                     conn_handle, btn_enabled, main, adv_cnt,
                     notif_cnt, dark>>,
         update_count' # 0 => m_conn_handle # NoHandle,
         halted' \notin {"adv_start", "button_enable", "adv_stop", "reply",
                      "conn_update"}
  PROVE  IInv'
  <1>1. Running' /\ ~Booted' => BootInv'
    <2>1. ~Booted => BootInv /\ m_conn_handle = NoHandle
      BY DEF IInv, BootInv
    <2>2. ~Booted => update_count' = 0
      BY <2>1
    <2>3. QED
      BY <2>1, <2>2 DEF BootInv, Booted, ModulesTake
  <1>2. Running' /\ Booted' => LinkInv'
    BY LinkFrame DEF IInv, Booted
  <1>3. DarkInv'
    BY DarkFrame DEF IInv, Booted
  <1>4. HaltInv'
    BY HaltFrame
  <1>5. QED
    BY <1>1, <1>2, <1>3, <1>4 DEF IInv

-------------------------------------------------------------------------------
(***************************************************************************)
(* The event queue.                                                        *)
(***************************************************************************)

\* After the head is pulled: no CONNECTED is left, a DISCONNECTED is still the
\* last event, and it is still there unless it was the head.
LEMMA AfterPull ==
  ASSUME TypeOK, LinkInv, NEW id, Pull(id)
  PROVE  /\ ~adv
         /\ \A i \in 1..Len(evtq') :
              /\ evtq'[i].id # "CONNECTED"
              /\ evtq'[i].id = "DISCONNECTED" => i = Len(evtq') /\ link = NoHandle
         /\ link = NoHandle /\ id # "DISCONNECTED" =>
              evtq' # <<>> /\ evtq'[Len(evtq')].id = "DISCONNECTED"
         /\ id = "DISCONNECTED" => evtq' = <<>> /\ link = NoHandle
         /\ evtq' # <<>> => evtq'[1].id # "CONNECTED"
         /\ evtq[1].id = id /\ evtq # <<>>
         /\ Head(evtq) = evtq[1]
         /\ Len(evtq) \in Nat \ {0}
  <1>1. evtq \in Seq(Event) /\ evtq # <<>> /\ evtq' = Tail(evtq) /\ Head(evtq).id = id
    BY DEF TypeOK, SdTypeOK, Pull
  <1>2. /\ evtq' \in Seq(Event)
        /\ Len(evtq) \in Nat \ {0}
        /\ Len(evtq') = Len(evtq) - 1
        /\ \A i \in 1..Len(evtq') : evtq'[i] = evtq[i + 1]
        /\ Head(evtq) = evtq[1]
        /\ evtq' = <<>> <=> Len(evtq) = 1
    BY <1>1, TailOfQueue
  <1>3. \A i \in 1..Len(evtq) :
          /\ evtq[i].id = "CONNECTED" => i = 1 /\ m_conn_handle = NoHandle
          /\ evtq[i].id = "DISCONNECTED" => i = Len(evtq) /\ link = NoHandle
    BY DEF LinkInv
  <1>4. ~adv
    BY <1>1 DEF LinkInv
  <1>5. \A i \in 1..Len(evtq') :
          /\ evtq'[i].id # "CONNECTED"
          /\ evtq'[i].id = "DISCONNECTED" => i = Len(evtq') /\ link = NoHandle
    <2> TAKE i \in 1..Len(evtq')
    <2>1. i + 1 \in 1..Len(evtq) /\ i + 1 # 1 /\ evtq'[i] = evtq[i + 1]
      BY <1>2
    <2>2. QED
      BY <2>1, <1>2, <1>3
  <1>6. ASSUME link = NoHandle, id # "DISCONNECTED"
        PROVE  evtq' # <<>> /\ evtq'[Len(evtq')].id = "DISCONNECTED"
    <2>1. evtq[Len(evtq)].id = "DISCONNECTED"
      BY <1>1, <1>6 DEF LinkInv
    <2>2. Len(evtq) # 1
      BY <2>1, <1>1, <1>2, <1>6
    <2>3. Len(evtq') \in 1..Len(evtq')
      BY <2>2, <1>2
    <2>4. QED
      BY <2>1, <2>2, <2>3, <1>2
  <1>7. ASSUME id = "DISCONNECTED"
        PROVE  evtq' = <<>> /\ link = NoHandle
    <2>1. 1 \in 1..Len(evtq)
      BY <1>2
    <2>2. QED
      BY <2>1, <1>1, <1>2, <1>3, <1>7
  <1>8. evtq' # <<>> => evtq'[1].id # "CONNECTED"
    <2>1. evtq' # <<>> => 1 \in 1..Len(evtq')
      BY <1>2
    <2>2. QED
      BY <2>1, <1>5
  <1>9. QED
    BY <1>1, <1>2, <1>4, <1>5, <1>6, <1>7, <1>8

\* After an event of an existing link is posted.
LEMMA AfterPost ==
  ASSUME TypeOK, LinkInv, link # NoHandle,
         NEW id \in EventIds \ {"CONNECTED"}, Post(id, link)
  PROVE  /\ ~adv
         /\ evtq' # <<>>
         /\ Len(evtq') \in Nat
         /\ evtq'[Len(evtq')].id = id
         /\ \A i \in 1..Len(evtq') :
              /\ evtq'[i].id = "CONNECTED" => i = 1 /\ m_conn_handle = NoHandle
              /\ evtq'[i].id = "DISCONNECTED" => i = Len(evtq')
              /\ evtq'[i].id = "DISCONNECTED" => id = "DISCONNECTED"
         /\ evtq # <<>> => evtq'[1] = evtq[1]
         /\ evtq = <<>> => evtq'[1].id = id /\ m_conn_handle # NoHandle
  <1> DEFINE e == [id |-> id, handle |-> link]
  <1>1. evtq \in Seq(Event) /\ e \in Event /\ evtq' = Append(evtq, e)
    BY DEF TypeOK, SdTypeOK, Post, Event
  <1>2. /\ evtq' # <<>>
        /\ Len(evtq) \in Nat
        /\ Len(evtq') = Len(evtq) + 1
        /\ \A i \in 1..Len(evtq) : evtq'[i] = evtq[i]
        /\ evtq'[Len(evtq) + 1] = e
        /\ evtq = <<>> <=> Len(evtq) = 0
    <2> HIDE DEF e
    <2>1. QED
      BY <1>1, AppendToQueue
  <1>3. \A i \in 1..Len(evtq) :
          /\ evtq[i].id = "CONNECTED" => i = 1 /\ m_conn_handle = NoHandle
          /\ evtq[i].id # "DISCONNECTED"
    BY DEF LinkInv
  <1>4. e.id = id
    OBVIOUS
  <1> HIDE DEF e
  <1>5. ~adv
    BY DEF LinkInv
  <1>6. \A i \in 1..Len(evtq') :
          /\ evtq'[i].id = "CONNECTED" => i = 1 /\ m_conn_handle = NoHandle
          /\ evtq'[i].id = "DISCONNECTED" => i = Len(evtq') /\ id = "DISCONNECTED"
    <2> TAKE i \in 1..Len(evtq')
    <2>1. CASE i \in 1..Len(evtq)
      BY <2>1, <1>2, <1>3
    <2>2. CASE i = Len(evtq) + 1
      BY <2>2, <1>2, <1>4
    <2>3. QED
      BY <2>1, <2>2, <1>2
  <1>7. evtq # <<>> => evtq'[1] = evtq[1]
    BY <1>2
  <1>8. evtq = <<>> => evtq'[1].id = id /\ m_conn_handle # NoHandle
    BY <1>2, <1>4 DEF LinkInv
  <1>9. QED
    BY <1>2, <1>4, <1>5, <1>6, <1>7, <1>8

-------------------------------------------------------------------------------
(***************************************************************************)
(* The actions that matter, one lemma each.                                *)
(***************************************************************************)

LEMMA IInvConnected ==
  ASSUME IInv, TypeOK', TimerInv', OnConnected
  PROVE  IInv'
  <1> USE DEF OnConnected, OnBleEvtConnected
  <1>1. evtq # <<>> /\ Head(evtq) = evtq[1] /\ evtq[1].id = "CONNECTED" /\ Running
        /\ Head(evtq).handle \in Handles /\ evtq \in Seq(Event)
    BY PullType, TailOfQueue DEF Pull, IInv, TypeOK, SdTypeOK
  <1>2. CASE ~Booted
    <2>1. SlowBoot
      BY <1>1, <1>2 DEF IInv, BootInv
    <2>2. /\ halted' = "button_enable"
          /\ UNCHANGED <<main, dark, adv_cnt>>
      BY <1>2 DEF tickVars
    <2>3. ~Running' /\ ~Booted'
      BY <2>2, <1>2 DEF Running, Booted
    <2>4. DarkInv'
      BY <2>2, DarkFrame DEF IInv
    <2>5. HaltInv'
      BY <2>1, <2>2, <2>3 DEF HaltInv, OnlySlowBootRaces,
         AdvStopFailsOnlyOnUnseenLink, ReplyFailsOnlyOnLostLink
    <2>6. QED
      BY <2>3, <2>4, <2>5 DEF IInv
  <1>3. CASE Booted
    <2>1. TypeOK /\ LinkInv
      BY <1>1, <1>3 DEF IInv
    <2>2. /\ ~adv
          /\ \A i \in 1..Len(evtq') :
               /\ evtq'[i].id # "CONNECTED"
               /\ evtq'[i].id = "DISCONNECTED" => i = Len(evtq') /\ link = NoHandle
          /\ link = NoHandle =>
               evtq' # <<>> /\ evtq'[Len(evtq')].id = "DISCONNECTED"
          /\ evtq' # <<>> => evtq'[1].id # "CONNECTED"
          /\ 1 \in 1..Len(evtq)
      BY <2>1, AfterPull
    <2>3. /\ m_conn_handle' = evtq[1].handle /\ m_conn_handle' # NoHandle
          /\ ~is_advertising' /\ btn_enabled' /\ halted' = "no"
          /\ conn_handle' = ModulesTake(m_conn_handle')
          /\ UNCHANGED <<adv, link, dark, adv_cnt, main>>
      BY <1>1, <1>3, LinkAssumption DEF tickVars, Running
    <2>4. m_conn_handle = NoHandle /\ is_advertising
      BY <1>1, <2>1, <2>2 DEF LinkInv
    <2>5. link # NoHandle => link = m_conn_handle'
      BY <2>1, <2>3, <2>4 DEF LinkInv
    <2>6. LinkInv'
      BY <2>2, <2>3, <2>5 DEF LinkInv, ModulesTake
    <2>7. DarkInv'
      BY <2>3, DarkFrame DEF IInv
    <2>8. HaltInv'
      BY <2>3, HaltFrame
    <2>9. Booted'
      BY <1>3, <2>3 DEF Booted
    <2>10. QED
      BY <2>6, <2>7, <2>8, <2>9 DEF IInv
  <1>4. QED
    BY <1>2, <1>3

LEMMA IInvDisconnected ==
  ASSUME IInv, TypeOK', TimerInv', OnDisconnected
  PROVE  IInv'
  <1> USE DEF OnDisconnected, OnBleEvtDisconnected, ConnParamsOnDisconnect
  <1>1. Running /\ TypeOK /\ evtq \in Seq(Event) /\ evtq # <<>> /\ Head(evtq).id = "DISCONNECTED"
    BY DEF Pull, IInv, TypeOK, SdTypeOK
  <1>2. Booted
    BY <1>1, TailOfQueue DEF IInv, BootInv
  <1>3. LinkInv
    BY <1>1, <1>2 DEF IInv
  <1>4. ~adv /\ evtq' = <<>> /\ link = NoHandle /\ evtq[1].id = "DISCONNECTED"
    BY <1>1, <1>3, AfterPull
  <1>5. m_conn_handle # NoHandle /\ ~is_advertising
    BY <1>1, <1>3, <1>4 DEF LinkInv
  <1>6. adv' /\ is_advertising' /\ halted' = "no"
    BY <1>1, <1>4, <1>5 DEF AdvertisingStart, SdAdvStartOk, Running
  <1>7. /\ m_conn_handle' = NoHandle /\ conn_handle' = ModulesTake(NoHandle)
        /\ ~btn_enabled' /\ update_count' = 0
        /\ UNCHANGED <<link, main, adv_cnt, dark>>
    BY <1>6 DEF tickVars
  <1>8. Booted'
    BY <1>2, <1>7 DEF Booted
  <1>9. LinkInv'
    BY <1>4, <1>6, <1>7 DEF LinkInv, ModulesTake
  <1>10. DarkInv'
    BY <1>7, DarkFrame DEF IInv
  <1>11. HaltInv'
    BY <1>6, HaltFrame
  <1>12. QED
    BY <1>8, <1>9, <1>10, <1>11 DEF IInv

LEMMA IInvRequest ==
  ASSUME IInv, TypeOK', TimerInv', NEW id \in Requests, OnRequest(id)
  PROVE  IInv'
  <1> USE DEF OnRequest, linkVars, tickVars, btnVars, cpVars
  <1>1. Running /\ TypeOK /\ evtq \in Seq(Event) /\ evtq # <<>>
        /\ Head(evtq).id = id
    BY DEF Pull, IInv, TypeOK, SdTypeOK
  <1>2. id # "CONNECTED" /\ id # "DISCONNECTED"
    BY DEF Requests
  <1>3. Booted
    BY <1>1, <1>2, TailOfQueue DEF IInv, BootInv
  <1>4. LinkInv
    BY <1>1, <1>3 DEF IInv
  <1>5. /\ ~adv
        /\ \A i \in 1..Len(evtq') :
             /\ evtq'[i].id # "CONNECTED"
             /\ evtq'[i].id = "DISCONNECTED" => i = Len(evtq') /\ link = NoHandle
        /\ link = NoHandle =>
             evtq' # <<>> /\ evtq'[Len(evtq')].id = "DISCONNECTED"
        /\ evtq' # <<>> => evtq'[1].id # "CONNECTED"
        /\ evtq[1].id = id
    BY <1>1, <1>2, <1>4, AfterPull
  <1>6. m_conn_handle # NoHandle /\ ~is_advertising
    BY <1>1, <1>2, <1>4, <1>5 DEF LinkInv
  <1>7. UNCHANGED <<adv, link, is_advertising, m_conn_handle, conn_handle,
                    btn_enabled, update_count, dark, adv_cnt, notif_cnt,
                    main>>
    OBVIOUS
  <1>8. Booted'
    BY <1>3, <1>7 DEF Booted
  <1>9. LinkInv'
    BY <1>4, <1>5, <1>6, <1>7 DEF LinkInv, ModulesTake
  <1>10. DarkInv'
    BY <1>7, DarkFrame DEF IInv
  <1>11. HaltInv'
    <2>1. CASE link # NoHandle
      <3>1. m_conn_handle = link
        BY <1>4, <1>6, <2>1 DEF LinkInv
      <3>2. halted' = "no"
        BY <1>1, <2>1, <3>1 DEF Running
      <3>3. QED
        BY <3>2, HaltFrame
    <2>2. CASE link = NoHandle
      <3>1. halted' = "reply" /\ link' = NoHandle
        BY <2>2, <1>7
      <3>2. evtq' \in Seq(Event)
        BY DEF TypeOK, SdTypeOK
      <3>3. Len(evtq') \in 1..Len(evtq')
        BY <1>5, <2>2, <3>2, EmptyQueue
      <3>4. Pending("DISCONNECTED")' /\ ~Pending("CONNECTED")'
        BY <1>5, <2>2, <3>3 DEF Pending
      <3>5. QED
        BY <3>1, <3>4 DEF HaltInv, OnlySlowBootRaces,
           AdvStopFailsOnlyOnUnseenLink,
           ReplyFailsOnlyOnLostLink
    <2>3. QED
      BY <2>1, <2>2
  <1>12. QED
    BY <1>8, <1>9, <1>10, <1>11 DEF IInv

\* Any other event leaves the link as it is.
LEMMA IInvOtherEvent ==
  ASSUME IInv, TypeOK', TimerInv',
         NEW id \in EventIds \ {"CONNECTED", "DISCONNECTED"}, Pull(id),
         UNCHANGED <<adv, link, is_advertising, m_conn_handle, conn_handle,
                     btn_enabled, update_count, dark, adv_cnt, notif_cnt,
                     main, halted>>
  PROVE  IInv'
  <1>1. Running /\ TypeOK /\ evtq \in Seq(Event) /\ evtq # <<>>
        /\ Head(evtq).id = id
    BY DEF Pull, IInv, TypeOK, SdTypeOK
  <1>2. Booted
    BY <1>1, TailOfQueue DEF IInv, BootInv
  <1>3. LinkInv
    BY <1>1, <1>2 DEF IInv
  <1>4. /\ ~adv
        /\ \A i \in 1..Len(evtq') :
             /\ evtq'[i].id # "CONNECTED"
             /\ evtq'[i].id = "DISCONNECTED" => i = Len(evtq') /\ link = NoHandle
        /\ link = NoHandle =>
             evtq' # <<>> /\ evtq'[Len(evtq')].id = "DISCONNECTED"
        /\ evtq' # <<>> => evtq'[1].id # "CONNECTED"
        /\ evtq[1].id = id
    BY <1>1, <1>3, AfterPull
  <1>5. m_conn_handle # NoHandle /\ ~is_advertising
    BY <1>1, <1>3, <1>4 DEF LinkInv
  <1>6. Booted'
    BY <1>2 DEF Booted
  <1>7. LinkInv'
    BY <1>3, <1>4, <1>5 DEF LinkInv, ModulesTake
  <1>8. DarkInv'
    BY DarkFrame DEF IInv
  <1>9. HaltInv'
    BY <1>1, HaltFrame DEF Running
  <1>10. QED
    BY <1>6, <1>7, <1>8, <1>9 DEF IInv

LEMMA IInvNusCccd ==
  ASSUME IInv, TypeOK', TimerInv', NEW on \in BOOLEAN, OnNusCccd(on)
  PROVE  IInv'
  <1> DEFINE id == IF on THEN "NUS_CCCD_ON" ELSE "NUS_CCCD_OFF"
  <1>1. Pull(id) /\ id \in EventIds \ {"CONNECTED", "DISCONNECTED"}
    BY DEF OnNusCccd, EventIds
  <1> HIDE DEF id
  <1>2. UNCHANGED <<adv, link, is_advertising, m_conn_handle, conn_handle,
                    btn_enabled, update_count, dark, adv_cnt, notif_cnt,
                    main, halted>>
    BY DEF OnNusCccd, tickVars, btnVars, cpVars
  <1>3. QED
    BY <1>1, <1>2, IInvOtherEvent

LEMMA IInvConnParamUpdate ==
  ASSUME IInv, TypeOK', TimerInv', OnConnParamUpdate
  PROVE  IInv'
  <1>1. Pull("CONN_PARAM_UPDATE")
        /\ "CONN_PARAM_UPDATE" \in EventIds \ {"CONNECTED", "DISCONNECTED"}
    BY DEF OnConnParamUpdate, EventIds
  <1>2. UNCHANGED <<adv, link, is_advertising, m_conn_handle, conn_handle,
                    btn_enabled, update_count, dark, adv_cnt, notif_cnt,
                    main, halted>>
    BY DEF OnConnParamUpdate, linkVars, tickVars, btnVars
  <1>3. QED
    BY <1>1, <1>2, IInvOtherEvent

LEMMA IInvTickConnected ==
  ASSUME IInv, TypeOK', TimerInv', TimerTick, TickConnected
  PROVE  IInv'
  <1> USE DEF TimerTick, TickConnected, btnVars, cpVars, ctxVars
  <1>1. Running /\ conn_handle["imu"] # NoHandle
    OBVIOUS
  <1>2. Booted
    BY <1>1 DEF IInv, BootInv, ModulesTake, Modules, Services
  <1>3. LinkInv
    BY <1>1, <1>2 DEF IInv
  <1>4. UNCHANGED <<adv, link, evtq, is_advertising, m_conn_handle,
                    conn_handle, btn_enabled, update_count, main, halted>>
    OBVIOUS
  <1>5. LinkInv'
    BY <1>3, <1>4, LinkFrame DEF LinkInv
  <1>6. Booted'
    BY <1>2, <1>4 DEF Booted
  <1>7. DarkInv'
    BY LinkAssumption DEF DarkInv, TypeOK, TickTypeOK
  <1>8. HaltInv'
    BY <1>1, <1>4, HaltFrame DEF Running
  <1>9. QED
    BY <1>5, <1>6, <1>7, <1>8 DEF IInv

\* A tick that finds motion, or a full counter, leaves the radio advertising or
\* a connection on its way to the application; any other one counts.
LEMMA TickLights ==
  ASSUME IInv, Running, TickDisconnected
  PROVE  DarkInv'
  <1> USE DEF TickDisconnected
  <1>1. dark \in Nat /\ adv_cnt \in Nat /\ dark <= adv_cnt
    BY LinkAssumption DEF IInv, DarkInv, TypeOK, TickTypeOK
  <1>2. CASE MotionDetected(adv_cnt, AdvTimeoutCnt)
    <2>1. ASSUME evtq = <<>> PROVE adv'
      <3>1. link = NoHandle /\ (is_advertising => adv)
        BY <2>1 DEF IInv, BootInv, LinkInv, ModulesTake, Modules, Services
      <3>2. AdvertisingStart
        BY <1>2
      <3>3. QED
        BY <3>1, <3>2 DEF AdvertisingStart, SdAdvStartOk, IInv, TypeOK, SdTypeOK
    <2>2. dark' = 0 /\ adv_cnt' = 0
      BY <1>2, <2>1 DEF NextCnt
    <2>3. QED
      BY <2>2 DEF DarkInv
  <1>3. CASE ~MotionDetected(adv_cnt, AdvTimeoutCnt)
    <2>1. adv_cnt' = adv_cnt + 1 /\ dark' \in {0, dark + 1}
      BY <1>3 DEF NextCnt
    <2>2. QED
      BY <1>1, <2>1 DEF DarkInv
  <1>4. QED
    BY <1>2, <1>3

LEMMA IInvTickDisconnected ==
  ASSUME IInv, TypeOK', TimerInv', TimerTick, TickDisconnected
  PROVE  IInv'
  <1> USE DEF TimerTick, TickDisconnected, btnVars, cpVars, ctxVars
  <1>1. Running /\ conn_handle["imu"] = NoHandle
    OBVIOUS
  <1>2. /\ UNCHANGED <<link, evtq, m_conn_handle, conn_handle, btn_enabled,
                       update_count, main, motion, notif_cnt>>
        /\ Booted' <=> Booted
    BY DEF Booted
  <1>3. DarkInv'
    BY <1>1, TickLights
  <1>4. AdvertisingStart \/ AdvertisingStop
    OBVIOUS
  <1>5. CASE ~Booted
    <2>1. BootInv /\ SlowBoot
      BY <1>1, <1>5 DEF IInv, BootInv, OutsideMayAct
    <2>2. Running' => BootInv'
      BY <1>1, <1>2, <1>4, <2>1 DEF AdvertisingStart, AdvertisingStop, SdAdvStartOk,
         BootInv, ModulesTake, Running
    <2>3. ASSUME halted' = "adv_stop" PROVE HaltInv'
      <3>1. is_advertising /\ ~adv /\ is_advertising'
        BY <1>1, <1>4, <2>3 DEF AdvertisingStart, AdvertisingStop, Running
      <3>2. evtq # <<>> /\ evtq[1].id = "CONNECTED"
        BY <2>1, <3>1 DEF BootInv
      <3>3. 1 \in 1..Len(evtq)
        BY <3>2, EmptyQueue DEF IInv, TypeOK, SdTypeOK
      <3>4. Pending("CONNECTED")' /\ m_conn_handle' = NoHandle
        BY <1>2, <2>1, <3>2, <3>3 DEF Pending, BootInv
      <3>5. QED
        BY <2>3, <3>1, <3>4 DEF HaltInv, OnlySlowBootRaces,
           AdvStopFailsOnlyOnUnseenLink, ReplyFailsOnlyOnLostLink
    <2>4. ASSUME halted' # "adv_stop" PROVE HaltInv'
      <3>1. halted' \in {"no", "adv_start"}
        BY <1>1, <1>4, <2>4 DEF AdvertisingStart, AdvertisingStop, Running
      <3>2. QED
        BY <1>2, <1>5, <2>1, <3>1 DEF HaltInv, OnlySlowBootRaces,
           AdvStopFailsOnlyOnUnseenLink, ReplyFailsOnlyOnLostLink
    <2>5. HaltInv'
      BY <2>3, <2>4
    <2>6. QED
      BY <1>2, <1>3, <1>5, <2>2, <2>5 DEF IInv
  <1>6. CASE Booted
    <2>1. LinkInv
      BY <1>1, <1>6 DEF IInv
    <2>2. m_conn_handle = NoHandle
      BY <1>1, <2>1 DEF LinkInv, ModulesTake, Modules, Services
    <2>3. evtq # <<>> => 1 \in 1..Len(evtq)
      BY EmptyQueue DEF IInv, TypeOK, SdTypeOK
    <2>4. CASE MotionDetected(adv_cnt, AdvTimeoutCnt)
      <3>1. AdvertisingStart
        BY <2>4
      <3>2. ~is_advertising => ~adv /\ evtq = <<>> /\ link = NoHandle
        BY <2>1, <2>2 DEF LinkInv
      <3>3. halted' = "no" /\ is_advertising' /\ (is_advertising => adv' = adv)
            /\ (~is_advertising => adv')
        BY <1>1, <3>1, <3>2 DEF AdvertisingStart, SdAdvStartOk, Running
      <3>4. LinkInv'
        BY <1>2, <2>1, <2>2, <2>3, <3>2, <3>3 DEF LinkInv, ModulesTake
      <3>5. HaltInv'
        BY <3>3, HaltFrame
      <3>6. QED
        BY <1>2, <1>3, <1>6, <3>4, <3>5 DEF IInv
    <2>5. CASE ~MotionDetected(adv_cnt, AdvTimeoutCnt)
      <3>1. AdvertisingStop
        BY <2>5
      <3>2. CASE is_advertising /\ ~adv
        <4>1. halted' = "adv_stop" /\ is_advertising'
          BY <3>1, <3>2 DEF AdvertisingStop, LinkInv
        <4>2. Pending("CONNECTED")'
          BY <1>2, <2>1, <2>3, <3>2 DEF LinkInv, Pending
        <4>3. HaltInv'
          BY <1>2, <2>2, <4>1, <4>2 DEF HaltInv, OnlySlowBootRaces,
             AdvStopFailsOnlyOnUnseenLink, ReplyFailsOnlyOnLostLink
        <4>4. QED
          BY <1>2, <1>3, <1>6, <4>1, <4>3 DEF IInv, Running
      <3>3. CASE ~(is_advertising /\ ~adv)
        <4>1. ~is_advertising' /\ ~adv' /\ halted' = "no"
          BY <1>1, <2>1, <3>1, <3>3 DEF AdvertisingStop, LinkInv, Running
        <4>2. evtq # <<>> => evtq[1].id # "CONNECTED"
          BY <2>1, <3>3 DEF LinkInv
        <4>3. LinkInv'
          BY <1>2, <2>1, <2>2, <4>1, <4>2 DEF LinkInv, ModulesTake
        <4>4. HaltInv'
          BY <4>1, HaltFrame
        <4>5. QED
          BY <1>2, <1>3, <1>6, <4>3, <4>4 DEF IInv
      <3>4. QED
        BY <3>2, <3>3
    <2>6. QED
      BY <2>4, <2>5
  <1>7. QED
    BY <1>5, <1>6

LEMMA IInvBoot ==
  ASSUME IInv, TypeOK', TimerInv', Boot
  PROVE  IInv'
  <1> USE DEF sdVars, linkVars, tickVars, btnVars, cpVars
  <1>1. Running /\ evtq = <<>> /\ main \in BootPcs
    BY DEF Boot, StartTick, MainAdvCheck, MainAdvCall, MainAdvFlag,
       ButtonsInit,
       MainAt, BootPcs
  <1>2. ~Booted /\ BootInv /\ link = NoHandle
    BY <1>1 DEF Booted, IInv, BootInv
  <1>3. UNCHANGED <<link, evtq, m_conn_handle, conn_handle, btn_enabled,
                    update_count, dark, adv_cnt, notif_cnt>>
    BY DEF Boot, StartTick, MainAdvCheck, MainAdvCall, MainAdvFlag, ButtonsInit
  <1>4. DarkInv'
    BY <1>3, DarkFrame DEF IInv
  <1>5. CASE StartTick \/ MainAdvCheck
    <2>1. /\ main \in {"start_timer", "adv_check"}
          /\ main' = "adv_check" \/ main' = "buttons" \/ main' = "adv_svc"
          /\ UNCHANGED <<adv, is_advertising, halted>>
      BY <1>5 DEF StartTick, MainAdvCheck, MainAt
    <2>2. main' = "buttons" => is_advertising
      BY <1>5 DEF StartTick, MainAdvCheck
    <2>3. BootInv'
      BY <1>1, <1>2, <1>3, <2>1, <2>2 DEF BootInv, ModulesTake
    <2>4. ~Booted'
      BY <2>1 DEF Booted, BootPcs
    <2>5. HaltInv'
      BY <1>1, <2>1, HaltFrame DEF Running
    <2>6. QED
      BY <1>4, <2>3, <2>4, <2>5 DEF IInv
  <1>6. CASE MainAdvCall
    <2>1. main = "adv_svc" /\ UNCHANGED is_advertising
      BY <1>6 DEF MainAdvCall, MainAt
    <2>2. is_advertising <=> adv
      BY <1>1, <1>2, <2>1 DEF BootInv
    <2>3. CASE SdAdvStartOk
      <3>1. adv' /\ ~is_advertising' /\ main' = "adv_flag" /\ halted' = halted
        BY <1>6, <2>1, <2>2, <2>3 DEF MainAdvCall, SdAdvStartOk
      <3>2. BootInv' /\ ~Booted'
        BY <1>1, <1>2, <1>3, <3>1 DEF BootInv, ModulesTake, Booted, BootPcs
      <3>3. HaltInv'
        BY <1>1, <3>1, HaltFrame DEF Running
      <3>4. QED
        BY <1>4, <3>2, <3>3 DEF IInv
    <2>4. CASE ~SdAdvStartOk
      <3>1. halted' = "adv_start" /\ main' = main
        BY <1>6, <2>4 DEF MainAdvCall
      <3>2. SlowBoot
        BY <1>2, <2>1, <2>4 DEF BootInv, SdAdvStartOk
      <3>3. ~Running' /\ ~Booted'
        BY <1>2, <3>1 DEF Running, Booted
      <3>4. HaltInv'
        BY <3>1, <3>2, <3>3 DEF HaltInv, OnlySlowBootRaces,
           AdvStopFailsOnlyOnUnseenLink, ReplyFailsOnlyOnLostLink
      <3>5. QED
        BY <1>4, <3>3, <3>4 DEF IInv
    <2>5. QED
      BY <2>3, <2>4
  <1>7. CASE MainAdvFlag
    <2>1. main = "adv_flag" /\ main' = "buttons" /\ is_advertising' /\ adv' = adv
          /\ halted' = halted
      BY <1>7 DEF MainAdvFlag, MainAt
    <2>2. adv
      BY <1>1, <1>2, <2>1 DEF BootInv
    <2>3. BootInv' /\ ~Booted'
      BY <1>1, <1>2, <1>3, <2>1, <2>2 DEF BootInv, ModulesTake, Booted, BootPcs
    <2>4. HaltInv'
      BY <1>1, <2>1, HaltFrame DEF Running
    <2>5. QED
      BY <1>4, <2>3, <2>4 DEF IInv
  <1>8. CASE ButtonsInit
    <2>1. main = "buttons" /\ main' = "loop" /\ UNCHANGED <<adv,
                                                            is_advertising,
                                                            halted>>
      BY <1>8 DEF ButtonsInit, MainAt
    <2>2. is_advertising <=> adv
      BY <1>1, <1>2, <2>1 DEF BootInv
    <2>3. evtq' = <<>> /\ m_conn_handle' = NoHandle /\ link' = NoHandle
      BY <1>1, <1>2, <1>3 DEF BootInv
    <2>4. conn_handle' = ModulesTake(NoHandle) /\ ~btn_enabled'
          /\ update_count' = 0
      BY <1>2, <1>3 DEF BootInv
    <2>5. is_advertising' <=> adv'
      BY <2>1, <2>2
    <2>6. LinkInv'
      BY <2>3, <2>4, <2>5 DEF LinkInv, ModulesTake
    <2>7. Booted'
      BY <2>1 DEF Booted, BootPcs
    <2>8. HaltInv'
      BY <1>1, <2>1, HaltFrame DEF Running
    <2>9. QED
      BY <1>4, <2>6, <2>7, <2>8 DEF IInv
  <1>9. QED
    BY <1>5, <1>6, <1>7, <1>8 DEF Boot

\* A booted main thread moves, and the link stays as it is.
LEMMA IInvMainLoop ==
  ASSUME IInv, TypeOK', TimerInv', SchedGet \/ ButtonNotify \/ SchedEmpty \/ ImuUpdate
  PROVE  IInv'
  <1>1. /\ Running /\ Booted /\ Booted'
        /\ UNCHANGED <<adv, link, evtq, is_advertising, m_conn_handle,
                       conn_handle, btn_enabled, update_count, adv_cnt,
                       notif_cnt, dark>>
    BY DEF SchedGet, ButtonNotify, SchedEmpty, ImuUpdate, MainAt, Booted,
       BootPcs,
       sdVars, linkVars, tickVars, btnVars, cpVars
  <1>2. halted' \in {"no", "button_hvx"}
    BY DEF SchedGet, ButtonNotify, SchedEmpty, ImuUpdate, MainAt, Running
  <1>3. LinkInv
    BY <1>1 DEF IInv
  <1>4. LinkInv'
    BY <1>1, <1>3, LinkFrame DEF LinkInv
  <1>5. DarkInv'
    BY <1>1, DarkFrame DEF IInv
  <1>6. HaltInv'
    BY <1>2, HaltFrame
  <1>7. QED
    BY <1>1, <1>4, <1>5, <1>6 DEF IInv

LEMMA IInvElsewhere ==
  ASSUME IInv, TypeOK', TimerInv',
         \/ EventsDone
         \/ ButtonEdge
         \/ DetectionTimeout
         \/ TimerListHandler
         \/ NusLine
         \/ TxComplete
  PROVE  IInv'
  <1> USE DEF EventsDone, ButtonEdge, DetectionTimeout, TimerListHandler,
  NusLine,
              TxComplete, sdVars, linkVars, tickVars, btnVars, cpVars, ctxVars
  <1>1. /\ Running
        /\ UNCHANGED <<adv, link, evtq, is_advertising, m_conn_handle,
                       conn_handle, btn_enabled, main, adv_cnt,
                       notif_cnt, dark, update_count>>
    OBVIOUS
  <1>2. halted' \in {"no", "sched_put", "nus_hvx"}
    BY DEF Running
  <1>3. update_count' # 0 => m_conn_handle # NoHandle
    BY <1>1 DEF IInv, BootInv, LinkInv
  <1>4. QED
    BY <1>1, <1>2, <1>3, AllFrame

\* The timer of the update requests may be left over from an earlier
\* connection; the handle it uses is the current one.
LEMMA IInvUpdateTimeout ==
  ASSUME IInv, TypeOK', TimerInv', UpdateTimeout
  PROVE  IInv'
  <1> USE DEF UpdateTimeout
  <1>1. /\ Running
        /\ UNCHANGED <<adv, link, evtq, is_advertising, m_conn_handle,
                       conn_handle, btn_enabled, main, adv_cnt,
                       notif_cnt, dark>>
        /\ Booted' <=> Booted
    BY DEF sdVars, linkVars, tickVars, btnVars, ctxVars, Booted
  <1>2. conn_handle["conn_params"] = m_conn_handle
    BY <1>1 DEF IInv, BootInv, LinkInv, ModulesTake, Modules
  <1>3. update_count' # 0 => m_conn_handle # NoHandle
    BY <1>1, <1>2 DEF IInv, BootInv, LinkInv
  <1>4. halted' \in {"no", "conn_update"}
    BY <1>1 DEF Running
  <1>5. CASE halted' = "no"
    BY <1>1, <1>3, <1>5, AllFrame
  <1>6. CASE halted' = "conn_update"
    <2>1. m_conn_handle # NoHandle /\ m_conn_handle # link
      BY <1>1, <1>2, <1>6 DEF SdConnParamUpdateOk, Running
    <2>2. LinkInv
      BY <1>1, <2>1 DEF IInv, BootInv
    <2>3. link = NoHandle /\ evtq # <<>> /\ evtq[Len(evtq)].id = "DISCONNECTED"
      BY <2>1, <2>2 DEF LinkInv
    <2>4. Len(evtq) \in 1..Len(evtq)
      BY <2>3, EmptyQueue DEF IInv, TypeOK, SdTypeOK
    <2>5. Pending("DISCONNECTED")' /\ ~Pending("CONNECTED")'
      BY <1>1, <2>1, <2>2, <2>3, <2>4 DEF LinkInv, Pending
    <2>6. HaltInv'
      BY <1>1, <1>6, <2>3, <2>5 DEF HaltInv, OnlySlowBootRaces,
         AdvStopFailsOnlyOnUnseenLink, ReplyFailsOnlyOnLostLink
    <2>7. DarkInv'
      BY <1>1, DarkFrame DEF IInv
    <2>8. QED
      BY <1>6, <2>6, <2>7 DEF IInv, Running
  <1>7. QED
    BY <1>4, <1>5, <1>6

LEMMA IInvConnect ==
  ASSUME IInv, TypeOK', TimerInv', NEW h \in Handles, Connect(h)
  PROVE  IInv'
  <1> USE DEF Connect, linkVars, tickVars, btnVars, cpVars, ctxVars
  <1> DEFINE e == [id |-> "CONNECTED", handle |-> h]
  <1>1. Running /\ adv /\ OutsideMayAct /\ ~adv' /\ link' = h /\ link' # NoHandle
    BY LinkAssumption
  <1>2. evtq \in Seq(Event) /\ e \in Event /\ evtq' = Append(evtq, e)
    BY DEF IInv, TypeOK, SdTypeOK, Post, Event, EventIds
  <1>3. /\ UNCHANGED <<is_advertising, m_conn_handle, conn_handle,
                       btn_enabled, update_count, main, adv_cnt,
                       notif_cnt, dark, halted>>
        /\ Booted' <=> Booted
    BY DEF Booted
  <1>4. e.id = "CONNECTED" /\ e.handle = h
    OBVIOUS
  <1> HIDE DEF e
  <1>5. /\ evtq' # <<>> /\ Len(evtq) \in Nat /\ Len(evtq') = Len(evtq) + 1
        /\ \A i \in 1..Len(evtq) : evtq'[i] = evtq[i]
        /\ evtq'[Len(evtq) + 1] = e
        /\ evtq = <<>> <=> Len(evtq) = 0
    BY <1>2, AppendToQueue
  <1>6. ASSUME ~Booted PROVE BootInv'
    <2>1. BootInv /\ SlowBoot
      BY <1>1, <1>6 DEF IInv, OutsideMayAct
    <2>2. evtq'[1].id = "CONNECTED"
      BY <1>4, <1>5, <2>1 DEF BootInv
    <2>3. QED
      BY <1>3, <1>5, <2>1, <2>2 DEF BootInv, ModulesTake
  <1>7. ASSUME Booted PROVE LinkInv'
    <2>1. LinkInv
      BY <1>1, <1>7 DEF IInv
    <2>2. evtq = <<>> /\ m_conn_handle = NoHandle /\ is_advertising
      BY <1>1, <2>1 DEF LinkInv
    <2>3. Len(evtq') = 1 /\ evtq'[1] = e /\ \A i \in 1..Len(evtq') : i = 1
      BY <1>5, <2>2
    <2>4. QED
      BY <1>1, <1>3, <1>4, <1>5, <2>1, <2>2, <2>3 DEF LinkInv, ModulesTake
  <1>8. DarkInv'
    BY <1>1, <1>3, DarkFrame DEF IInv
  <1>9. HaltInv'
    BY <1>1, <1>3, HaltFrame DEF Running
  <1>10. QED
    BY <1>3, <1>6, <1>7, <1>8, <1>9 DEF IInv

\* The end of a link and the events that a link can cause, told by id.
LEMMA IInvPost ==
  ASSUME IInv, TypeOK', TimerInv', Running, link # NoHandle,
         NEW id \in EventIds \ {"CONNECTED"}, Post(id, link),
         link' = IF id = "DISCONNECTED" THEN NoHandle ELSE link,
         UNCHANGED <<adv, is_advertising, m_conn_handle, conn_handle,
                     btn_enabled, update_count, main, adv_cnt,
                     notif_cnt, dark, halted>>
  PROVE  IInv'
  <1>1. Booted' <=> Booted
    BY DEF Booted
  <1>2. ASSUME ~Booted PROVE BootInv'
    <2>1. BootInv /\ evtq # <<>> /\ evtq \in Seq(Event)
      BY <1>2 DEF IInv, BootInv, TypeOK, SdTypeOK
    <2>2. [id |-> id, handle |-> link] \in Event
      BY DEF IInv, TypeOK, SdTypeOK, Event
    <2>3. evtq' # <<>> /\ evtq'[1] = evtq[1]
      BY <2>1, <2>2, AppendToQueue, EmptyQueue DEF Post
    <2>4. QED
      BY <2>1, <2>3 DEF BootInv, ModulesTake
  <1>3. ASSUME Booted PROVE LinkInv'
    <2>1. LinkInv /\ TypeOK
      BY <1>3 DEF IInv
    <2>2. /\ ~adv
          /\ evtq' # <<>>
          /\ evtq'[Len(evtq')].id = id
          /\ \A i \in 1..Len(evtq') :
               /\ evtq'[i].id = "CONNECTED" => i = 1 /\ m_conn_handle = NoHandle
               /\ evtq'[i].id = "DISCONNECTED" => i = Len(evtq')
               /\ evtq'[i].id = "DISCONNECTED" => id = "DISCONNECTED"
          /\ evtq # <<>> => evtq'[1] = evtq[1]
          /\ evtq = <<>> => evtq'[1].id = id /\ m_conn_handle # NoHandle
      BY <2>1, AfterPost
    <2>3. link' = NoHandle <=> id = "DISCONNECTED"
      OBVIOUS
    <2>4. link' # NoHandle =>
            link' = IF m_conn_handle' = NoHandle THEN evtq'[1].handle ELSE m_conn_handle'
      BY <2>1, <2>2 DEF LinkInv
    <2>5. is_advertising' <=> adv' \/ (evtq' # <<>> /\ evtq'[1].id = "CONNECTED")
      BY <2>1, <2>2 DEF LinkInv
    <2>6. m_conn_handle' = NoHandle => evtq'[1].id = "CONNECTED"
      BY <2>1, <2>2 DEF LinkInv
    <2>7. QED
      BY <2>1, <2>2, <2>3, <2>4, <2>5, <2>6 DEF LinkInv, ModulesTake
  <1>4. DarkInv'
    BY <1>1, DarkFrame DEF IInv
  <1>5. HaltInv'
    BY HaltFrame DEF Running
  <1>6. QED
    BY <1>1, <1>2, <1>3, <1>4, <1>5 DEF IInv

LEMMA IInvDisconnect ==
  ASSUME IInv, TypeOK', TimerInv', Disconnect
  PROVE  IInv'
  <1>1. Running /\ link # NoHandle /\ Post("DISCONNECTED",
  link) /\ link' = NoHandle
    BY DEF Disconnect
  <1>2. UNCHANGED <<adv, is_advertising, m_conn_handle, conn_handle,
                    btn_enabled, update_count, main, adv_cnt,
                    notif_cnt, dark, halted>>
    BY DEF Disconnect, linkVars, tickVars, btnVars, cpVars, ctxVars
  <1>3. "DISCONNECTED" \in EventIds \ {"CONNECTED"}
    BY DEF EventIds
  <1>4. QED
    BY <1>1, <1>2, <1>3, IInvPost

LEMMA IInvPeerRequest ==
  ASSUME IInv, TypeOK', TimerInv', NEW id \in PeerEvents, PeerRequest(id)
  PROVE  IInv'
  <1>1. Running /\ link # NoHandle /\ Post(id, link) /\ link' = link
    BY DEF PeerRequest
  <1>2. UNCHANGED <<adv, is_advertising, m_conn_handle, conn_handle,
                    btn_enabled, update_count, main, adv_cnt,
                    notif_cnt, dark, halted>>
    BY DEF PeerRequest, linkVars, tickVars, btnVars, cpVars, ctxVars
  <1>3. id \in EventIds \ {"CONNECTED"} /\ id # "DISCONNECTED"
    BY DEF EventIds, Requests, PeerEvents
  <1>4. QED
    BY <1>1, <1>2, <1>3, IInvPost

LEMMA IInvPeerWritesCccd ==
  ASSUME IInv, TypeOK', TimerInv', NEW s \in Services, PeerWritesCccd(s)
  PROVE  IInv'
  <1>1. Running /\ link # NoHandle /\ link' = link
    BY DEF PeerWritesCccd
  <1>2. UNCHANGED <<adv, is_advertising, m_conn_handle, conn_handle,
                    btn_enabled, update_count, main, adv_cnt,
                    notif_cnt, dark, halted>>
    BY DEF PeerWritesCccd, linkVars, tickVars, btnVars, cpVars, ctxVars
  <1>3. CASE s = "nus"
    <2> DEFINE id == IF cccd[s] THEN "NUS_CCCD_OFF" ELSE "NUS_CCCD_ON"
    <2>1. Post(id, link)
      BY <1>3 DEF PeerWritesCccd
    <2>2. id \in EventIds \ {"CONNECTED"} /\ id # "DISCONNECTED"
      BY DEF EventIds
    <2> HIDE DEF id
    <2>3. QED
      BY <1>1, <1>2, <2>1, <2>2, IInvPost
  <1>4. CASE s # "nus"
    <2>1. evtq' = evtq
      BY <1>4 DEF PeerWritesCccd
    <2>2. update_count' # 0 => m_conn_handle # NoHandle
      BY <1>1, <1>2 DEF IInv, BootInv, LinkInv
    <2>3. QED
      BY <1>1, <1>2, <2>1, <2>2, AllFrame DEF Running
  <1>5. QED
    BY <1>3, <1>4

-------------------------------------------------------------------------------
(***************************************************************************)
(* The timer of the update requests.                                       *)
(***************************************************************************)

\* What the requests of a turn of SWI2 come to once SWI0 serves them.
LEMMA ServedTimer ==
  ASSUME NEW t \in Timer
  PROVE  /\ Served(StopTimer(t)).on <=> t.start
         /\ StopTimer(t).start = t.start
         /\ Served(Served(t)).on = Served(t).on
         /\ ~Served(t).start
         /\ Served(Expired(t)).on <=> t.start
         /\ Expired(t).start = t.start
         /\ t.start => Served(t).on
  BY DEF Timer, Idle, StopTimer, Served, Expired

\* A step that makes no request of this timer and leaves the connection alone.
LEMMA TimerFrame ==
  ASSUME TimerInv, Running,
         UNCHANGED <<upd_timer, m_conn_handle, asked>>, low' \in {low, "idle"}
  PROVE  TimerInv'
  BY DEF TimerInv, TimerOutlivesOnlyItsTurn

\* A turn of SWI2 starts with no request queued.
LEMMA AskedInTurn ==
  ASSUME IInv, NEW id, Pull(id), upd_timer.start
  PROVE  AskedBefore
  BY DEF Pull, NoTimerRequest, Requested, AskedBefore, IInv, TimerInv

\* Any event but CONNECTED finds the application connected.
LEMMA PullConnected ==
  ASSUME IInv, NEW id, id # "CONNECTED", Pull(id)
  PROVE  m_conn_handle # NoHandle
  <1>1. Running /\ evtq # <<>> /\ evtq[1].id = id
    BY TailOfQueue DEF Pull, IInv, TypeOK, SdTypeOK
  <1>2. QED
    BY <1>1 DEF IInv, BootInv, LinkInv

LEMMA TimerNext == IInv /\ [Next]_vars => TimerInv'
  <1> SUFFICES ASSUME IInv, [Next]_vars
               PROVE  TimerInv'
    OBVIOUS
  <1> USE DEF sdVars, linkVars, tickVars, btnVars, cpVars, ctxVars
  <1>1. TimerInv /\ upd_timer \in Timer
    BY DEF IInv, TypeOK, CpTypeOK
  <1>2. CASE OnConnected
    <2>1. Running /\ Pull("CONNECTED") /\ Head(evtq).handle # NoHandle
      BY <1>2, PullType, LinkAssumption DEF OnConnected, Pull, IInv, TypeOK
    <2>2. CASE halted' = "no"
      <3>1. m_conn_handle' # NoHandle
        BY <1>2, <2>1 DEF OnConnected, OnBleEvtConnected
      <3>2. PICK ok \in BOOLEAN : Negotiate(ok)
        BY <1>2, <2>2 DEF OnConnected
      <3>3. upd_timer'.start => asked'
        BY <3>2, <2>1, AskedInTurn DEF Negotiate
      <3>4. QED
        BY <3>1, <3>3 DEF TimerInv, TimerOutlivesOnlyItsTurn
    <2>3. QED
      BY <2>2 DEF TimerInv, TimerOutlivesOnlyItsTurn, Running
  <1>3. CASE OnDisconnected
    <2>1. Pull("DISCONNECTED") /\ asked' = AskedBefore
      BY <1>3 DEF OnDisconnected
    <2>2. CASE halted' = "no"
      <3>1. upd_timer' = StopTimer(upd_timer)
        BY <1>3, <2>2 DEF OnDisconnected, ConnParamsOnDisconnect
      <3>2. upd_timer.start => asked'
        BY <2>1, AskedInTurn
      <3>3. /\ Served(upd_timer').on <=> upd_timer.start
            /\ upd_timer'.start = upd_timer.start
        BY <1>1, <3>1, ServedTimer
      <3>4. Served(upd_timer).on' => asked'
        BY <3>2, <3>3 DEF Served
      <3>5. QED
        BY <3>2, <3>3, <3>4 DEF TimerInv, TimerOutlivesOnlyItsTurn
    <2>3. QED
      BY <2>2 DEF TimerInv, TimerOutlivesOnlyItsTurn, Running
  <1>4. ASSUME NEW id \in EventIds \ {"CONNECTED", "DISCONNECTED"}, Pull(id),
               UNCHANGED m_conn_handle,
               \/ UNCHANGED upd_timer /\ asked' = AskedBefore
               \/ \E ok \in BOOLEAN : Negotiate(ok)
        PROVE  TimerInv'
    <2>1. m_conn_handle' # NoHandle
      BY <1>4, PullConnected
    <2>2. upd_timer.start => AskedBefore
      BY <1>4, AskedInTurn
    <2>3. upd_timer'.start => asked'
      <3>1. CASE UNCHANGED upd_timer /\ asked' = AskedBefore
        BY <2>2, <3>1
      <3>2. CASE \E ok \in BOOLEAN : Negotiate(ok)
        BY <2>2, <3>2 DEF Negotiate
      <3>3. QED
        BY <1>4, <3>1, <3>2
    <2>4. QED
      BY <2>1, <2>3 DEF TimerInv, TimerOutlivesOnlyItsTurn
  <1>5. CASE OnConnParamUpdate
    BY <1>4, <1>5 DEF OnConnParamUpdate, EventIds
  <1>6. ASSUME NEW id \in Requests, OnRequest(id)
        PROVE  TimerInv'
    BY <1>4, <1>6 DEF OnRequest, EventIds, Requests
  <1>7. ASSUME NEW on \in BOOLEAN, OnNusCccd(on)
        PROVE  TimerInv'
    BY <1>4, <1>7 DEF OnNusCccd, EventIds
  <1>8. CASE UpdateTimeout
    <2>1. upd_timer' = Expired(upd_timer) /\ UNCHANGED <<m_conn_handle, asked, low>>
          /\ Running
      BY <1>8 DEF UpdateTimeout
    <2>2. /\ Served(upd_timer').on => Served(upd_timer).on
          /\ upd_timer'.start = upd_timer.start
      BY <1>1, <2>1, ServedTimer
    <2>3. Served(upd_timer).on' = Served(upd_timer').on
      BY DEF Served
    <2>4. QED
      BY <1>1, <2>1, <2>2, <2>3 DEF TimerInv, TimerOutlivesOnlyItsTurn
  <1>9. CASE TimerListHandler
    <2>1. upd_timer' = Served(upd_timer) /\ UNCHANGED <<m_conn_handle, asked, low>>
          /\ Running
      BY <1>9 DEF TimerListHandler
    <2>2. Served(upd_timer').on = Served(upd_timer).on /\ ~upd_timer'.start
      BY <1>1, <2>1, ServedTimer
    <2>3. Served(upd_timer).on' = Served(upd_timer').on
      BY DEF Served
    <2>4. QED
      BY <1>1, <2>1, <2>2, <2>3 DEF TimerInv, TimerOutlivesOnlyItsTurn
  <1>10. CASE EventsDone
    BY <1>1, <1>10 DEF EventsDone, TimerInv, TimerOutlivesOnlyItsTurn, Running
  <1>11. CASE TimerTick \/ ButtonEdge \/ DetectionTimeout \/ NusLine
    BY <1>1, <1>11, TimerFrame
    DEF TimerTick, ButtonEdge, DetectionTimeout, NusLine
  <1>12. CASE Boot
    BY <1>1, <1>12, TimerFrame
    DEF Boot, StartTick, MainAdvCheck, MainAdvCall, MainAdvFlag, ButtonsInit, MainAt
  <1>13. CASE SchedGet \/ ButtonNotify \/ SchedEmpty \/ ImuUpdate
    BY <1>1, <1>13, TimerFrame DEF SchedGet, ButtonNotify, SchedEmpty, ImuUpdate, MainAt
  <1>14. CASE (\E h \in Handles : Connect(h)) \/ Disconnect \/ TxComplete
    BY <1>1, <1>14, TimerFrame DEF Connect, Disconnect, TxComplete
  <1>15. CASE \/ \E id \in PeerEvents : PeerRequest(id)
              \/ \E s \in Services : PeerWritesCccd(s)
    BY <1>1, <1>15, TimerFrame DEF PeerRequest, PeerWritesCccd
  <1>16. CASE UNCHANGED vars
    BY <1>1, <1>16 DEF vars, TimerInv, TimerOutlivesOnlyItsTurn, Running, Served
  <1>17. QED
    BY <1>2, <1>3, <1>5, <1>6, <1>7, <1>8, <1>9, <1>10, <1>11, <1>12, <1>13,
       <1>14, <1>15, <1>16 DEF Next, Dispatch

-------------------------------------------------------------------------------
LEMMA IInvInit == Init => IInv
  <1> SUFFICES ASSUME Init PROVE IInv
    OBVIOUS
  <1>1. TypeOK
    BY InitType
  <1>2. ~Booted /\ Running
    BY DEF Init, Booted, BootPcs, Running
  <1>3. BootInv
    BY DEF Init, BootInv, ModulesTake
  <1>4. DarkInv /\ TimerInv
    <2>1. DarkInv
      BY DEF Init, DarkInv
    <2>2. upd_timer = Idle /\ ~Served(Idle).on /\ ~Idle.start
      BY DEF Init, Idle, Served
    <2>3. TimerInv
      BY <2>2 DEF TimerInv, TimerOutlivesOnlyItsTurn
    <2>4. QED
      BY <2>1, <2>3
  <1>5. HaltInv
    BY <1>2 DEF HaltInv, OnlySlowBootRaces, AdvStopFailsOnlyOnUnseenLink,
       ReplyFailsOnlyOnLostLink, Running
  <1>6. QED
    BY <1>1, <1>2, <1>3, <1>4, <1>5 DEF IInv

LEMMA IInvNext == IInv /\ [Next]_vars => IInv'
  <1> SUFFICES ASSUME IInv, [Next]_vars
               PROVE  IInv'
    OBVIOUS
  <1>1. TypeOK' /\ TimerInv'
    BY NextType, TimerNext DEF IInv
  <1>2. CASE UNCHANGED vars
    <2>1. UNCHANGED <<adv, link, evtq, is_advertising, m_conn_handle,
                      conn_handle, btn_enabled, update_count, main,
                      adv_cnt, notif_cnt, dark, halted>>
      BY <1>2 DEF vars, sdVars, linkVars, tickVars, btnVars, cpVars, ctxVars
    <2>2. (Running' <=> Running) /\ (Booted' <=> Booted)
      BY <2>1 DEF Running, Booted
    <2>3. Running' /\ ~Booted' => BootInv'
      BY <2>1, <2>2, BootFrame DEF IInv
    <2>4. Running' /\ Booted' => LinkInv'
      BY <2>1, <2>2, LinkFrame DEF IInv, LinkInv
    <2>5. DarkInv'
      BY <2>1, <2>2 DEF IInv, DarkInv
    <2>6. HaltInv'
      BY <2>1, <2>2 DEF IInv, HaltInv, OnlySlowBootRaces, Pending,
         AdvStopFailsOnlyOnUnseenLink, ReplyFailsOnlyOnLostLink
    <2>7. QED
      BY <1>1, <2>3, <2>4, <2>5, <2>6 DEF IInv
  <1>3. CASE Dispatch
    BY <1>1, <1>3, IInvConnected, IInvDisconnected, IInvRequest, IInvNusCccd,
       IInvConnParamUpdate
    DEF Dispatch
  <1>4. CASE TimerTick
    BY <1>1, <1>4, IInvTickConnected, IInvTickDisconnected DEF TimerTick
  <1>5. CASE Boot
    BY <1>1, <1>5, IInvBoot
  <1>6. CASE SchedGet \/ ButtonNotify \/ SchedEmpty \/ ImuUpdate
    BY <1>1, <1>6, IInvMainLoop
  <1>7. CASE \/ EventsDone
              \/ ButtonEdge
              \/ DetectionTimeout
              \/ TimerListHandler
              \/ NusLine
              \/ TxComplete
              \/ UpdateTimeout
    BY <1>1, <1>7, IInvElsewhere, IInvUpdateTimeout
  <1>8. CASE \E h \in Handles : Connect(h)
    BY <1>1, <1>8, IInvConnect
  <1>9. CASE Disconnect
    BY <1>1, <1>9, IInvDisconnect
  <1>10. CASE \E id \in PeerEvents : PeerRequest(id)
    BY <1>1, <1>10, IInvPeerRequest
  <1>11. CASE \E s \in Services : PeerWritesCccd(s)
    BY <1>1, <1>11, IInvPeerWritesCccd
  <1>12. QED
    BY <1>2, <1>3, <1>4, <1>5, <1>6, <1>7, <1>8, <1>9, <1>10, <1>11 DEF Next

-------------------------------------------------------------------------------
(***************************************************************************)
(* Safety.                                                                 *)
(***************************************************************************)

\* IInv holds in every reachable state: the inductive account of how the event
\* queue, the handles, the advertising flag, the counters and the checks of
\* the source hang together, from boot to the error handler.
THEOREM Inductive == Spec => []IInv
  BY IInvInit, IInvNext, PTL DEF Spec

\* Every decision of advertising_start() and advertising_stop() is taken on a
\* flag that tells what the radio does, but for a connection still unseen.
THEOREM FlagIsTheRadio == Spec => []FlagTracksRadio
  <1>1. IInv => FlagTracksRadio
    <2> SUFFICES ASSUME IInv, Running, Booted
                 PROVE  is_advertising <=> adv \/ Pending("CONNECTED")
      BY DEF FlagTracksRadio
    <2>1. LinkInv /\ evtq \in Seq(Event)
      BY DEF IInv, TypeOK, SdTypeOK
    <2>2. Pending("CONNECTED") <=> evtq # <<>> /\ evtq[1].id = "CONNECTED"
      <3>1. evtq # <<>> => 1 \in 1..Len(evtq)
        BY <2>1, EmptyQueue
      <3>2. Pending("CONNECTED") => evtq # <<>> /\ evtq[1].id = "CONNECTED"
        BY <2>1 DEF Pending, LinkInv
      <3>3. QED
        BY <3>1, <3>2 DEF Pending
    <2>3. QED
      BY <2>1, <2>2 DEF LinkInv
  <1>2. QED
    BY <1>1, Inductive, PTL

\* The three kinds of checks of the source that can fail: to start advertising or to
\* enable the buttons, on a slow boot only (twi_advertising.c:60, twi_ble_evt.c:35), ...
THEOREM SlowBootExplained == Spec => []OnlySlowBootRaces
  <1>1. IInv => OnlySlowBootRaces
    BY DEF IInv, HaltInv
  <1>2. QED
    BY <1>1, Inductive, PTL

\* ... to stop advertising, on a connection still unseen only (twi_advertising.c:72), ...
THEOREM HaltsExplained == Spec => []AdvStopFailsOnlyOnUnseenLink
  <1>1. IInv => AdvStopFailsOnlyOnUnseenLink
    BY DEF IInv, HaltInv
  <1>2. QED
    BY <1>1, Inductive, PTL

\* ... and to answer the stack or to ask for parameters (twi_ble_evt.c:52-78,
\* ble_conn_params.c:64), on a link lost and not yet known to be, whichever
\* connection started the timer that asks.
THEOREM RepliesExplained == Spec => []ReplyFailsOnlyOnLostLink
  <1>1. IInv => ReplyFailsOnlyOnLostLink
    BY DEF IInv, HaltInv
  <1>2. QED
    BY <1>1, Inductive, PTL

\* A press is notified on the handle read before, a line on the copy of the service.
LEMMA NotifyStep ==
  ASSUME IInv, ButtonNotify \/ NusLine
  PROVE  NotifyFailsOnlyUnready'
  <1>1. Running /\ TypeOK /\ UNCHANGED <<link, sysattr, evtq, nus_enabled>>
    BY DEF ButtonNotify, NusLine, MainAt, IInv, linkVars
  <1>2. CASE ButtonNotify
    <2>1. PICK r \in HvxResults(arg, "lbs") :
            /\ tx' = TxAfter(r)
            /\ halted' = IF r \in {"SUCCESS", "INVALID_CONN_HANDLE", "INVALID_STATE"}
                         THEN "no" ELSE "button_hvx"
      BY <1>2 DEF ButtonNotify
    <2>2. ASSUME halted' = "button_hvx" PROVE Unready'
      <3>1. r \in HvxErrors(arg, "lbs") /\ r \notin {"SUCCESS", "INVALID_CONN_HANDLE", "INVALID_STATE"}
        BY <2>1, <2>2 DEF HvxResults
      <3>2. link # NoHandle /\ (~sysattr \/ tx = 0)
        BY <3>1 DEF HvxErrors
      <3>3. tx' = tx
        BY <2>1, <3>1 DEF TxAfter
      <3>4. QED
        BY <1>1, <3>2, <3>3 DEF Unready
    <2>3. QED
      BY <2>1, <2>2 DEF NotifyFailsOnlyUnready
  <1>3. CASE NusLine
    <2>1. PICK r \in HvxResults(conn_handle["nus"], "nus") :
            /\ tx' = TxAfter(r)
            /\ halted' = IF r \in {"SUCCESS", "INVALID_STATE"} THEN "no" ELSE "nus_hvx"
      BY <1>3 DEF NusLine
    <2>2. nus_enabled /\ conn_handle["nus"] # NoHandle
      BY <1>3 DEF NusLine
    <2>3. ASSUME halted' = "nus_hvx"
          PROVE  Unready' \/ (link = NoHandle /\ Pending("DISCONNECTED"))
      <3>1. r \in HvxErrors(conn_handle["nus"], "nus") /\ r \notin {"SUCCESS", "INVALID_STATE"}
        BY <2>1, <2>3 DEF HvxResults
      <3>2. tx' = tx
        BY <2>1, <3>1 DEF TxAfter
      <3>3. CASE conn_handle["nus"] = link
        BY <1>1, <2>2, <3>1, <3>2, <3>3 DEF HvxErrors, Unready
      <3>4. CASE conn_handle["nus"] # link
        <4>1. LinkInv /\ m_conn_handle = conn_handle["nus"]
          BY <1>1, <2>2 DEF IInv, BootInv, LinkInv, ModulesTake, Modules, Services
        <4>2. link = NoHandle
          BY <2>2, <3>4, <4>1 DEF LinkInv
        <4>3. evtq # <<>> /\ evtq[Len(evtq)].id = "DISCONNECTED"
          BY <2>2, <4>1, <4>2 DEF LinkInv
        <4>4. Len(evtq) \in 1 .. Len(evtq)
          BY <1>1, <4>3, EmptyQueue DEF TypeOK, SdTypeOK
        <4>5. QED
          BY <4>2, <4>3, <4>4 DEF Pending
      <3>5. QED
        BY <3>3, <3>4
    <2>4. QED
      BY <1>1, <2>1, <2>2, <2>3 DEF NotifyFailsOnlyUnready, Pending
  <1>4. QED
    BY <1>2, <1>3

\* No other check has these two names.
LEMMA OtherHalts ==
  ASSUME Running, Next, ~ButtonNotify, ~NusLine
  PROVE  halted' \notin {"button_hvx", "nus_hvx"}
  <1>1. halted = "no"
    BY DEF Running
  <1>2. CASE Dispatch \/ EventsDone
    BY <1>1, <1>2 DEF Dispatch, OnConnected, OnBleEvtConnected, OnDisconnected,
       OnBleEvtDisconnected, AdvertisingStart, OnConnParamUpdate, OnRequest, OnNusCccd, EventsDone
  <1>3. CASE TimerTick \/ ButtonEdge \/ DetectionTimeout \/ UpdateTimeout \/ TimerListHandler
    BY <1>1, <1>3 DEF TimerTick, TickConnected, TickDisconnected, AdvertisingStart,
       AdvertisingStop, ButtonEdge, DetectionTimeout, UpdateTimeout, TimerListHandler
  <1>4. CASE Boot \/ SchedGet \/ SchedEmpty \/ ImuUpdate
    BY <1>1, <1>4 DEF Boot, StartTick, MainAdvCheck, MainAdvCall, MainAdvFlag, ButtonsInit,
       SchedGet, SchedEmpty, ImuUpdate
  <1>5. CASE \/ \E h \in Handles : Connect(h)
             \/ Disconnect
             \/ \E id \in PeerEvents : PeerRequest(id)
             \/ \E s \in Services : PeerWritesCccd(s)
             \/ TxComplete
    BY <1>1, <1>5 DEF Connect, Disconnect, PeerRequest, PeerWritesCccd, TxComplete
  <1>6. QED
    BY <1>2, <1>3, <1>4, <1>5 DEF Next

LEMMA OnlyRunning == Next => Running
  BY DEF Next, Dispatch, OnConnected, OnDisconnected, OnConnParamUpdate, OnRequest, OnNusCccd,
     Pull, EventsDone, TimerTick, ButtonEdge, DetectionTimeout, UpdateTimeout, TimerListHandler,
     NusLine, Boot, StartTick, MainAdvCheck, MainAdvCall, MainAdvFlag, ButtonsInit, SchedGet,
     ButtonNotify, SchedEmpty, ImuUpdate, MainAt, Connect, Disconnect, PeerRequest,
     PeerWritesCccd, TxComplete

\* The checks after a notification (buttons.c:26, uart.c:98) fail on a live link that is
\* not ready only, whenever the press was queued or the flag set, or, for a line, on a
\* link lost and not yet known to be; a press without a link is never fatal.
THEOREM NotificationsExplained == Spec => []NotifyFailsOnlyUnready
  <1>1. Init => NotifyFailsOnlyUnready
    BY DEF Init, NotifyFailsOnlyUnready
  <1>2. IInv /\ NotifyFailsOnlyUnready /\ [Next]_vars => NotifyFailsOnlyUnready'
    <2> SUFFICES ASSUME IInv, NotifyFailsOnlyUnready, [Next]_vars
                 PROVE  NotifyFailsOnlyUnready'
      OBVIOUS
    <2>1. CASE UNCHANGED vars
      BY <2>1 DEF NotifyFailsOnlyUnready, Unready, Pending, vars, sdVars, linkVars
    <2>2. CASE Next /\ ~ButtonNotify /\ ~NusLine
      BY <2>2, OnlyRunning, OtherHalts DEF NotifyFailsOnlyUnready
    <2>3. QED
      BY <2>1, <2>2, NotifyStep
  <1>3. QED
    BY <1>1, <1>2, Inductive, PTL DEF Spec

\* The five copies of the connection handle agree, but for an event already on
\* its way to the application.
THEOREM HandlesAgree == Spec => []HandlesCatchUp
  <1>1. IInv => HandlesCatchUp
    <2> SUFFICES ASSUME IInv, Running
                 PROVE  /\ \A m \in Modules : conn_handle[m] = m_conn_handle
                        /\ m_conn_handle # link =>
                             Pending("CONNECTED") \/ Pending("DISCONNECTED")
      BY DEF HandlesCatchUp
    <2>1. evtq \in Seq(Event)
          /\ (evtq # <<>> => 1 \in 1..Len(evtq) /\ Len(evtq) \in 1..Len(evtq))
      BY EmptyQueue DEF IInv, TypeOK, SdTypeOK
    <2>2. CASE ~Booted
      <3>1. BootInv
        BY <2>2 DEF IInv
      <3>2. QED
        BY <2>1, <3>1 DEF BootInv, ModulesTake, Pending
    <2>3. CASE Booted
      <3>1. LinkInv
        BY <2>3 DEF IInv
      <3>2. \A m \in Modules : conn_handle[m] = m_conn_handle
        BY <3>1 DEF LinkInv, ModulesTake
      <3>3. ASSUME m_conn_handle # link, m_conn_handle = NoHandle
            PROVE  Pending("CONNECTED")
        BY <2>1, <3>1, <3>3 DEF LinkInv, Pending
      <3>4. ASSUME m_conn_handle # link, m_conn_handle # NoHandle
            PROVE  Pending("DISCONNECTED")
        BY <2>1, <3>1, <3>4 DEF LinkInv, Pending
      <3>5. QED
        BY <3>2, <3>3, <3>4
    <2>4. QED
      BY <2>2, <2>3
  <1>2. QED
    BY <1>1, Inductive, PTL

\* Button detection runs in a connection and nowhere else.
THEOREM ButtonsFollow == Spec => []ButtonsFollowLink
  <1>1. IInv => ButtonsFollowLink
    BY DEF IInv, BootInv, LinkInv, ButtonsFollowLink
  <1>2. QED
    BY <1>1, Inductive, PTL

\* The radio is never dark for more ticks in a row than imu_timer_handler may
\* skip, on whatever flags and counters boot and earlier connections left.
THEOREM DarknessIsBounded == Spec => []DarknessBound
  <1>1. IInv => DarknessBound
    BY LinkAssumption DEF IInv, TypeOK, TickTypeOK, DarkInv, DarknessBound
  <1>2. QED
    BY <1>1, Inductive, PTL

\* A request timer that outlives its connection was asked for in the turn of SWI2
\* that ended it: the stop of ble_conn_params.c:218 misses no other.
THEOREM TimerLeftoversExplained == Spec => []TimerOutlivesOnlyItsTurn
  <1>1. IInv => TimerOutlivesOnlyItsTurn
    BY DEF IInv, TimerInv
  <1>2. QED
    BY <1>1, Inductive, PTL

-------------------------------------------------------------------------------
(***************************************************************************)
(* The firmware implements LinkLifecycle.                                  *)
(***************************************************************************)

\* A step of a running firmware that does not touch m_conn_handle starts or
\* stops advertising, halts, or is invisible.
LEMMA LifecycleFrame ==
  ASSUME Running, m_conn_handle' = m_conn_handle
  PROVE  Lifecycle!Next \/ Mode' = Mode
  <1>1. CASE m_conn_handle # NoHandle
    BY <1>1 DEF Mode, Running, Lifecycle!Next, Lifecycle!Halt
  <1>2. CASE m_conn_handle = NoHandle
    BY <1>2 DEF Mode, Running, Lifecycle!Next, Lifecycle!Halt,
       Lifecycle!StartAdvertising, Lifecycle!StopAdvertising
  <1>3. QED
    BY <1>1, <1>2

\* The application accepts a connection only if it knew it was advertising.
LEMMA LifecycleConnected ==
  ASSUME IInv, OnConnected
  PROVE  Lifecycle!Next
  <1> USE DEF OnConnected, OnBleEvtConnected
  <1>1. Running /\ evtq # <<>> /\ evtq[1].id = "CONNECTED" /\ 1 \in 1..Len(evtq)
        /\ Head(evtq).handle # NoHandle
    BY PullType, TailOfQueue, EmptyQueue, LinkAssumption
    DEF Pull, IInv, TypeOK, SdTypeOK
  <1>2. CASE ~Booted
    BY <1>1, <1>2 DEF Mode, Running, Lifecycle!Next, Lifecycle!Halt, IInv,
       BootInv
  <1>3. CASE Booted
    <2>1. m_conn_handle = NoHandle /\ is_advertising
      BY <1>1, <1>3 DEF IInv, LinkInv
    <2>2. Mode = "advertising" /\ Mode' = "connected"
      BY <1>1, <1>3, <2>1 DEF Mode, Running
    <2>3. QED
      BY <2>2 DEF Lifecycle!Next, Lifecycle!Accept
  <1>4. QED
    BY <1>2, <1>3

\* Advertising is back when the handler of the disconnection returns.
LEMMA LifecycleDisconnected ==
  ASSUME IInv, OnDisconnected
  PROVE  Lifecycle!Next
  <1> USE DEF OnDisconnected, OnBleEvtDisconnected
  <1>1. Running /\ TypeOK /\ evtq \in Seq(Event) /\ evtq # <<>>
        /\ Head(evtq).id = "DISCONNECTED"
    BY DEF Pull, IInv, TypeOK, SdTypeOK
  <1>2. Booted
    BY <1>1, TailOfQueue DEF IInv, BootInv
  <1>3. LinkInv
    BY <1>1, <1>2 DEF IInv
  <1>4. ~adv /\ link = NoHandle /\ evtq[1].id = "DISCONNECTED"
    BY <1>1, <1>3, AfterPull
  <1>5. m_conn_handle # NoHandle /\ ~is_advertising
    BY <1>1, <1>3, <1>4 DEF LinkInv
  <1>6. is_advertising' /\ halted' = "no"
    BY <1>1, <1>4, <1>5 DEF AdvertisingStart, SdAdvStartOk, Running
  <1>7. Mode = "connected" /\ Mode' = "advertising"
    BY <1>1, <1>5, <1>6 DEF Mode, Running
  <1>8. QED
    BY <1>7 DEF Lifecycle!Next, Lifecycle!Drop

LEMMA LifecycleStep == IInv /\ [Next]_vars => [Lifecycle!Next]_Mode
  <1> SUFFICES ASSUME IInv, [Next]_vars
               PROVE  Lifecycle!Next \/ Mode' = Mode
    OBVIOUS
  <1> USE DEF vars, sdVars, linkVars, tickVars, btnVars, cpVars, ctxVars
  <1>1. CASE UNCHANGED vars
    BY <1>1 DEF Mode, Running
  <1>2. CASE OnConnected
    BY <1>2, LifecycleConnected
  <1>3. CASE OnDisconnected
    BY <1>3, LifecycleDisconnected
  <1>4. CASE \E id \in Requests : OnRequest(id)
    BY <1>4, LifecycleFrame DEF OnRequest, Pull
  <1>5. CASE \E on \in BOOLEAN : OnNusCccd(on)
    BY <1>5, LifecycleFrame DEF OnNusCccd, Pull
  <1>6. CASE \/ OnConnParamUpdate
              \/ UpdateTimeout
              \/ TimerListHandler
              \/ TimerTick
              \/ EventsDone
              \/ ButtonEdge
              \/ DetectionTimeout
              \/ NusLine
    BY <1>6, LifecycleFrame
    DEF OnConnParamUpdate, Pull, UpdateTimeout, TimerListHandler, TimerTick,
        EventsDone, ButtonEdge, DetectionTimeout, NusLine
  <1>7. CASE Boot
    BY <1>7, LifecycleFrame DEF Boot, StartTick, MainAdvCheck, MainAdvCall,
       MainAdvFlag, ButtonsInit, MainAt
  <1>8. CASE SchedGet \/ ButtonNotify \/ SchedEmpty \/ ImuUpdate
    BY <1>8, LifecycleFrame DEF SchedGet, ButtonNotify, SchedEmpty, ImuUpdate,
       MainAt
  <1>9. CASE (\E h \in Handles : Connect(h)) \/ Disconnect \/ TxComplete
    BY <1>9, LifecycleFrame DEF Connect, Disconnect, TxComplete
  <1>10. CASE \/ \E id \in PeerEvents : PeerRequest(id)
              \/ \E s \in Services : PeerWritesCccd(s)
    BY <1>10, LifecycleFrame DEF PeerRequest, PeerWritesCccd
  <1>11. QED
    BY <1>1, <1>2, <1>3, <1>4, <1>5, <1>6, <1>7, <1>8, <1>9, <1>10 DEF Next,
       Dispatch

\* The promises of LinkLifecycle are kept, with as many handles, events and
\* buffers as there may be: a connection is accepted only by an application
\* that was advertising, and its end brings advertising back at once.
THEOREM ImplementsLifecycle == Spec => KeepsLifecycle
  <1>1. Init => Lifecycle!Init
    BY DEF Init, Lifecycle!Init, Mode, Running
  <1>2. QED
    BY <1>1, LifecycleStep, Inductive, PTL DEF Spec, KeepsLifecycle,
       Lifecycle!SafeSpec
===============================================================================
