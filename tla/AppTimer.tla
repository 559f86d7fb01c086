------------------------------- MODULE AppTimer -------------------------------
(***************************************************************************)
(* app_timer.c on RTC1, as the firmware uses it.  A request to start or to *)
(* stop a timer is queued, one queue for each interrupt level, and SWI0 is *)
(* pended; its handler takes what the RTC1 handler has found elapsed,      *)
(* deletes, inserts and sets the compare register.  Both handlers have the *)
(* priority APP_LOW, RTC1 the lower number; GPIOTE (APP_HIGH) preempts     *)
(* them, and the counter runs all the time.                                *)
(*                                                                         *)
(* The linked list of nodes is a sequence, in which a timer is iff its     *)
(* is_running is set; the double buffer m_ticks_elapsed holds one value or *)
(* none.  app_timer_stop_all is called nowhere.                            *)
(***************************************************************************)
EXTENDS Integers, Sequences, FiniteSets, FiniteSetsExt, SequencesExt

CONSTANTS
  Timers,
  Repeated,     \* those created with APP_TIMER_MODE_REPEATED
  Interval,     \* timeout_ticks of each
  BootTimer,    \* the one low_res_timer_start starts
  LowTimers,    \* those SWI2 starts and stops (ble_conn_params.c)
  EdgeTimer,    \* m_detection_delay_timer_id
  OpQueueSize,  \* APP_TIMER_OP_QUEUE_SIZE
  Wrap,         \* MAX_RTC_COUNTER_VAL + 1
  MaxLag,       \* ticks from an interrupt to the end of all it leads to
  None          \* no ticks queued

OffsetMin == 3  \* RTC_COMPARE_OFFSET_MIN

\* The ticks a timer may be late: each other timer that goes from the head of the
\* list puts the compare register off once, and interrupts are served late when
\* it is set and when it matches.
Jitter == OffsetMin * (Cardinality(Timers) - 1) + 2 * MaxLag

\* The intervals of the firmware, 40 ms and more, are far longer.
ASSUME TimerAssumption ==
  /\ IsFiniteSet(Timers)
  /\ Repeated \subseteq Timers /\ LowTimers \subseteq Timers
  /\ BootTimer \in Repeated \ LowTimers /\ EdgeTimer \in Timers \ {BootTimer}
  /\ Interval \in [Timers -> Nat]
  /\ OpQueueSize \in Nat \ {0}
  /\ MaxLag \in Nat /\ Wrap \in Nat
  /\ \A t \in Timers :
       Jitter < Interval[t] /\ 2 * (Interval[t] + Jitter + 1) < Wrap
  /\ None \notin Nat \union Timers

VARIABLES
  counter,        \* COUNTER of RTC1
  cc, armed,      \* CC[0]; will it match the next time the counter is there?
  rtc,            \* does RTC1 run?
  rtc1, swi0,     \* the two interrupts are pending
  ops,            \* p_user_op_queue of each user
  list, delta,    \* the running timers, ticks_to_expire
  latest,         \* m_ticks_latest
  elapsed,        \* m_ticks_elapsed
  at,             \* where the handler at APP_LOW is
  expired,        \* ticks_expired of timer_timeouts_check
  update,         \* compare_update of timer_list_handler
  restart,        \* restart_list_head
  pre,            \* pre_counter_val of compare_reg_update
  lag,            \* ticks since the CPU was last free of the two handlers
  due,            \* history: when each running timer is to expire
  ran,            \* history: the timers whose handlers RTC1 runs now
  runs            \* history: handlers run for one start, up to two

rtcVars == <<counter, cc, armed, rtc>>
listVars == <<list, delta, latest>>
localVars == <<expired, update, restart, pre>>
ghostVars == <<due, ran, runs>>
vars == <<rtcVars, rtc1, swi0, ops, listVars, elapsed, at, localVars, lag,
          ghostVars>>

Users == <<"thread", "low", "high">>

-------------------------------------------------------------------------------
(***************************************************************************)
(* Counter values and the list.                                            *)
(***************************************************************************)

Later(n, k) == (n + k) % Wrap

\* ticks_diff_get
Diff(now, old) == (now - old) % Wrap

\* Ticks from m_ticks_latest to the expiry of the k-th timer of l.
SumTo(l, d, k) ==
  LET S[n \in 0 .. Len(l)] == IF n = 0 THEN 0 ELSE S[n - 1] + d[l[n]] IN S[k]

\* Slip: the delta of the timer behind not made smaller.
InsertKeepsNext(s, t, ticks) ==
  LET k == Min({n \in 0 .. Len(s.list) :
                  n = Len(s.list) \/ ticks <= SumTo(s.list, s.delta, n + 1)})
      own == ticks - SumTo(s.list, s.delta, k)
  IN [s EXCEPT !.list = InsertAt(s.list, k + 1, t),
               !.delta = [s.delta EXCEPT ![t] = own]]

\* timer_list_insert: in front of the first timer that expires no earlier.
timer_list_insert(s, t, ticks) ==
  LET k == Min({n \in 0 .. Len(s.list) :
                  n = Len(s.list) \/ ticks <= SumTo(s.list, s.delta, n + 1)})
      own == ticks - SumTo(s.list, s.delta, k)
      next == IF k = Len(s.list) THEN {} ELSE {s.list[k + 1]}
  IN [s EXCEPT !.list = InsertAt(s.list, k + 1, t),
               !.delta = [u \in Timers |->
                            IF u = t THEN own
                            ELSE IF u \in next THEN s.delta[u] - own
                            ELSE s.delta[u]]]

\* timer_list_remove: the next timer inherits the ticks of t.
timer_list_remove(s, t) ==
  LET k == CHOOSE n \in DOMAIN s.list : s.list[n] = t
      next == IF k = Len(s.list) THEN {} ELSE {s.list[k + 1]}
  IN [s EXCEPT !.list = RemoveAt(s.list, k),
               !.delta = [u \in Timers |->
                            IF u = t THEN 0
                            ELSE IF u \in next THEN s.delta[u] + s.delta[t]
                            ELSE s.delta[u]]]

\* How many timers at the front expire within so many ticks.
ExpiredIn(l, d, ticks) ==
  Max({k \in 0 .. Len(l) : SumTo(l, d, k) <= ticks})

\* ticks_to_expire of a timer started at time start, in list_insertions_handler.
TicksToExpire(start, interval) ==
  LET ahead == Diff(start, latest)
      behind == Diff(latest, start)
  IN IF ahead < (Wrap - 1) \div 2 THEN ahead + interval
     ELSE IF interval > behind THEN interval - behind ELSE 0

-------------------------------------------------------------------------------
(***************************************************************************)
(* Requests.                                                               *)
(***************************************************************************)

Start(t) == [type |-> "start", timer |-> t, ticks_at_start |-> counter]
Stop(t) == [type |-> "stop", timer |-> t, ticks_at_start |-> 0]

\* user_op_alloc and user_op_enque: nothing is queued when the queue is full.
Enqueue(q, new) ==
  q \o SubSeq(new, 1, Min({Len(new), OpQueueSize - Len(q)}))

\* The handlers of RTC1 or SWI0 run or are about to.
Busy == at # "idle" \/ rtc1 \/ swi0

\* Slip: SWI0 not pended again while its handler runs.
PendsOnlyIfIdle == at \in {"idle", "rtc1"}

\* timer_list_handler_sched
PendsSwi0 == TRUE

\* app_timer_start, app_timer_stop, by the user u.
Request(u, new) ==
  /\ Len(ops[u]) < OpQueueSize
  /\ ops' = [ops EXCEPT ![u] = Enqueue(ops[u], new)]
  /\ swi0' = (swi0 \/ PendsSwi0)
  /\ lag' = IF Busy THEN lag ELSE 0
  /\ UNCHANGED <<rtcVars, rtc1, listVars, elapsed, at, localVars, ghostVars>>

\* low_res_timer_start, once, by main().
LowResTimerStart ==
  /\ ~rtc /\ at = "idle" /\ ~swi0
  /\ Request("thread", <<Start(BootTimer)>>)

\* SWI2, which the two cannot preempt: a connection event starts or stops a timer,
\* and a disconnection disables the buttons too.  The loop of a turn of SWI2 may
\* handle several events before SWI0 sees the first request.
LowRequest ==
  /\ rtc /\ at = "idle"
  /\ \E t \in LowTimers :
       \/ Request("low", <<Start(t)>>)
       \/ Request("low", <<Stop(t)>>)
       \/ Request("low", <<Stop(t), Stop(EdgeTimer)>>)

\* gpiote_event_handler of app_button.c, wherever the others are.
Edge ==
  /\ rtc
  /\ Request("high", <<Stop(EdgeTimer), Start(EdgeTimer)>>)

-------------------------------------------------------------------------------
(***************************************************************************)
(* RTC1.                                                                   *)
(***************************************************************************)

Tick ==
  /\ rtc
  /\ Busy => lag < MaxLag
  /\ counter' = Later(counter, 1)
  /\ rtc1' = (rtc1 \/ (armed /\ counter' = cc))
  /\ armed' = (armed \/ counter' = cc)
  /\ lag' = IF Busy THEN lag + 1 ELSE 0
  /\ UNCHANGED <<cc, rtc, swi0, ops, listVars, elapsed, at, localVars, ghostVars>>

\* Slip: the tick under way counted.
TicksElapsedRoundedUp == Diff(counter, latest) + 1

TicksElapsed == Diff(counter, latest)

\* RTC1_IRQHandler, timer_timeouts_check: the handlers of the timers that have
\* expired are called, while time passes ...
Rtc1Handler ==
  LET k == ExpiredIn(list, delta, TicksElapsed) IN
  /\ at = "idle" /\ rtc1
  /\ rtc1' = FALSE
  /\ IF list = <<>>
     THEN UNCHANGED <<at, expired, ran, runs>>
     ELSE /\ at' = "rtc1"
          /\ expired' = SumTo(list, delta, k)
          /\ ran' = {list[j] : j \in 1 .. k}
          /\ runs' = [t \in Timers |->
                        IF t \in ran' \ Repeated /\ runs[t] < 2
                        THEN runs[t] + 1 ELSE runs[t]]
  /\ UNCHANGED <<rtcVars, swi0, ops, listVars, elapsed, update, restart, pre,
                 lag, due>>

\* ... and the elapsed ticks are left to SWI0, over what it has not yet taken.
Rtc1Queue ==
  /\ at = "rtc1"
  /\ elapsed' = expired
  /\ expired' = 0
  /\ swi0' = TRUE
  /\ at' = "idle"
  /\ ran' = {}
  /\ UNCHANGED <<rtcVars, rtc1, ops, listVars, update, restart, pre, lag, due, runs>>

-------------------------------------------------------------------------------
(***************************************************************************)
(* SWI0: timer_list_handler, cut where GPIOTE and the counter matter.      *)
(***************************************************************************)

\* Step, for each of the operations q in turn, beginning with s.
ForEach(Step(_, _), s, q) ==
  LET After[n \in 0 .. Len(q)] == IF n = 0 THEN s ELSE Step(After[n - 1], q[n])
  IN After[Len(q)]

\* All that is queued, in the order of the users.
Queued == ops["thread"] \o ops["low"] \o ops["high"]

\* One turn of the loop of list_deletions_handler.
DeleteNode(s, op) ==
  IF op.type = "stop" /\ op.timer \in ToSet(s.list)
  THEN timer_list_remove(s, op.timer) ELSE s

\* The k-th timer of the list starts again, at the time it was due.
StartAgain(s, k) ==
  [type |-> "start", timer |-> s.list[k],
   ticks_at_start |-> Later(latest, SumTo(s.list, s.delta, k))]

\* Slip: only the timer at the head looked at.
RestartHead(s, k) ==
  IF k > 0 /\ s.list[1] \in Repeated THEN <<StartAgain(s, 1)>> ELSE <<>>

\* Those of the k expired timers that start again, the last one first.
Restarted(s, k) ==
  LET R[n \in 0 .. k] ==
        IF n = 0 THEN <<>>
        ELSE IF s.list[n] \in Repeated THEN <<StartAgain(s, n)>> \o R[n - 1]
        ELSE R[n - 1]
  IN R[k]

HeadOf(l) == IF l = <<>> THEN None ELSE l[1]

\* elapsed_ticks_acquire, list_deletions_handler, expired_timers_handler.  All
\* stops queued so far are carried out, and stay in the queue.
Swi0Deletions ==
  LET kept == ForEach(DeleteNode, [list |-> list, delta |-> delta], Queued)
      ticks == IF elapsed = None THEN 0 ELSE elapsed
      k == IF elapsed = None THEN 0 ELSE ExpiredIn(kept.list, kept.delta, ticks)
      left == SubSeq(kept.list, k + 1, Len(kept.list))
      over == ticks - SumTo(kept.list, kept.delta, k)
  IN
  /\ at = "idle" /\ swi0 /\ ~rtc1
  /\ swi0' = FALSE
  /\ at' = "insertions"
  /\ elapsed' = None
  /\ latest' = Later(latest, ticks)
  /\ list' = left
  /\ delta' = [t \in Timers |-> IF t \notin ToSet(left) THEN 0
                               ELSE IF t = left[1] THEN kept.delta[t] - over
                               ELSE kept.delta[t]]
  /\ restart' = Restarted(kept, k)
  /\ update' = (elapsed # None \/ HeadOf(kept.list) # HeadOf(list))
  /\ UNCHANGED <<rtcVars, rtc1, ops, expired, pre, lag, ghostVars>>

\* Slip: a start of a timer that runs inserts it again.
InsertRunning(s, op) ==
  IF op.type # "start" THEN s
  ELSE timer_list_insert(
         [s EXCEPT !.due[op.timer] = Later(op.ticks_at_start, Interval[op.timer]),
                   !.runs[op.timer] = 0],
         op.timer, TicksToExpire(op.ticks_at_start, Interval[op.timer]))

\* One turn of the loop of list_insertions_handler: only a start of a timer that
\* does not run counts.
InsertNode(s, op) ==
  IF op.type # "start" \/ op.timer \in ToSet(s.list) THEN s
  ELSE timer_list_insert(
         [s EXCEPT !.due[op.timer] = Later(op.ticks_at_start, Interval[op.timer]),
                   !.runs[op.timer] = 0],
         op.timer, TicksToExpire(op.ticks_at_start, Interval[op.timer]))

\* list_insertions_handler: the repeating timers, then the queues, which are
\* empty when it ends; compare_reg_update begins.
Swi0Insertions ==
  LET s == ForEach(InsertNode,
                   [list |-> list, delta |-> delta, due |-> due, runs |-> runs],
                   restart \o Queued)
      must == update \/ HeadOf(s.list) # HeadOf(list)
  IN
  /\ at = "insertions"
  /\ ops' = [u \in DOMAIN ops |-> <<>>]
  /\ restart' = <<>>
  /\ list' = s.list /\ delta' = s.delta /\ due' = s.due /\ runs' = s.runs
  /\ update' = FALSE
  /\ IF must /\ s.list # <<>>
     THEN at' = "compare" /\ pre' = counter /\ UNCHANGED rtc
     ELSE /\ at' = "idle"
          /\ rtc' = (rtc /\ ~must)
          /\ UNCHANGED pre
  /\ UNCHANGED <<counter, cc, armed, rtc1, swi0, latest, elapsed, expired, lag, ran>>

\* Slip: the counter may be past the compare register.
CompareNoOffset == delta[list[1]]

\* Ticks from m_ticks_latest to the compare value.
CompareTicks == Max({delta[list[1]], Diff(pre, latest) + OffsetMin})

\* compare_reg_update: RTC1 is started if it was not, CC[0] is written; a value
\* the counter has or is about to have may be missed ...
Swi0Compare ==
  /\ at = "compare"
  /\ at' = "check"
  /\ cc' = Later(latest, CompareTicks)
  /\ armed' \in IF Diff(cc', counter) \in {0, 1} THEN BOOLEAN ELSE {TRUE}
  /\ rtc' = TRUE
  /\ UNCHANGED <<counter, rtc1, swi0, ops, listVars, elapsed, localVars, lag,
                 ghostVars>>

\* Slip: the counter not read again.
NeverForced == FALSE

\* The counter has moved since it was read, so that the event may not come.
Forced == Diff(counter, pre) + OffsetMin > Diff(cc, pre)

\* ... and if the counter has moved meanwhile, the interrupt is forced, whether
\* the event will come or not.
Swi0Check ==
  /\ at = "check"
  /\ at' = "idle"
  /\ rtc1' = (rtc1 \/ Forced)
  /\ pre' = 0
  /\ UNCHANGED <<rtcVars, swi0, ops, listVars, elapsed, expired, update, restart,
                 lag, ghostVars>>

Handlers == Rtc1Handler \/ Rtc1Queue \/ Swi0Deletions \/ Swi0Insertions
            \/ Swi0Compare \/ Swi0Check

\* app_timer_init
Init ==
  /\ counter = 0 /\ cc = 0 /\ armed = TRUE /\ rtc = FALSE
  /\ rtc1 = FALSE /\ swi0 = FALSE
  /\ ops = [u \in ToSet(Users) |-> <<>>]
  /\ list = <<>> /\ delta = [t \in Timers |-> 0] /\ latest = 0
  /\ elapsed = None
  /\ at = "idle"
  /\ expired = 0 /\ update = FALSE /\ restart = <<>> /\ pre = 0
  /\ lag = 0
  /\ due = [t \in Timers |-> 0] /\ ran = {} /\ runs = [t \in Timers |-> 0]

Next == Tick \/ Handlers \/ LowResTimerStart \/ LowRequest \/ Edge

Spec == Init /\ [][Next]_vars

-------------------------------------------------------------------------------
Running == ToSet(list)

TypeOK ==
  /\ counter \in 0 .. Wrap - 1 /\ cc \in 0 .. Wrap - 1
  /\ latest \in 0 .. Wrap - 1 /\ pre \in 0 .. Wrap - 1
  /\ {armed, rtc, rtc1, swi0, update} \subseteq BOOLEAN
  /\ ops \in [ToSet(Users) ->
               Seq([type : {"start", "stop"}, timer : Timers,
                    ticks_at_start : 0 .. Wrap - 1])]
  /\ \A u \in DOMAIN ops : Len(ops[u]) <= OpQueueSize
  /\ list \in Seq(Timers) /\ IsInjective(list)
  /\ delta \in [Timers -> 0 .. Wrap - 1]
  /\ elapsed \in (0 .. Wrap - 1) \union {None}
  /\ at \in {"idle", "rtc1", "insertions", "compare", "check"}
  /\ lag \in 0 .. MaxLag
  /\ due \in [Timers -> 0 .. Wrap - 1]
  /\ ran \subseteq Timers /\ runs \in [Timers -> 0 .. 2]

\* The deltas of the list, added up from m_ticks_latest, give the time each
\* timer is due, whatever was inserted, removed and expired before.
DeltasAddUp ==
  \A k \in DOMAIN list : Later(latest, SumTo(list, delta, k)) = due[list[k]]

\* By how much a timer is late at the counter value now.
Late(now, t) == Diff(now, due[t])

\* app_timer.h:214, "a positive jitter of maximum 3 ticks": a running timer is
\* never more than that overdue, interrupt latency apart: no compare is lost.
NeverOverdue ==
  \A t \in Running : Late(counter, t) <= Jitter
                     \/ 2 * Late(counter, t) > Wrap

RunsInTime == \A t \in ran' \ ran : Late(counter, t) <= Jitter

\* timer_timeouts_check calls no handler before its time, nor late.
NeverEarly == [][RunsInTime]_vars

\* A queued request has SWI0 pending or on the way to it, although GPIOTE queues
\* its own while SWI0 empties the queues (app_timer.c:592).
NoRequestForgotten ==
  (\E u \in DOMAIN ops : ops[u] # <<>>) => swi0 \/ at = "insertions"

\* The repeated timer is never lost from the list, where NeverOverdue has it
\* expire: the tick goes on for ever, which TwizLink assumes.
TickNeverLost == rtc /\ at # "insertions" => BootTimer \in Running

\* app_timer.h:115, APP_TIMER_MODE_SINGLE_SHOT: "The timer will expire only once."
TimerExpiresOnce == \A t \in Timers : runs[t] <= 1
===============================================================================
