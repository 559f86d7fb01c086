----------------------------- MODULE HighResTimer -----------------------------
(***************************************************************************)
(* The microsecond clock of high_res_timer.c: TIMER1 counts microseconds,  *)
(* TIMER2 counts the turns of TIMER1 (a compare event, through the PPI),   *)
(* and get_time() puts the two together.  It reads them one after the      *)
(* other, so the clock runs, and any interrupt handler too, between the    *)
(* reads.  get_time() is only called by the thread (imu_update), hence by  *)
(* one caller at a time.                                                   *)
(***************************************************************************)
EXTENDS Naturals

CONSTANTS
  Period,      \* how many values a counter has, 2^16 in the hardware
  MaxCarries,  \* how often TIMER1 may turn over during one call
  NoTime       \* no call has returned yet

\* A call that lasts as long as the whole 32-bit clock (71 minutes) would see
\* TIMER2 come round to where it was.
ASSUME ClockAssumption ==
  /\ Period \in Nat /\ MaxCarries \in Nat
  /\ 1 < Period /\ MaxCarries < Period
  /\ NoTime \notin Nat \X Nat

VARIABLES
  timer1, timer2,   \* the two counters
  pc,               \* what get_time() does next
  th, tl,           \* its variables of these names
  result,           \* what the last call returned, as <<high, low>>
  shown,            \* history: every time the clock showed during the call
  carries           \* history: how often TIMER1 turned over during the call

clock == <<timer1, timer2>>
vars == <<timer1, timer2, pc, th, tl, result, shown, carries>>

Counter == 0 .. Period - 1

Init ==
  /\ timer1 = 0 /\ timer2 = 0
  /\ pc = "idle"
  /\ th = 0 /\ tl = 0
  /\ result = NoTime
  /\ shown = {}
  /\ carries = 0

-------------------------------------------------------------------------------
\* A 16-bit counter after one more event.
Next1(n) == IF n = Period - 1 THEN 0 ELSE n + 1

\* One microsecond passes.  What passes between two calls is not recorded.
Microsecond ==
  /\ timer1' = Next1(timer1)
  /\ timer2' = IF timer1' = 0 THEN Next1(timer2) ELSE timer2
  /\ IF pc = "idle"
     THEN UNCHANGED <<shown, carries>>
     ELSE /\ timer1' = 0 => carries < MaxCarries
          /\ carries' = IF timer1' = 0 THEN carries + 1 ELSE carries
          /\ shown' = shown \union {<<timer2', timer1'>>}
  /\ UNCHANGED <<pc, th, tl, result>>

Return(high, low) ==
  /\ result' = <<high, low>>
  /\ pc' = "idle"

\* get_time(): capture and read TIMER2 ...
ReadHigh ==
  /\ pc = "idle"
  /\ th' = timer2
  /\ pc' = "low"
  /\ shown' = {<<timer2, timer1>>}
  /\ carries' = 0
  /\ UNCHANGED <<clock, tl, result>>

\* ... then TIMER1 ...
ReadLow ==
  /\ pc = "low"
  /\ tl' = timer1
  /\ pc' = "high_again"
  /\ UNCHANGED <<clock, th, result, shown, carries>>

\* Slips: the second reading of TIMER2 not compared; taken without comparing.
NeverReread ==
  /\ pc = "high_again"
  /\ Return(th, tl)
  /\ UNCHANGED <<clock, th, tl, shown, carries>>

TakeTheNewHigh ==
  /\ pc = "high_again"
  /\ Return(timer2, tl)
  /\ UNCHANGED <<clock, th, tl, shown, carries>>

\* ... then TIMER2 again: the readings belong together if it has not moved ...
ReadHighAgain ==
  /\ pc = "high_again"
  /\ IF timer2 = th
     THEN Return(th, tl)
     ELSE pc' = "low_again" /\ UNCHANGED result
  /\ UNCHANGED <<clock, th, tl, shown, carries>>

\* ... else TIMER1 again, and the first reading of TIMER2 goes with it.
ReadLowAgain ==
  /\ pc = "low_again"
  /\ tl' = timer1
  /\ Return(th, timer1)
  /\ UNCHANGED <<clock, th, shown, carries>>

GetTime == ReadHigh \/ ReadLow \/ ReadHighAgain \/ ReadLowAgain

Next == Microsecond \/ GetTime

Spec == Init /\ [][Next]_vars

-------------------------------------------------------------------------------
\* The type invariant of the counters and of the locals of get_time().
TypeOK ==
  /\ timer1 \in Counter /\ timer2 \in Counter
  /\ pc \in {"idle", "low", "high_again", "low_again"}
  /\ th \in Counter /\ tl \in Counter
  /\ result \in (Counter \X Counter) \union {NoTime}
  /\ shown \subseteq Counter \X Counter
  /\ carries \in 0 .. MaxCarries

\* A counter k turns later, for k below Period.
Later(n, k) == IF n + k < Period THEN n + k ELSE n + k - Period

\* <<high, low>> is a time of this call, but for k of the turns TIMER1 made.
LateBy(k, high, low) == <<Later(high, k), low>> \in shown

AgreedReturn == pc = "high_again" /\ pc' = "idle" => result' \in shown'

\* When the two readings of TIMER2 in get_time() agree, what it returns without
\* rereading (high_res_timer.c:47,53) is a time the clock showed during the
\* call, however long an interrupt kept it waiting between the reads.
AgreementIsExact == [][AgreedReturn]_vars

\* get_time() never returns a time ahead of the clock, and is only behind it by
\* whole turns of TIMER1, no more than there were during the call.
BehindByWholeTurns ==
  pc = "idle" /\ result # NoTime =>
    \E k \in 0 .. carries : LateBy(k, result[1], result[2])

\* The inductive invariant: TIMER2 is ahead of th by the turns made since, and
\* so is every high half the clock has shown beside any low half (get_time,
\* high_res_timer.c:38-54).
ClockInv ==
  /\ TypeOK
  /\ pc # "idle" =>
       /\ timer2 = Later(th, carries)
       /\ <<timer2, timer1>> \in shown
  /\ pc = "high_again" => \E k \in 0 .. carries : LateBy(k, th, tl)
  /\ BehindByWholeTurns
===============================================================================
