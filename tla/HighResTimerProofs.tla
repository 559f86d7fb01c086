-------------------------- MODULE HighResTimerProofs --------------------------
(***************************************************************************)
(* What get_time() returns, for counters of any width and interrupts of    *)
(* any length up to one turn of the whole clock.                           *)
(***************************************************************************)
EXTENDS HighResTimer, TLAPS

USE ClockAssumption

\* Turns add up: one more turn is the next value of the counter.
LEMMA OneTurnLater ==
  ASSUME NEW n \in Counter, NEW k \in 0 .. MaxCarries, k < MaxCarries
  PROVE  Next1(Later(n, k)) = Later(n, k + 1)
  BY DEF Counter, Next1, Later

\* No turns leave a counter as it is, and fewer than Period turns move it.
LEMMA OnlyNoTurnStays ==
  ASSUME NEW n \in Counter, NEW k \in 0 .. MaxCarries
  PROVE  Later(n, k) \in Counter /\ (Later(n, k) = n <=> k = 0)
  BY DEF Counter, Later

\* The clock starts in the invariant.
LEMMA InitClock == Init => ClockInv
  BY DEF Init, ClockInv, TypeOK, Counter, BehindByWholeTurns

\* A microsecond keeps it: a turn is counted in carries and shows in TIMER2, and
\* what has been shown stays shown.
LEMMA MicrosecondKeeps == ClockInv /\ Microsecond => ClockInv'
  <1> SUFFICES ASSUME ClockInv, Microsecond PROVE ClockInv'
    OBVIOUS
  <1>1. /\ timer1 \in Counter /\ timer2 \in Counter
        /\ timer1' \in Counter /\ timer2' \in Counter
    BY DEF ClockInv, TypeOK, Microsecond, Next1, Counter
  <1>2. /\ shown \subseteq shown' /\ shown' \subseteq Counter \X Counter
        /\ carries' \in 0 .. MaxCarries /\ carries <= carries'
    BY <1>1 DEF ClockInv, TypeOK, Microsecond
  <1>3. TypeOK'
    BY <1>1, <1>2 DEF ClockInv, TypeOK, Microsecond
  <1>4. ASSUME pc' # "idle"
        PROVE  timer2' = Later(th', carries') /\ <<timer2', timer1'>> \in shown'
    <2>1. CASE timer1' = 0
      <3>1. carries < MaxCarries /\ carries' = carries + 1
        BY <1>4, <2>1 DEF Microsecond
      <3>2. timer2' = Next1(Later(th, carries))
        BY <1>4, <2>1 DEF ClockInv, Microsecond
      <3> QED
        BY <1>4, <3>1, <3>2, OneTurnLater DEF ClockInv, TypeOK, Microsecond
    <2>2. CASE timer1' # 0
      BY <1>4, <2>2 DEF ClockInv, Microsecond
    <2> QED
      BY <2>1, <2>2
  <1>5. ASSUME pc' = "high_again"
        PROVE  \E k \in 0 .. carries' : LateBy(k, th, tl)'
    <2>1. PICK k \in 0 .. carries : LateBy(k, th, tl)
      BY <1>5 DEF ClockInv, Microsecond
    <2>2. k \in 0 .. carries' /\ LateBy(k, th, tl)'
      BY <1>2, <2>1 DEF LateBy, Microsecond, ClockInv, TypeOK
    <2> QED
      BY <2>2
  <1>6. BehindByWholeTurns'
    <2> SUFFICES ASSUME pc' = "idle", result' # NoTime
                 PROVE  \E k \in 0 .. carries' : LateBy(k, result[1], result[2])'
      BY DEF BehindByWholeTurns
    <2> QED
      BY DEF ClockInv, BehindByWholeTurns, Microsecond, LateBy
  <1> QED
    BY <1>3, <1>4, <1>5, <1>6 DEF ClockInv, Microsecond

\* Every step of get_time() keeps it.
LEMMA GetTimeKeeps == ClockInv /\ GetTime => ClockInv'
  <1> SUFFICES ASSUME ClockInv, GetTime PROVE ClockInv'
    OBVIOUS
  <1>1. CASE ReadHigh
    <2>1. timer2 = Later(timer2, 0)
      BY OnlyNoTurnStays DEF ClockInv, TypeOK
    <2> QED
      BY <1>1, <2>1 DEF ReadHigh, clock, ClockInv, TypeOK, BehindByWholeTurns
  <1>2. CASE ReadLow
    <2>1. carries \in 0 .. carries /\ LateBy(carries, th, timer1)
      BY <1>2 DEF ReadLow, ClockInv, TypeOK, LateBy
    <2> QED
      BY <1>2, <2>1
      DEF ReadLow, clock, ClockInv, TypeOK, BehindByWholeTurns, LateBy
  <1>3. CASE ReadHighAgain /\ timer2 = th
    BY <1>3
    DEF ReadHighAgain, Return, clock, ClockInv, TypeOK, BehindByWholeTurns, LateBy
  <1>4. CASE ReadHighAgain /\ timer2 # th
    BY <1>4
    DEF ReadHighAgain, clock, ClockInv, TypeOK, BehindByWholeTurns, LateBy
  <1>5. CASE ReadLowAgain
    <2>1. carries \in 0 .. carries /\ LateBy(carries, th, timer1)
      BY <1>5 DEF ReadLowAgain, ClockInv, TypeOK, LateBy
    <2> QED
      BY <1>5, <2>1
      DEF ReadLowAgain, Return, clock, ClockInv, TypeOK, BehindByWholeTurns, LateBy
  <1> QED
    BY <1>1, <1>2, <1>3, <1>4, <1>5 DEF GetTime

\* ClockInv holds in every state: what the two counters show is tied to th by the
\* turns made since get_time() read it (high_res_timer.c:38-54).
THEOREM ClockInductive == Spec => []ClockInv
  <1>1. ClockInv /\ [Next]_vars => ClockInv'
    <2> SUFFICES ASSUME ClockInv, [Next]_vars PROVE ClockInv'
      OBVIOUS
    <2>1. CASE UNCHANGED vars
      BY <2>1 DEF vars, clock, ClockInv, TypeOK, BehindByWholeTurns, LateBy
    <2> QED
      BY <2>1, MicrosecondKeeps, GetTimeKeeps DEF Next
  <1> QED
    BY InitClock, <1>1, PTL DEF Spec

\* get_time() is never ahead of the clock, and only whole turns behind it.
THEOREM ClockBehind == Spec => []BehindByWholeTurns
  <1>1. ClockInv => BehindByWholeTurns
    BY DEF ClockInv
  <1> QED
    BY <1>1, ClockInductive, PTL

\* When the two readings of TIMER2 agree, the time returned is exact: fewer turns
\* than Period have gone by, so agreement means none (high_res_timer.c:47).
THEOREM AgreementExact == Spec => AgreementIsExact
  <1>1. ClockInv /\ [Next]_vars => [AgreedReturn]_vars
    <2> SUFFICES ASSUME ClockInv, Next, pc = "high_again", pc' = "idle"
                 PROVE  result' \in shown'
      BY DEF AgreedReturn
    <2>1. ReadHighAgain
      BY DEF Next, Microsecond, GetTime, ReadHigh, ReadLow, ReadLowAgain
    <2>2. timer2 = th /\ result' = <<th, tl>> /\ shown' = shown
      BY <2>1 DEF ReadHighAgain, Return
    <2>3. carries = 0
      BY <2>2, OnlyNoTurnStays DEF ClockInv, TypeOK
    <2>4. <<Later(th, 0), tl>> \in shown
      BY <2>3 DEF ClockInv, LateBy
    <2>5. Later(th, 0) = th
      BY OnlyNoTurnStays DEF ClockInv, TypeOK
    <2> QED
      BY <2>2, <2>4, <2>5
  <1> QED
    BY ClockInductive, <1>1, PTL DEF Spec, AgreementIsExact
===============================================================================
