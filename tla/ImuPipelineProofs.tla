-------------------------- MODULE ImuPipelineProofs ---------------------------
(***************************************************************************)
(* What the 40 ms tick can find of a sample main() is writing, whichever    *)
(* bursts failed, and what a receiver decodes of an angle it publishes,    *)
(* whatever the angles are and whatever a conversion out of range gives:   *)
(* the two invariants of ImuPipeline.                                      *)
(***************************************************************************)
EXTENDS ImuPipeline, TLAPS

Copying == {"copy1", "copy2", "copy3"}
Storing == {"q1", "q2", "q3", "q4"}

Ages == {0, 1, 2, Torn}

PipeType ==
    /\ pc \in {"new_data", "read", "check", "save", "mag", "filter"}
                \union Copying \union Storing
    /\ raw \in [Axes -> Ages] /\ data \in [Axes -> Ages] /\ accel \in [Axes -> Ages]
    /\ q \in [Parts -> {0, 1}]
    /\ bad \in BOOLEAN \X BOOLEAN

\* The axes imu_update has copied.
Copied == [check |-> 0, save |-> 0, copy1 |-> 0, copy2 |-> 1, copy3 |-> 2]
Count == IF pc \in DOMAIN Copied THEN Copied[pc] ELSE 3

\* The bytes read, the sample saved and the axes published are each of bursts in
\* order, and nothing read is older than what is still to be replaced.
OrderInv ==
    /\ \A j, k \in Axes : j < k => NotOlder(raw[j], raw[k])
    /\ \A j, k \in Axes : j < k => NotOlder(accel[j], accel[k])
    /\ \A j, k \in Axes : j <= k /\ k > Count => NotOlder(raw[j], accel[k])
    /\ \A k \in Axes : k <= Count => accel[k] = raw[k]
    /\ pc \notin {"check", "save"} => data = raw

\* An axis read is of the last burst, and one still to be replaced of the burst
\* before, unless that burst failed.
BurstInv ==
    /\ \A k \in Axes : raw[k] = 0 \/ bad[1]
    /\ \A k \in Axes : k > Count => accel[k] = 1 \/ bad[2]

\* The parts of q likewise, which no failure reaches.
PartsInv ==
    /\ pc = "q1" => q[1] = 1 /\ q[2] = 1 /\ q[3] = 1 /\ q[4] = 1
    /\ pc = "q2" => q[1] = 0 /\ q[2] = 1 /\ q[3] = 1 /\ q[4] = 1
    /\ pc = "q3" => q[1] = 0 /\ q[2] = 0 /\ q[3] = 1 /\ q[4] = 1
    /\ pc = "q4" => q[1] = 0 /\ q[2] = 0 /\ q[3] = 0 /\ q[4] = 1
    /\ pc \notin Storing => q[1] = 0 /\ q[2] = 0 /\ q[3] = 0 /\ q[4] = 0

PipeInv == PipeType /\ OrderInv /\ BurstInv /\ PartsInv

LEMMA TornIsNoAge == Torn # 0 /\ Torn # 1 /\ Torn # 2
  <1>1. Torn \notin Int
    BY ImuAssumption DEF ImuAssumption
  <1>2. QED
    BY <1>1

\* Growing older keeps the order, and nothing is newer than the last burst.
LEMMA AgedFacts ==
  ASSUME NEW a \in Ages, NEW b \in Ages
  PROVE  /\ Aged(a) \in Ages /\ (a = 0 => Aged(a) = 1)
         /\ NotOlder(0, a) /\ NotOlder(a, Torn) /\ NotOlder(Torn, a) /\ NotOlder(a, a)
         /\ NotOlder(0, Aged(a))
         /\ NotOlder(a, b) => NotOlder(Aged(a), Aged(b))
  <1>1. /\ a = 0 \/ a = 1 \/ a = 2 \/ a = Torn
        /\ b = 0 \/ b = 1 \/ b = 2 \/ b = Torn
    BY DEF Ages
  <1>2. Aged(0) = 1 /\ Aged(1) = 2 /\ Aged(2) = 2 /\ Aged(Torn) = Torn
    BY TornIsNoAge DEF Aged, Old
  <1>3. Aged(a) \in Ages /\ (a = 0 => Aged(a) = 1)
    BY <1>1, <1>2, TornIsNoAge DEF Ages
  <1>4. /\ NotOlder(0, a) /\ NotOlder(a, Torn) /\ NotOlder(Torn, a) /\ NotOlder(a, a)
        /\ NotOlder(0, Aged(a))
    BY <1>1, <1>2 DEF NotOlder
  <1>5. ASSUME NotOlder(a, b) PROVE NotOlder(Aged(a), Aged(b))
    <2>1. CASE a = Torn \/ b = Torn
      BY <1>2, <2>1 DEF NotOlder
    <2>2. CASE a \in 0 .. 2 /\ b \in 0 .. 2
      <3>1. a <= b
        BY <1>5, <2>2, TornIsNoAge DEF NotOlder
      <3>2. QED
        BY <1>2, <2>2, <3>1 DEF NotOlder
    <2>3. QED
      BY <1>1, <2>1, <2>2
  <1>6. QED
    BY <1>3, <1>4, <1>5

LEMMA CountFacts ==
  /\ Count \in 0 .. 3
  /\ pc \in {"check", "save", "copy1"} => Count = 0
  /\ pc = "copy2" => Count = 1
  /\ pc = "copy3" => Count = 2
  /\ pc \notin {"check", "save"} \union Copying => Count = 3
  BY DEF Count, Copied, Copying

LEMMA PipeInit == Init => PipeInv
  <1> SUFFICES ASSUME Init PROVE PipeInv
    OBVIOUS
  <1>1. PipeType
    BY DEF Init, PipeType, Axes, Parts, Ages
  <1>2. Count = 3
    BY DEF Init, Count, Copied
  <1>3. OrderInv /\ BurstInv
    BY <1>2 DEF Init, OrderInv, BurstInv, NotOlder, Axes
  <1>4. PartsInv
    BY DEF Init, PartsInv, Parts, Storing
  <1>5. QED
    BY <1>1, <1>3, <1>4 DEF PipeInv

\* A step that copies and stores nothing.
LEMMA PipeFrame ==
  ASSUME PipeInv, UNCHANGED <<raw, data, accel, q, bad>>,
         \/ /\ pc \in {"new_data", "read", "mag", "filter"}
            /\ pc' \in {"new_data", "read", "mag", "filter"}
         \/ pc = "check" /\ pc' = "save"
  PROVE  PipeInv'
  <1>1. Count' = Count
    BY DEF Count, Copied
  <1>2. PipeType'
    BY DEF PipeInv, PipeType
  <1>3. OrderInv' /\ BurstInv'
    BY <1>1 DEF PipeInv, OrderInv, BurstInv
  <1>4. PartsInv'
    BY DEF PipeInv, PartsInv, Storing
  <1>5. QED
    BY <1>2, <1>3, <1>4 DEF PipeInv

\* A burst makes every axis older that it does not read.
LEMMA ReadStep ==
  ASSUME PipeInv, mpu9150_read_raw_data
  PROVE  PipeInv'
  <1>1. PICK read \in 0 .. 3 : \E torn \in read .. 3 :
             raw' = Burst(read, torn) /\ bad' = <<read < 3, bad[1]>>
    BY DEF mpu9150_read_raw_data
  <1>2. PICK torn \in read .. 3 : raw' = Burst(read, torn) /\ bad' = <<read < 3, bad[1]>>
    BY <1>1
  <1>3. /\ pc = "read" /\ pc' = "check" /\ q' = q
        /\ data' = [k \in Axes |-> Aged(data[k])]
        /\ accel' = [k \in Axes |-> Aged(accel[k])]
    BY DEF mpu9150_read_raw_data
  <1>4. /\ raw \in [Axes -> Ages] /\ data \in [Axes -> Ages] /\ accel \in [Axes -> Ages]
        /\ bad \in BOOLEAN \X BOOLEAN
    BY DEF PipeInv, PipeType
  <1>5. Count = 3 /\ Count' = 0
    BY <1>3 DEF Count, Copied
  <1>6. \A k \in Axes : accel[k] = raw[k]
    BY <1>5 DEF PipeInv, OrderInv, Axes
  <1>7. \A k \in Axes : raw'[k] = IF k <= read THEN 0
                                  ELSE IF k <= torn THEN Torn ELSE Aged(raw[k])
    BY <1>2 DEF Burst
  <1>8. bad'[1] = (read < 3) /\ bad'[2] = bad[1] /\ bad' \in BOOLEAN \X BOOLEAN
    <2>1. bad[1] \in BOOLEAN /\ (read < 3) \in BOOLEAN
      BY <1>4
    <2>2. bad' = <<read < 3, bad[1]>>
      BY <1>2
    <2>3. QED
      BY <2>1, <2>2
  <1>9. PipeType'
    <2>1. raw' \in [Axes -> Ages]
      <3>1. \A k \in Axes : raw'[k] \in Ages
        BY <1>4, <1>7, AgedFacts DEF Ages
      <3>2. QED
        BY <1>2, <3>1 DEF Burst
    <2>2. data' \in [Axes -> Ages] /\ accel' \in [Axes -> Ages]
      BY <1>3, <1>4, AgedFacts
    <2>3. QED
      BY <1>3, <1>8, <2>1, <2>2 DEF PipeInv, PipeType
  <1>10. OrderInv'
    <2>1. ASSUME NEW j \in Axes, NEW k \in Axes, j < k
          PROVE  NotOlder(raw'[j], raw'[k]) /\ NotOlder(accel'[j], accel'[k])
      <3>1. NotOlder(raw[j], raw[k]) /\ NotOlder(accel[j], accel[k])
            /\ raw[j] \in Ages /\ raw[k] \in Ages /\ accel[j] \in Ages /\ accel[k] \in Ages
        BY <1>4, <2>1 DEF PipeInv, OrderInv
      <3>2. NotOlder(Aged(raw[j]), Aged(raw[k])) /\ NotOlder(Aged(accel[j]), Aged(accel[k]))
            /\ Aged(raw[k]) \in Ages /\ NotOlder(0, Aged(raw[k])) /\ NotOlder(Torn, Aged(raw[k]))
            /\ NotOlder(0, Torn) /\ NotOlder(Torn, Torn) /\ NotOlder(0, 0)
        BY <3>1, AgedFacts DEF NotOlder
      <3>3. QED
        BY <1>3, <1>7, <2>1, <3>2 DEF Axes
    <2>2. ASSUME NEW j \in Axes, NEW k \in Axes, j <= k
          PROVE  NotOlder(raw'[j], accel'[k])
      <3>1. NotOlder(raw[j], raw[k]) /\ raw[j] \in Ages /\ raw[k] \in Ages
        <4>1. CASE j < k
          BY <1>4, <4>1 DEF PipeInv, OrderInv
        <4>2. CASE j = k
          BY <1>4, <4>2, AgedFacts
        <4>3. QED
          BY <2>2, <4>1, <4>2 DEF Axes
      <3>2. accel'[k] = Aged(raw[k])
        BY <1>3, <1>6
      <3>3. NotOlder(Aged(raw[j]), Aged(raw[k])) /\ NotOlder(0, Aged(raw[k]))
            /\ NotOlder(Torn, Aged(raw[k]))
        BY <3>1, AgedFacts DEF NotOlder
      <3>4. QED
        BY <1>7, <3>2, <3>3
    <2>3. QED
      BY <1>3, <1>5, <2>1, <2>2 DEF OrderInv, Axes
  <1>11. BurstInv'
    <2>1. \A k \in Axes : raw'[k] = 0 \/ bad'[1]
      BY <1>7, <1>8 DEF Axes
    <2>2. \A k \in Axes : accel'[k] = 1 \/ bad'[2]
      <3>1. \A k \in Axes : accel[k] = 0 \/ bad[1]
        BY <1>6 DEF PipeInv, BurstInv
      <3>2. QED
        BY <1>3, <1>4, <1>8, <3>1, AgedFacts
    <2>3. QED
      BY <2>1, <2>2 DEF BurstInv
  <1>12. PartsInv'
    BY <1>3 DEF PipeInv, PartsInv, Storing
  <1>13. QED
    BY <1>9, <1>10, <1>11, <1>12 DEF PipeInv

LEMMA SaveStep ==
  ASSUME PipeInv, SaveValues
  PROVE  PipeInv'
  <1>1. /\ pc = "save" /\ pc' = "copy1" /\ data' = raw
        /\ UNCHANGED <<raw, accel, q, bad>>
    BY DEF SaveValues
  <1>2. Count' = Count
    BY <1>1 DEF Count, Copied
  <1>3. PipeType'
    BY <1>1 DEF PipeInv, PipeType, Copying
  <1>4. OrderInv' /\ BurstInv'
    BY <1>1, <1>2 DEF PipeInv, OrderInv, BurstInv
  <1>5. PartsInv'
    BY <1>1 DEF PipeInv, PartsInv, Storing
  <1>6. QED
    BY <1>3, <1>4, <1>5 DEF PipeInv

\* An axis copied from the sample becomes new.
LEMMA CopyStep ==
  ASSUME PipeInv, CopyAxis
  PROVE  PipeInv'
  <1>1. /\ raw \in [Axes -> Ages] /\ data = raw /\ accel \in [Axes -> Ages]
        /\ pc \in Copying /\ UNCHANGED <<raw, data, q, bad>>
    BY DEF PipeInv, PipeType, OrderInv, CopyAxis, CopyOf, Copying
  <1>2. PICK n \in Axes : /\ Count = n - 1 /\ Count' = n
                         /\ accel' = [accel EXCEPT ![n] = raw[n]]
                         /\ pc' \in {"copy2", "copy3", "mag"}
    <2>1. CASE pc = "copy1"
      <3>1. /\ pc' = "copy2" /\ accel' = [accel EXCEPT ![1] = data[1]]
            /\ Count = 0 /\ Count' = 1
        BY <2>1 DEF CopyAxis, CopyOf, NextCopy, Count, Copied
      <3>2. 1 \in Axes /\ Count = 1 - 1
        BY <3>1 DEF Axes
      <3>3. QED
        BY <1>1, <3>1, <3>2
    <2>2. CASE pc = "copy2"
      <3>1. /\ pc' = "copy3" /\ accel' = [accel EXCEPT ![2] = data[2]]
            /\ Count = 1 /\ Count' = 2
        BY <2>2 DEF CopyAxis, CopyOf, NextCopy, Count, Copied
      <3>2. 2 \in Axes /\ Count = 2 - 1
        BY <3>1 DEF Axes
      <3>3. QED
        BY <1>1, <3>1, <3>2
    <2>3. CASE pc = "copy3"
      <3>1. /\ pc' = "mag" /\ accel' = [accel EXCEPT ![3] = data[3]]
            /\ Count = 2 /\ Count' = 3
        BY <2>3 DEF CopyAxis, CopyOf, NextCopy, Count, Copied
      <3>2. 3 \in Axes /\ Count = 3 - 1
        BY <3>1 DEF Axes
      <3>3. QED
        BY <1>1, <3>1, <3>2
    <2>4. QED
      BY <1>1, <2>1, <2>2, <2>3 DEF Copying
  <1>3. \A k \in Axes : accel'[k] = IF k = n THEN raw[n] ELSE accel[k]
    BY <1>1, <1>2
  <1>4. PipeType'
    <2>1. raw[n] \in Ages
      BY <1>1
    <2>2. accel' \in [Axes -> Ages]
      BY <1>1, <1>2, <2>1
    <2>3. QED
      BY <1>1, <1>2, <2>2 DEF PipeInv, PipeType, Copying
  <1>5. OrderInv'
    <2>1. \A j, k \in Axes : j < k => NotOlder(raw[j], raw[k])
      BY DEF PipeInv, OrderInv
    <2>2. \A j, k \in Axes : j <= k /\ k > n - 1 => NotOlder(raw[j], accel[k])
      BY <1>2 DEF PipeInv, OrderInv
    <2>3. \A k \in Axes : k <= n - 1 => accel[k] = raw[k]
      BY <1>2 DEF PipeInv, OrderInv
    <2>4. \A j, k \in Axes : j < k => NotOlder(accel[j], accel[k])
      BY DEF PipeInv, OrderInv
    <2>5. \A k \in Axes : k <= n => accel'[k] = raw[k]
      BY <1>3, <2>3 DEF Axes
    <2>6. \A j, k \in Axes : j <= k /\ k > n => NotOlder(raw[j], accel'[k])
      BY <1>3, <2>2 DEF Axes
    <2>7. ASSUME NEW j \in Axes, NEW k \in Axes, j < k PROVE NotOlder(accel'[j], accel'[k])
      <3>1. CASE k <= n
        BY <2>1, <2>5, <2>7, <3>1 DEF Axes
      <3>2. CASE k > n /\ j <= n
        BY <2>5, <2>6, <2>7, <3>2 DEF Axes
      <3>3. CASE j > n
        BY <1>3, <2>4, <2>7, <3>3 DEF Axes
      <3>4. QED
        BY <3>1, <3>2, <3>3 DEF Axes
    <2>8. QED
      BY <1>1, <1>2, <2>1, <2>5, <2>6, <2>7 DEF OrderInv
  <1>6. BurstInv'
    <2>1. \A k \in Axes : raw[k] = 0 \/ bad[1]
      BY DEF PipeInv, BurstInv
    <2>2. \A k \in Axes : k > n - 1 => accel[k] = 1 \/ bad[2]
      BY <1>2 DEF PipeInv, BurstInv
    <2>3. \A k \in Axes : k > n => accel'[k] = 1 \/ bad[2]
      BY <1>3, <2>2 DEF Axes
    <2>4. QED
      BY <1>1, <1>2, <2>1, <2>3 DEF BurstInv
  <1>7. PartsInv'
    BY <1>1, <1>2 DEF PipeInv, PartsInv, Storing, Copying
  <1>8. QED
    BY <1>4, <1>5, <1>6, <1>7 DEF PipeInv

\* A step of the filter, away from the sample.
LEMMA FilterFrame ==
  ASSUME PipeInv, UNCHANGED <<raw, data, accel, bad>>,
         pc \in {"filter"} \union Storing, pc' \in {"new_data"} \union Storing,
         q' \in [Parts -> {0, 1}], PartsInv'
  PROVE  PipeInv'
  <1>1. Count' = 3 /\ Count = 3
    BY DEF Count, Copied, Storing
  <1>2. PipeType'
    BY DEF PipeInv, PipeType, Storing
  <1>3. OrderInv' /\ BurstInv'
    BY <1>1 DEF PipeInv, OrderInv, BurstInv, Storing
  <1>4. QED
    BY <1>2, <1>3 DEF PipeInv

\* The filter makes every part older, or leaves q alone.
LEMMA FilterStep ==
  ASSUME PipeInv, madgwick_quaternion_update
  PROVE  PipeInv'
  <1>0. UNCHANGED <<raw, data, accel, bad>> /\ pc = "filter"
    BY DEF madgwick_quaternion_update
  <1>1. CASE pc' = "new_data" /\ UNCHANGED q
    BY <1>0, <1>1, PipeFrame
  <1>2. CASE pc' = "q1" /\ q' = [k \in Parts |-> Aged(q[k])]
    <2>1. q[1] = 0 /\ q[2] = 0 /\ q[3] = 0 /\ q[4] = 0
      BY <1>0 DEF PipeInv, PartsInv, Storing
    <2>2. Aged(0) = 1
      BY TornIsNoAge DEF Aged, Old
    <2>3. q'[1] = 1 /\ q'[2] = 1 /\ q'[3] = 1 /\ q'[4] = 1
      BY <1>2, <2>1, <2>2 DEF Parts
    <2>4. q' \in [Parts -> {0, 1}] /\ PartsInv'
      BY <1>2, <2>3 DEF Parts, PartsInv, Storing
    <2>5. QED
      BY <1>0, <1>2, <2>4, FilterFrame DEF Storing
  <1>3. QED
    BY <1>1, <1>2 DEF madgwick_quaternion_update

\* A part stored is new.
LEMMA StoreStep ==
  ASSUME PipeInv, StorePart
  PROVE  PipeInv'
  <1>1. /\ UNCHANGED <<raw, data, accel, bad>> /\ q \in [Parts -> {0, 1}] /\ PartsInv
        /\ pc \in Storing
    BY DEF StorePart, PartOf, PipeInv, PipeType, Storing
  <1>2. /\ pc' \in {"new_data"} \union Storing /\ q' \in [Parts -> {0, 1}]
        /\ PartsInv'
    <2>1. CASE pc = "q1"
      BY <1>1, <2>1 DEF StorePart, PartOf, NextPart, PartsInv, Parts, Storing
    <2>2. CASE pc = "q2"
      BY <1>1, <2>2 DEF StorePart, PartOf, NextPart, PartsInv, Parts, Storing
    <2>3. CASE pc = "q3"
      BY <1>1, <2>3 DEF StorePart, PartOf, NextPart, PartsInv, Parts, Storing
    <2>4. CASE pc = "q4"
      BY <1>1, <2>4 DEF StorePart, PartOf, NextPart, PartsInv, Parts, Storing
    <2>5. QED
      BY <1>1, <2>1, <2>2, <2>3, <2>4 DEF Storing
  <1>3. QED
    BY <1>1, <1>2, FilterFrame

LEMMA PipeNext == PipeInv /\ [Next]_vars => PipeInv'
  <1> SUFFICES ASSUME PipeInv, [Next]_vars PROVE PipeInv'
    OBVIOUS
  <1>1. CASE UNCHANGED <<pc, raw, data, accel, q, bad>>
    BY <1>1 DEF PipeInv, PipeType, OrderInv, BurstInv, PartsInv, Count
  <1>2. CASE mpu9150_new_data
    BY <1>2, PipeFrame DEF mpu9150_new_data
  <1>3. CASE ak8975a_read_data \/ motion_detection_check
    BY <1>3, PipeFrame DEF ak8975a_read_data, motion_detection_check
  <1>4. CASE madgwick_quaternion_update
    BY <1>4, FilterStep
  <1>5. CASE mpu9150_read_raw_data \/ SaveValues
    BY <1>5, ReadStep, SaveStep
  <1>6. CASE CopyAxis
    BY <1>6, CopyStep
  <1>7. CASE StorePart
    BY <1>7, StoreStep
  <1>8. QED
    BY <1>1, <1>2, <1>3, <1>4, <1>5, <1>6, <1>7
       DEF Next, imu_update, NewSample, Tick, vars

\* Whenever the tick comes, what it finds is of at most two samples, newer axes
\* first, and of older or of no samples only after a failed burst (imu.c:22,
\* mpu9150.c:231).
THEOREM TickFindsTwo == Spec => []TickMixesTwo
  <1>1. ASSUME PipeInv PROVE TickMixesTwo
    <2>1. /\ DOMAIN accel = Axes /\ DOMAIN q = Parts /\ Count \in 0 .. 3
          /\ pc \in {"new_data", "read", "check", "save", "mag", "filter"}
                      \union Copying \union Storing
      BY <1>1, CountFacts DEF PipeInv, PipeType
    <2>2. \A k \in Parts : q[k] \in {0, 1}
      BY <1>1 DEF PipeInv, PipeType
    <2>3. Ordered(accel)
      BY <1>1, <2>1 DEF PipeInv, OrderInv, Ordered
    <2>4. Ordered(q)
      BY <1>1, <2>1, <2>2 DEF PipeInv, PartsInv, Ordered, NotOlder, Parts, Storing
    <2>5. ASSUME NEW k \in Axes, accel[k] \notin {0, 1} PROVE bad[1] \/ bad[2]
      <3>1. CASE k <= Count
        BY <1>1, <2>5, <3>1 DEF PipeInv, OrderInv, BurstInv
      <3>2. CASE k > Count
        BY <1>1, <2>5, <3>2 DEF PipeInv, BurstInv
      <3>3. QED
        BY <2>1, <3>1, <3>2 DEF Axes
    <2>6. QED
      BY <2>2, <2>3, <2>4, <2>5 DEF TickMixesTwo
  <1>2. QED
    BY <1>1, PipeInit, PipeNext, PTL DEF Spec

-----------------------------------------------------------------------------
(* The angles: format_euler there and back.                                *)

LEMMA SwapFacts ==
  ASSUME NEW b \in Nat, b < 65536
  PROVE  byte_swap(byte_swap(b)) = b
  <1> DEFINE hi == b \div 256
             lo == b % 256
  <1>1. hi \in Nat /\ hi < 256 /\ lo \in Nat /\ lo < 256 /\ b = hi * 256 + lo
    OBVIOUS
  <1>2. byte_swap(b) = lo * 256 + hi
    BY DEF byte_swap
  <1> HIDE DEF hi, lo
  <1>3. (lo * 256 + hi) % 256 = hi /\ (lo * 256 + hi) \div 256 = lo
    BY <1>1
  <1>4. byte_swap(lo * 256 + hi) = hi * 256 + lo
    BY <1>3 DEF byte_swap
  <1>5. QED
    BY <1>1, <1>2, <1>4

\* The conversion to int16_t and what the receiver makes of it, in range.
LEMMA NormFacts ==
  ASSUME NEW t \in Int, 0 <= t + 32768, t <= 32767, NEW norm \in Int16(t)
  PROVE  norm \in Nat /\ norm < 65536 /\ Signed16(norm) = t
  <1>1. norm = t % 65536
    BY DEF Int16
  <1>2. CASE t >= 0
    BY <1>1, <1>2 DEF Signed16
  <1>3. CASE t < 0
    <2>1. t % 65536 = t + 65536
      BY <1>3
    <2>2. QED
      BY <1>1, <1>3, <2>1 DEF Signed16
  <1>4. QED
    BY <1>2, <1>3

LEMMA DivFacts ==
  ASSUME NEW n \in Nat
  PROVE  /\ n \div 36000 \in Nat /\ 36000 * (n \div 36000) <= n
         /\ n < 36000 * (n \div 36000) + 36000
         /\ n \div 65536 \in Nat /\ 65536 * (n \div 65536) <= n
         /\ n < 65536 * (n \div 65536) + 65536
  OBVIOUS

\* A turn of 36000 is scaled to one of 65536 and back, and each time the fraction is
\* dropped.
LEMMA RoundTrip ==
  ASSUME NEW v \in Int, 0 <= v + 18000, v < 18000, NEW euler \in format_euler(v)
  PROVE  v - Heading(euler) \in -1 .. 1
  <1> DEFINE t == Truncated(v * 65536, 36000)
             h == Truncated(t * 36000, 65536)
  <1>1. PICK norm \in Int16(t) : euler = byte_swap(norm)
    BY DEF format_euler
  <1>2. ASSUME t \in Int, 0 <= t + 32768, t <= 32767 PROVE Heading(euler) = h
    <2>1. norm \in Nat /\ norm < 65536 /\ Signed16(norm) = t
      BY <1>1, <1>2, NormFacts
    <2>2. byte_swap(euler) = norm
      BY <1>1, <2>1, SwapFacts
    <2>3. QED
      BY <2>1, <2>2 DEF Heading
  <1>3. CASE v >= 0
    <2>1. t = (v * 65536) \div 36000 /\ v * 65536 \in Nat
      BY <1>3 DEF Truncated
    <2> HIDE DEF t
    <2>2. t \in Nat /\ 36000 * t <= v * 65536 /\ v * 65536 < 36000 * t + 36000
      BY <2>1, DivFacts
    <2>3. t <= 32767
      BY <2>2
    <2>4. h = (t * 36000) \div 65536 /\ t * 36000 \in Nat
      BY <2>2 DEF Truncated
    <2>5. Heading(euler) = h
      BY <1>2, <2>2, <2>3
    <2> HIDE DEF h
    <2>6. h \in Nat /\ 65536 * h <= t * 36000 /\ t * 36000 < 65536 * h + 65536
      BY <2>4, DivFacts
    <2>7. v - h \in {0, 1}
      BY <2>2, <2>6
    <2>8. QED
      BY <2>5, <2>7
  <1>4. CASE v < 0
    <2> DEFINE m == ((-v) * 65536) \div 36000
               g == (m * 36000) \div 65536
    <2>1. t = -m /\ (-v) * 65536 \in Nat
      BY <1>4 DEF Truncated
    <2> HIDE DEF m, t
    <2>2. m \in Nat /\ 36000 * m <= (-v) * 65536 /\ (-v) * 65536 < 36000 * m + 36000
      BY <2>1, DivFacts DEF m
    <2>3. m <= 32768 /\ t \in Int /\ 0 <= t + 32768 /\ t <= 32767
      BY <2>1, <2>2
    <2>4. Heading(euler) = h
      BY <1>2, <2>3
    <2>5. h = -g /\ m * 36000 \in Nat
      BY <2>1, <2>2 DEF Truncated
    <2> HIDE DEF h
    <2>6. g \in Nat /\ 65536 * g <= m * 36000 /\ m * 36000 < 65536 * g + 65536
      BY <2>5, DivFacts
    <2> HIDE DEF g
    <2>7. (v - h = 0 \/ v - h + 1 = 0) /\ v - h \in Int
      BY <2>2, <2>5, <2>6
    <2>8. QED
      BY <2>4, <2>7
  <1>5. QED
    BY <1>3, <1>4

LEMMA AnglesAreIntegers ==
  ASSUME NEW h \in Headings
  PROVE  h \in Int
  BY ImuAssumption DEF ImuAssumption

\* imu.c:129: an angle from -180 up to 180 degrees survives the two conversions and
\* the swap of its bytes to a hundredth of a degree, whatever the others become.
THEOREM HeadingSurvives == Spec => []HeadingDecodes
  <1>1. Init => HeadingDecodes
    <2>1. byte_swap(0) = 0 /\ Signed16(0) = 0 /\ Truncated(0, 65536) = 0
      BY DEF byte_swap, Signed16, Truncated
    <2>2. QED
      BY <2>1 DEF Init, HeadingDecodes, Heading
  <1>2. HeadingDecodes /\ [Next]_vars => HeadingDecodes'
    <2> SUFFICES ASSUME HeadingDecodes, [Next]_vars PROVE HeadingDecodes'
      OBVIOUS
    <2>1. CASE UNCHANGED sent
      BY <2>1 DEF HeadingDecodes
    <2>2. CASE Tick /\ sent' # sent
      <3>1. PICK h \in Headings : \E val \in {h, h - Declination} :
              \E euler \in format_euler(val) : sent' = [val |-> val, euler |-> euler]
        BY <2>2 DEF Tick
      <3>2. PICK val \in {h, h - Declination} :
              \E euler \in format_euler(val) : sent' = [val |-> val, euler |-> euler]
        BY <3>1
      <3>3. PICK euler \in format_euler(val) : sent' = [val |-> val, euler |-> euler]
        BY <3>2
      <3>4. val \in Int
        <4>1. h \in Int
          BY AnglesAreIntegers
        <4>2. QED
          BY <4>1 DEF Declination
      <3>5. sent'.val = val /\ sent'.euler = euler
        BY <3>3
      <3>6. ASSUME -18000 <= val, val < 18000 PROVE val - Heading(euler) \in -1 .. 1
        <4>1. 0 <= val + 18000
          BY <3>4, <3>6
        <4>2. QED
          BY <3>4, <3>6, <4>1, RoundTrip
      <3>7. QED
        BY <3>5, <3>6 DEF HeadingDecodes
    <2>3. QED
      BY <2>1, <2>2
         DEF Next, imu_update, NewSample, mpu9150_new_data, mpu9150_read_raw_data,
             motion_detection_check, SaveValues, CopyAxis, ak8975a_read_data,
             madgwick_quaternion_update, StorePart, vars
  <1>3. QED
    BY <1>1, <1>2, PTL DEF Spec
=============================================================================
