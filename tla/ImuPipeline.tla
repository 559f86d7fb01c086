----------------------------- MODULE ImuPipeline -----------------------------
(***************************************************************************)
(* From the sensors to the 40 ms tick: imu_update, run by main(), reads a  *)
(* sample over I2C, copies it to ax, ay, az one after the other, and lets  *)
(* the filter store the quaternion q, one component after the other; the   *)
(* timer interrupt reads the motion flag, ax, ay, az and q in between      *)
(* (get_imu_data).  Its critical region keeps main() out, not a sample     *)
(* main() has half written: imu.c:22, "XXX FIXME : need a mutex !".        *)
(*                                                                         *)
(* A value is the age of what it was computed from: 0 for the last burst   *)
(* read (the last update, for q), 1 for the one before, Old for more;      *)
(* Torn is what is of no burst: half an axis, or other registers.  Angles  *)
(* are hundredths of a degree.  The numbers of the filter are left out.    *)
(***************************************************************************)
EXTENDS Integers, Sequences

CONSTANTS
    Headings,    \* the angles atan2 may give, in hundredths of a degree
    Junk,        \* what a conversion of too large a float to 16 bits may give
    Torn

Old == 2
Age == 0..Old

ASSUME ImuAssumption ==
    /\ \A h \in Headings : h \in Int /\ -18000 <= h /\ h <= 18000
    /\ Torn \notin Int

ASSUME JunkAssumption == Junk # {} /\ Junk \subseteq 0..65535

VARIABLES
    pc,                \* main(): where imu_update stands
    fresh,             \* the sensor has a sample that was not read
    raw,               \* the static bytes of the burst, by axis
    data,              \* the three axes computed from them, saved
    accel,             \* ax, ay, az
    q,                 \* its four components
    motion_detected,
    bad,               \* whether the last burst failed, and the one before it
    sent               \* an angle last published, and its 16 bits

vars == <<pc, fresh, raw, data, accel, q, motion_detected, bad, sent>>

Axes == 1..3
Parts == 1..4

-----------------------------------------------------------------------------
(* main(): imu_update.                                                     *)

NewSample ==
    /\ ~fresh
    /\ fresh' = TRUE
    /\ UNCHANGED <<pc, raw, data, accel, q, motion_detected, bad, sent>>

\* i2c_read_byte: the bit of INT_STATUS, which reading clears, or, after a
\* failed transfer, of a byte nobody wrote.
mpu9150_new_data ==
    /\ pc = "new_data"
    /\ \/ /\ pc' = IF fresh THEN "read" ELSE "filter"
          /\ fresh' = FALSE
       \/ /\ pc' \in {"read", "filter"}
          /\ UNCHANGED fresh
    /\ UNCHANGED <<raw, data, accel, q, motion_detected, bad, sent>>

\* One more burst has been read.
Aged(age) == IF age = Torn THEN Torn ELSE IF age < Old THEN age + 1 ELSE Old

\* The transfer reads so many axes whole; when it fails, some more are torn,
\* and the bytes of the others are still those of earlier bursts.
Burst(read, torn) ==
    [k \in Axes |-> IF k <= read THEN 0 ELSE IF k <= torn THEN Torn ELSE Aged(raw[k])]

mpu9150_read_raw_data ==
    /\ pc = "read"
    /\ \E read \in 0..3 : \E torn \in read..3 :
          /\ raw' = Burst(read, torn)
          /\ bad' = <<read < 3, bad[1]>>
    /\ data' = [k \in Axes |-> Aged(data[k])]
    /\ accel' = [k \in Axes |-> Aged(accel[k])]
    /\ pc' = "check"
    /\ UNCHANGED <<fresh, q, motion_detected, sent>>

\* The new sample against the one saved before it.
motion_detection_check ==
    /\ pc = "check"
    /\ motion_detected' \in BOOLEAN
    /\ pc' = "save"
    /\ UNCHANGED <<fresh, raw, data, accel, q, bad, sent>>

SaveValues ==
    /\ pc = "save"
    /\ data' = raw
    /\ pc' = "copy1"
    /\ UNCHANGED <<fresh, raw, accel, q, motion_detected, bad, sent>>

\* az is forgotten.
NextCopyShort(p) == IF p = "copy1" THEN "copy2" ELSE "mag"
NextCopy(p) == CASE p = "copy1" -> "copy2" [] p = "copy2" -> "copy3" [] OTHER -> "mag"

CopyOf == [copy1 |-> 1, copy2 |-> 2, copy3 |-> 3]

CopyAxis ==
    /\ pc \in DOMAIN CopyOf
    /\ accel' = [accel EXCEPT ![CopyOf[pc]] = data[CopyOf[pc]]]
    /\ pc' = NextCopy(pc)
    /\ UNCHANGED <<fresh, raw, data, q, motion_detected, bad, sent>>

\* ak8975a_read_raw_data goes round until the magnetometer has a measure
\* without overflow.
ak8975a_read_data ==
    /\ pc = "mag"
    /\ pc' = "filter"
    /\ UNCHANGED <<fresh, raw, data, accel, q, motion_detected, bad, sent>>

\* A vector of length nought leaves q as it was; else its parts are stored.
madgwick_quaternion_update ==
    /\ pc = "filter"
    /\ \/ pc' = "new_data" /\ UNCHANGED q
       \/ pc' = "q1" /\ q' = [k \in Parts |-> Aged(q[k])]
    /\ UNCHANGED <<fresh, raw, data, accel, motion_detected, bad, sent>>

NextPart(p) ==
    CASE p = "q1" -> "q2" [] p = "q2" -> "q3" [] p = "q3" -> "q4" [] OTHER -> "new_data"

PartOf == [q1 |-> 1, q2 |-> 2, q3 |-> 3, q4 |-> 4]

StorePart ==
    /\ pc \in DOMAIN PartOf
    /\ q' = [q EXCEPT ![PartOf[pc]] = 0]
    /\ pc' = NextPart(pc)
    /\ UNCHANGED <<fresh, raw, data, accel, motion_detected, bad, sent>>

imu_update ==
    \/ mpu9150_new_data
    \/ mpu9150_read_raw_data \/ motion_detection_check \/ SaveValues \/ CopyAxis
    \/ ak8975a_read_data \/ madgwick_quaternion_update \/ StorePart

-----------------------------------------------------------------------------
(* The tick: imu_timer_handler and get_imu_data.                           *)

Declination == 411

\* A C conversion drops the fraction.
Truncated(n, d) == IF n < 0 THEN -((-n) \div d) ELSE n \div d

\* The conversion to int16_t is undefined when the value has no place there.
Int16(n) == IF -32768 <= n /\ n <= 32767 THEN {n % 65536} ELSE Junk

byte_swap(val) == (val % 256) * 256 + val \div 256

\* Scaled for a circle of 2^15.
format_euler_half(val) == {byte_swap(norm) : norm \in Int16(Truncated(val * 32768, 36000))}

\* A whole turn is 2^16.
format_euler(val) == {byte_swap(norm) : norm \in Int16(Truncated(val * 65536, 36000))}

\* mpu9150_motion_detected: the flag or else the count of skipped ticks.  The
\* tick that publishes takes accel and q as they are, and turns each angle into
\* 16 bits: the roll as atan2 gives it, the yaw with the declination.
Tick ==
    /\ \E timed_out \in BOOLEAN, h \in Headings :
          IF motion_detected \/ timed_out
          THEN \E val \in {h, h - Declination} :
                  \E euler \in format_euler(val) : sent' = [val |-> val, euler |-> euler]
          ELSE UNCHANGED sent
    /\ UNCHANGED <<pc, fresh, raw, data, accel, q, motion_detected, bad>>

Init ==
    /\ pc = "new_data" /\ fresh = FALSE
    /\ raw = [k \in Axes |-> 0] /\ data = [k \in Axes |-> 0]
    /\ accel = [k \in Axes |-> 0] /\ q = [k \in Parts |-> 0]
    /\ motion_detected \in BOOLEAN
    /\ bad = <<FALSE, FALSE>>
    /\ sent = [val |-> 0, euler |-> 0]

Next == NewSample \/ imu_update \/ Tick

Spec == Init /\ [][Next]_vars

-----------------------------------------------------------------------------
NotOlder(a, b) == Torn \in {a, b} \/ a <= b

Ordered(ages) == \A j, k \in DOMAIN ages : j < k => NotOlder(ages[j], ages[k])

\* Without the mutex of imu.c:22 the acceleration a tick finds mixes the axes of
\* two samples, the newer ones first, but never of more, nor of older ones; the
\* quaternion likewise.  Older axes, and axes of no sample, are found only when
\* one of the last two bursts failed, which nobody checks (mpu9150.c:231); even
\* then no axis is newer than one before it.
TickMixesTwo ==
    /\ Ordered(accel) /\ Ordered(q)
    /\ \A k \in Parts : q[k] \in {0, 1}
    /\ (\E k \in Axes : accel[k] \notin {0, 1}) => bad[1] \/ bad[2]

Signed16(n) == IF n >= 32768 THEN n - 65536 ELSE n

\* What a receiver reads, in hundredths of a degree.
Heading(euler) == Truncated(Signed16(byte_swap(euler)) * 36000, 65536)

\* The angle a receiver decodes is the published one to a hundredth of a degree,
\* its sign included, from -180 up to but not at 180 degrees (imu.c:129).  Outside
\* nothing is promised, although the declination takes a heading below -180, and
\* a roll may be 180 (imu.c:98), against imu.c:128, "keep precision and sign".
HeadingDecodes ==
    -18000 <= sent.val /\ sent.val < 18000 => sent.val - Heading(sent.euler) \in -1..1
=============================================================================
