---------------------------- MODULE AppTimerProofs ----------------------------
(***************************************************************************)
(* Proofs about app_timer.c, for any number of timers, any length of the   *)
(* queues and any width of the counter that TimerAssumption allows.        *)
(*                                                                         *)
(* The operators first: the sums of a list of deltas when a timer is       *)
(* inserted, removed or taken from the front, then the loops of the SWI0   *)
(* handler over the operations, each by induction over its turns.  The     *)
(* invariant comes last.                                                   *)
(***************************************************************************)
EXTENDS AppTimer, SequenceTheorems, FiniteSetTheorems, WellFoundedInduction, TLAPS

-------------------------------------------------------------------------------
(***************************************************************************)
(* Loops and sums.                                                         *)
(***************************************************************************)

\* Induction over a counter, with a set for the induction hypothesis.
LEMMA Counting ==
  ASSUME NEW N \in Nat, NEW P, 0 \in P, \A n \in 0 .. N - 1 : n \in P => n + 1 \in P
  PROVE  0 .. N \subseteq P
  <1> DEFINE T == {n \in 0 .. N : n \notin P}
  <1> SUFFICES ASSUME T # {} PROVE FALSE
    OBVIOUS
  <1>1. T \subseteq Nat
    OBVIOUS
  <1>2. PICK x \in T : \A y \in T : ~ (<<y, x>> \in OpToRel(<, Nat))
    BY <1>1, NatLessThanWellFounded, WFMin
  <1>3. \A y \in T : ~ (y < x)
    BY <1>1, <1>2 DEF OpToRel
  <1>4. x # 0 /\ x - 1 \in 0 .. N - 1
    OBVIOUS
  <1>5. x - 1 \in P
    BY <1>3, <1>4
  <1>6. QED
    BY <1>4, <1>5

\* g holds the values of a loop over 1 to N after each of its turns.
Turns(g, N, S, s0, step) ==
  /\ g \in [0 .. N -> S] /\ g[0] = s0
  /\ \A n \in 1 .. N : g[n] = step[<<g[n - 1], n>>]

\* A loop over 1 to N has a value after each turn.
LEMMA LoopExists ==
  ASSUME NEW N \in Nat, NEW S, NEW s0 \in S, NEW step \in [S \X (1 .. N) -> S]
  PROVE  \E g : Turns(g, N, S, s0, step)
  <1> DEFINE Good(g, m) == g[0] = s0 /\ \A n \in 1 .. m : g[n] = step[<<g[n - 1], n>>]
             P == {m \in 0 .. N : \E g \in [0 .. m -> S] : Good(g, m)}
  <1>1. 0 \in P
    <2>1. [i \in 0 .. 0 |-> s0] \in [0 .. 0 -> S] /\ Good([i \in 0 .. 0 |-> s0], 0)
      OBVIOUS
    <2>2. \E g \in [0 .. 0 -> S] : Good(g, 0)
      BY <2>1
    <2>3. QED
      BY <2>2
  <1>2. ASSUME NEW m \in 0 .. N - 1, m \in P PROVE m + 1 \in P
    <2>1. PICK g \in [0 .. m -> S] : Good(g, m)
      BY <1>2
    <2> DEFINE h == [i \in 0 .. m + 1 |-> IF i = m + 1 THEN step[<<g[m], m + 1>>] ELSE g[i]]
    <2>2. step[<<g[m], m + 1>>] \in S
      <3>1. g[m] \in S /\ m + 1 \in 1 .. N
        BY <2>1
      <3>2. QED
        BY <3>1
    <2>3. h \in [0 .. m + 1 -> S]
      BY <2>1, <2>2
    <2>4. Good(h, m + 1)
      <3>1. h[0] = s0
        BY <2>1
      <3>2. ASSUME NEW n \in 1 .. m + 1 PROVE h[n] = step[<<h[n - 1], n>>]
        <4>1. h[n - 1] = g[n - 1]
          BY <3>2
        <4>2. CASE n = m + 1
          <5>1. h[n] = step[<<g[m], n>>] /\ n - 1 = m
            BY <4>2
          <5>2. QED
            BY <4>1, <5>1
        <4>3. CASE n # m + 1
          BY <2>1, <4>1, <4>3
        <4>4. QED
          BY <4>2, <4>3
      <3>3. QED
        BY <3>1, <3>2
    <2>5. \E f \in [0 .. m + 1 -> S] : Good(f, m + 1)
      <3> HIDE DEF h, Good
      <3>1. QED
        BY <2>3, <2>4
    <2>6. QED
      BY <2>5
  <1>3. N \in P
    <2> HIDE DEF P
    <2>1. QED
      BY <1>1, <1>2, Counting
  <1>4. QED
    BY <1>3 DEF Turns

\* The last and the first of some places.
LEMMA LastPlace ==
  ASSUME NEW N \in Nat, NEW T \in SUBSET (0 .. N), T # {}
  PROVE  Max(T) \in T /\ \A y \in T : y <= Max(T)
  <1> DEFINE B == {m \in 0 .. N : \A y \in T : y <= m}
  <1>1. B \subseteq Nat /\ N \in B
    OBVIOUS
  <1>2. PICK x \in B : \A y \in B : ~ (<<y, x>> \in OpToRel(<, Nat))
    BY <1>1, NatLessThanWellFounded, WFMin
  <1>3. \A y \in B : ~ (y < x)
    BY <1>1, <1>2 DEF OpToRel
  <1>4. x \in T
    <2>1. ASSUME x \notin T PROVE FALSE
      <3>1. \A y \in T : y <= x - 1
        BY <2>1
      <3>2. PICK y \in T : TRUE
        OBVIOUS
      <3>3. x \in Nat /\ y \in Nat /\ y <= x - 1
        BY <3>1
      <3>4. x - 1 \in B
        BY <3>1, <3>3
      <3>5. QED
        BY <1>3, <3>3, <3>4
    <2>2. QED
      BY <2>1
  <1>5. \E m \in T : \A y \in T : m >= y
    BY <1>4
  <1>6. QED
    BY <1>5 DEF Max

LEMMA FirstPlace ==
  ASSUME NEW T \in SUBSET Nat, T # {}
  PROVE  Min(T) \in T /\ \A y \in T : Min(T) <= y
  <1>1. PICK x \in T : \A y \in T : ~ (<<y, x>> \in OpToRel(<, Nat))
    BY NatLessThanWellFounded, WFMin
  <1>2. \A y \in T : ~ (y < x)
    BY <1>1 DEF OpToRel
  <1>3. \A y \in T : x <= y
    BY <1>2
  <1>4. \E m \in T : \A y \in T : m =< y
    BY <1>3
  <1>5. QED
    BY <1>4 DEF Min

\* What SumTo is: the sum of the deltas up to a place of the list.
LEMMA SumFacts ==
  ASSUME NEW S, NEW l \in Seq(S), NEW d \in [S -> Int]
  PROVE  /\ SumTo(l, d, 0) = 0
         /\ \A k \in 0 .. Len(l) : SumTo(l, d, k) \in Int
         /\ \A k \in 1 .. Len(l) : SumTo(l, d, k) = SumTo(l, d, k - 1) + d[l[k]]
  <1> DEFINE N == Len(l)
             step == [x \in Int \X (1 .. N) |-> x[1] + d[l[x[2]]]]
             Body(f) == [n \in 0 .. N |-> IF n = 0 THEN 0 ELSE f[n - 1] + d[l[n]]]
             F == CHOOSE f : f = Body(f)
  <1>1. N \in Nat /\ \A n \in 1 .. N : d[l[n]] \in Int
    OBVIOUS
  <1>2. step \in [Int \X (1 .. N) -> Int]
    BY <1>1
  <1>3. PICK g \in [0 .. N -> Int] : g[0] = 0 /\ \A n \in 1 .. N : g[n] = step[<<g[n - 1], n>>]
    <2>1. N \in Nat /\ 0 \in Int
      BY <1>1
    <2>2. \E g : Turns(g, N, Int, 0, step)
      <3> HIDE DEF step, N
      <3>1. QED
        BY <1>2, <2>1, LoopExists
    <2>3. QED
      BY <2>2 DEF Turns
  <1>4. \A n \in 1 .. N : g[n] = g[n - 1] + d[l[n]]
    <2>1. \A n \in 1 .. N : g[n - 1] \in Int
      BY <1>1, <1>3
    <2>2. QED
      BY <1>3, <2>1
  <1>5. g = Body(g)
    <2>1. \A n \in 0 .. N : g[n] = Body(g)[n]
      BY <1>1, <1>3, <1>4
    <2>2. QED
      BY <1>3, <2>1
  <1>6. F = Body(F)
    <2> HIDE DEF Body
    <2>1. QED
      BY <1>5
  <1>7. F[0] = 0 /\ \A n \in 1 .. N : F[n] = F[n - 1] + d[l[n]]
    <2> HIDE DEF F
    <2>1. QED
      BY <1>1, <1>6
  <1>8. \A k \in 0 .. N : SumTo(l, d, k) = F[k]
    BY DEF SumTo
  <1> HIDE DEF F, step, Body
  <1>9. \A k \in 0 .. N : F[k] \in Int
    <2> DEFINE P == {k \in 0 .. N : F[k] \in Int}
    <2>1. 0 \in P /\ \A n \in 0 .. N - 1 : n \in P => n + 1 \in P
      <3>1. ASSUME NEW n \in 0 .. N - 1, F[n] \in Int PROVE F[n + 1] \in Int
        <4>1. n + 1 \in 1 .. N /\ (n + 1) - 1 = n
          BY <1>1
        <4>2. F[n + 1] = F[n] + d[l[n + 1]] /\ d[l[n + 1]] \in Int
          BY <1>1, <1>7, <4>1
        <4>3. QED
          BY <3>1, <4>2
      <3>2. QED
        BY <1>1, <1>7, <3>1
    <2>2. 0 .. N \subseteq P
      <3> HIDE DEF P
      <3>1. QED
        BY <1>1, <2>1, Counting
    <2>3. QED
      BY <2>2
  <1>10. \A k \in 1 .. N : k \in 0 .. N /\ k - 1 \in 0 .. N
    BY <1>1
  <1>11. 0 \in 0 .. N
    BY <1>1
  <1>12. QED
    BY <1>7, <1>8, <1>9, <1>10, <1>11

\* A loop that takes R[n - 1] to R[n] in its n-th turn ends in R[N].
Reaches(g, N, s0, R, step) ==
  /\ g = [n \in 0 .. N |-> IF n = 0 THEN s0 ELSE step[<<g[n - 1], n>>]]
  /\ \A n \in 0 .. N : g[n] \in R[n]

LEMMA LoopReaches ==
  ASSUME NEW N \in Nat, NEW R, NEW s0 \in R[0], NEW step,
         \A n \in 1 .. N : \A s \in R[n - 1] : step[<<s, n>>] \in R[n]
  PROVE  \E g : Reaches(g, N, s0, R, step)
  <1> DEFINE U == UNION {R[n] : n \in 0 .. N}
             st == [x \in U \X (1 .. N) |-> IF step[x] \in U THEN step[x] ELSE s0]
  <1>1. \A n \in 0 .. N : R[n] \subseteq U
    OBVIOUS
  <1>2. s0 \in U
    BY <1>1
  <1>3. st \in [U \X (1 .. N) -> U]
    <2> HIDE DEF U
    <2>1. QED
      BY <1>2
  <1>4. \A n \in 1 .. N : \A s \in R[n - 1] : s \in U /\ st[<<s, n>>] = step[<<s, n>>]
    <2> SUFFICES ASSUME NEW n \in 1 .. N, NEW s \in R[n - 1]
                 PROVE  s \in U /\ st[<<s, n>>] = step[<<s, n>>]
      OBVIOUS
    <2>1. n \in 0 .. N /\ n - 1 \in 0 .. N
      OBVIOUS
    <2>2. s \in U /\ step[<<s, n>>] \in U
      BY <1>1, <2>1
    <2> HIDE DEF U
    <2>3. QED
      BY <2>2
  <1>5. PICK g : Turns(g, N, U, s0, st)
    <2> HIDE DEF U, st
    <2>1. QED
      BY <1>2, <1>3, LoopExists
  <1> HIDE DEF U, st
  <1>6. g \in [0 .. N -> U] /\ g[0] = s0 /\ \A n \in 1 .. N : g[n] = st[<<g[n - 1], n>>]
    BY <1>5 DEF Turns
  <1>7. \A n \in 0 .. N : g[n] \in R[n]
    <2> DEFINE P == {n \in 0 .. N : g[n] \in R[n]}
    <2>1. 0 \in P /\ \A n \in 0 .. N - 1 : n \in P => n + 1 \in P
      <3>1. ASSUME NEW n \in 0 .. N - 1, g[n] \in R[n] PROVE g[n + 1] \in R[n + 1]
        <4>1. n + 1 \in 1 .. N /\ (n + 1) - 1 = n
          OBVIOUS
        <4>2. g[n + 1] = step[<<g[n], n + 1>>]
          BY <1>4, <1>6, <3>1, <4>1
        <4>3. QED
          BY <3>1, <4>1, <4>2
      <3>2. QED
        BY <1>6, <3>1
    <2>2. 0 .. N \subseteq P
      <3> HIDE DEF P
      <3>1. QED
        BY <2>1, Counting
    <2>3. QED
      BY <2>2
  <1>8. \A n \in 1 .. N : g[n] = step[<<g[n - 1], n>>]
    <2>1. \A n \in 1 .. N : n - 1 \in 0 .. N
      OBVIOUS
    <2>2. QED
      BY <1>4, <1>6, <1>7, <2>1
  <1>9. g = [n \in 0 .. N |-> IF n = 0 THEN s0 ELSE step[<<g[n - 1], n>>]]
    <2>1. \A n \in 0 .. N : g[n] = IF n = 0 THEN s0 ELSE step[<<g[n - 1], n>>]
      BY <1>6, <1>8
    <2>2. QED
      BY <1>6, <2>1
  <1>10. QED
    BY <1>7, <1>9 DEF Reaches

\* ... and these are the loops of the handlers.
LEMMA DeleteLoop ==
  ASSUME NEW O, NEW q \in Seq(O), NEW R, NEW s0 \in R[0],
         \A n \in 1 .. Len(q) : \A s \in R[n - 1] : DeleteNode(s, q[n]) \in R[n]
  PROVE  ForEach(DeleteNode, s0, q) \in R[Len(q)]
  <1> DEFINE N == Len(q)
             U == UNION {R[n] : n \in 0 .. N}
             step == [x \in U \X (1 .. N) |-> DeleteNode(x[1], q[x[2]])]
             Body(f) == [n \in 0 .. N |-> IF n = 0 THEN s0 ELSE DeleteNode(f[n - 1], q[n])]
             F == CHOOSE f : f = Body(f)
  <1>1. N \in Nat
    OBVIOUS
  <1>2. \A n \in 1 .. N : n - 1 \in 0 .. N /\ n \in 0 .. N
    BY <1>1
  <1>3. \A n \in 0 .. N : R[n] \subseteq U
    OBVIOUS
  <1>4. \A n \in 1 .. N : \A s \in R[n - 1] : step[<<s, n>>] = DeleteNode(s, q[n])
    <2> HIDE DEF U
    <2>1. QED
      BY <1>2, <1>3
  <1>5. \A n \in 1 .. N : \A s \in R[n - 1] : step[<<s, n>>] \in R[n]
    <2> HIDE DEF step
    <2>1. QED
      BY <1>4
  <1>6. PICK g : Reaches(g, N, s0, R, step)
    <2> HIDE DEF N, step
    <2>1. QED
      BY <1>1, <1>5, LoopReaches
  <1>7. g = Body(g)
    <2>1. \A n \in 0 .. N : n # 0 => step[<<g[n - 1], n>>] = DeleteNode(g[n - 1], q[n])
      <3> HIDE DEF step
      <3>1. \A n \in 0 .. N : n # 0 => n \in 1 .. N /\ g[n - 1] \in R[n - 1]
        BY <1>1, <1>6 DEF Reaches
      <3>2. QED
        BY <1>4, <3>1
    <2> HIDE DEF step
    <2>2. g = [n \in 0 .. N |-> IF n = 0 THEN s0 ELSE step[<<g[n - 1], n>>]]
      BY <1>6 DEF Reaches
    <2>3. QED
      BY <2>1, <2>2
  <1>8. F = Body(F)
    <2> HIDE DEF Body
    <2>1. QED
      BY <1>7
  <1>9. ForEach(DeleteNode, s0, q) = F[N]
    BY DEF ForEach
  <1>10. F[0] = s0 /\ \A n \in 1 .. N : F[n] = DeleteNode(F[n - 1], q[n])
    <2> HIDE DEF F
    <2>1. QED
      BY <1>1, <1>8
  <1> HIDE DEF F, step, Body, U
  <1> DEFINE P == {n \in 0 .. N : F[n] \in R[n]}
  <1>11. 0 \in P /\ \A n \in 0 .. N - 1 : n \in P => n + 1 \in P
    <2>1. ASSUME NEW n \in 0 .. N - 1, F[n] \in R[n] PROVE F[n + 1] \in R[n + 1]
      <3>1. n + 1 \in 1 .. N /\ (n + 1) - 1 = n
        BY <1>1
      <3>2. F[n + 1] = DeleteNode(F[n], q[n + 1])
        BY <1>10, <3>1
      <3>3. QED
        BY <2>1, <3>1, <3>2
    <2>2. QED
      BY <1>1, <1>10, <2>1
  <1>12. 0 .. N \subseteq P
    <2> HIDE DEF P
    <2>1. QED
      BY <1>1, <1>11, Counting
  <1>13. QED
    BY <1>1, <1>9, <1>12

LEMMA InsertLoop ==
  ASSUME NEW O, NEW q \in Seq(O), NEW R, NEW s0 \in R[0],
         \A n \in 1 .. Len(q) : \A s \in R[n - 1] : InsertNode(s, q[n]) \in R[n]
  PROVE  ForEach(InsertNode, s0, q) \in R[Len(q)]
  <1> DEFINE N == Len(q)
             U == UNION {R[n] : n \in 0 .. N}
             step == [x \in U \X (1 .. N) |-> InsertNode(x[1], q[x[2]])]
             Body(f) == [n \in 0 .. N |-> IF n = 0 THEN s0 ELSE InsertNode(f[n - 1], q[n])]
             F == CHOOSE f : f = Body(f)
  <1>1. N \in Nat
    OBVIOUS
  <1>2. \A n \in 1 .. N : n - 1 \in 0 .. N /\ n \in 0 .. N
    BY <1>1
  <1>3. \A n \in 0 .. N : R[n] \subseteq U
    OBVIOUS
  <1>4. \A n \in 1 .. N : \A s \in R[n - 1] : step[<<s, n>>] = InsertNode(s, q[n])
    <2> HIDE DEF U
    <2>1. QED
      BY <1>2, <1>3
  <1>5. \A n \in 1 .. N : \A s \in R[n - 1] : step[<<s, n>>] \in R[n]
    <2> HIDE DEF step
    <2>1. QED
      BY <1>4
  <1>6. PICK g : Reaches(g, N, s0, R, step)
    <2> HIDE DEF N, step
    <2>1. QED
      BY <1>1, <1>5, LoopReaches
  <1>7. g = Body(g)
    <2>1. \A n \in 0 .. N : n # 0 => step[<<g[n - 1], n>>] = InsertNode(g[n - 1], q[n])
      <3> HIDE DEF step
      <3>1. \A n \in 0 .. N : n # 0 => n \in 1 .. N /\ g[n - 1] \in R[n - 1]
        BY <1>1, <1>6 DEF Reaches
      <3>2. QED
        BY <1>4, <3>1
    <2> HIDE DEF step
    <2>2. g = [n \in 0 .. N |-> IF n = 0 THEN s0 ELSE step[<<g[n - 1], n>>]]
      BY <1>6 DEF Reaches
    <2>3. QED
      BY <2>1, <2>2
  <1>8. F = Body(F)
    <2> HIDE DEF Body
    <2>1. QED
      BY <1>7
  <1>9. ForEach(InsertNode, s0, q) = F[N]
    BY DEF ForEach
  <1>10. F[0] = s0 /\ \A n \in 1 .. N : F[n] = InsertNode(F[n - 1], q[n])
    <2> HIDE DEF F
    <2>1. QED
      BY <1>1, <1>8
  <1> HIDE DEF F, step, Body, U
  <1> DEFINE P == {n \in 0 .. N : F[n] \in R[n]}
  <1>11. 0 \in P /\ \A n \in 0 .. N - 1 : n \in P => n + 1 \in P
    <2>1. ASSUME NEW n \in 0 .. N - 1, F[n] \in R[n] PROVE F[n + 1] \in R[n + 1]
      <3>1. n + 1 \in 1 .. N /\ (n + 1) - 1 = n
        BY <1>1
      <3>2. F[n + 1] = InsertNode(F[n], q[n + 1])
        BY <1>10, <3>1
      <3>3. QED
        BY <2>1, <3>1, <3>2
    <2>2. QED
      BY <1>1, <1>10, <2>1
  <1>12. 0 .. N \subseteq P
    <2> HIDE DEF P
    <2>1. QED
      BY <1>1, <1>11, Counting
  <1>13. QED
    BY <1>1, <1>9, <1>12

\* One turn of the loop of Restarted.
Prepended(s, n, r) ==
  IF s.list[n] \in Repeated THEN <<StartAgain(s, n)>> \o r ELSE r

LEMMA RestartLoop ==
  ASSUME NEW s, NEW k \in Nat, NEW R, << >> \in R[0],
         \A n \in 1 .. k : \A r \in R[n - 1] : Prepended(s, n, r) \in R[n]
  PROVE  Restarted(s, k) \in R[k]
  <1> DEFINE N == k
             U == UNION {R[n] : n \in 0 .. N}
             step == [x \in U \X (1 .. N) |-> Prepended(s, x[2], x[1])]
             Body(f) == [n \in 0 .. N |-> IF n = 0 THEN << >> ELSE Prepended(s, n, f[n - 1])]
             F == CHOOSE f : f = Body(f)
  <1>1. N \in Nat
    OBVIOUS
  <1>2. \A n \in 1 .. N : n - 1 \in 0 .. N /\ n \in 0 .. N
    BY <1>1
  <1>3. \A n \in 0 .. N : R[n] \subseteq U
    OBVIOUS
  <1>4. \A n \in 1 .. N : \A r \in R[n - 1] : step[<<r, n>>] = Prepended(s, n, r)
    <2> HIDE DEF U
    <2>1. QED
      BY <1>2, <1>3
  <1>5. \A n \in 1 .. N : \A r \in R[n - 1] : step[<<r, n>>] \in R[n]
    <2> HIDE DEF step
    <2>1. QED
      BY <1>4
  <1>6. PICK g : Reaches(g, N, << >>, R, step)
    <2> HIDE DEF N, step
    <2>1. QED
      BY <1>1, <1>5, LoopReaches
  <1>7. g = Body(g)
    <2>1. \A n \in 0 .. N : n # 0 => step[<<g[n - 1], n>>] = Prepended(s, n, g[n - 1])
      <3> HIDE DEF step
      <3>1. \A n \in 0 .. N : n # 0 => n \in 1 .. N /\ g[n - 1] \in R[n - 1]
        BY <1>1, <1>6 DEF Reaches
      <3>2. QED
        BY <1>4, <3>1
    <2> HIDE DEF step
    <2>2. g = [n \in 0 .. N |-> IF n = 0 THEN << >> ELSE step[<<g[n - 1], n>>]]
      BY <1>6 DEF Reaches
    <2>3. QED
      BY <2>1, <2>2
  <1>8. F = Body(F)
    <2> HIDE DEF Body
    <2>1. QED
      BY <1>7
  <1>9. Restarted(s, k) = F[N]
    BY DEF Restarted, Prepended
  <1>10. F[0] = << >> /\ \A n \in 1 .. N : F[n] = Prepended(s, n, F[n - 1])
    <2> HIDE DEF F
    <2>1. QED
      BY <1>1, <1>8
  <1> HIDE DEF F, step, Body, U
  <1> DEFINE P == {n \in 0 .. N : F[n] \in R[n]}
  <1>11. 0 \in P /\ \A n \in 0 .. N - 1 : n \in P => n + 1 \in P
    <2>1. ASSUME NEW n \in 0 .. N - 1, F[n] \in R[n] PROVE F[n + 1] \in R[n + 1]
      <3>1. n + 1 \in 1 .. N /\ (n + 1) - 1 = n
        BY <1>1
      <3>2. F[n + 1] = Prepended(s, n + 1, F[n])
        BY <1>10, <3>1
      <3>3. QED
        BY <2>1, <3>1, <3>2
    <2>2. QED
      BY <1>1, <1>10, <2>1
  <1>12. 0 .. N \subseteq P
    <2> HIDE DEF P
    <2>1. QED
      BY <1>1, <1>11, Counting
  <1>13. QED
    BY <1>1, <1>9, <1>12

-------------------------------------------------------------------------------
(*****************************************************************************)
(* Sums, when a timer comes into a list or goes out of it.                  *)
(*****************************************************************************)

\* Whatever starts at nought and grows by the deltas is the sum.
Accumulates(g, l, d) ==
  g[0] = 0 /\ \A n \in 1 .. Len(l) : g[n] = g[n - 1] + d[l[n]]

LEMMA SumUnique ==
  ASSUME NEW S, NEW l \in Seq(S), NEW d \in [S -> Int], NEW g, Accumulates(g, l, d)
  PROVE  \A n \in 0 .. Len(l) : SumTo(l, d, n) = g[n]
  <1> DEFINE N == Len(l)
             P == {n \in 0 .. N : SumTo(l, d, n) = g[n]}
  <1>1. N \in Nat
    OBVIOUS
  <1>2. 0 \in P
    BY <1>1, SumFacts DEF Accumulates
  <1>3. ASSUME NEW n \in 0 .. N - 1, n \in P PROVE n + 1 \in P
    <2>1. n + 1 \in 1 .. N /\ (n + 1) - 1 = n
      BY <1>1
    <2>2. SumTo(l, d, n + 1) = SumTo(l, d, n) + d[l[n + 1]]
      <3>1. SumTo(l, d, n + 1) = SumTo(l, d, (n + 1) - 1) + d[l[n + 1]]
        BY <2>1, SumFacts
      <3>2. QED
        BY <2>1, <3>1
    <2>3. QED
      BY <1>3, <2>1, <2>2 DEF Accumulates
  <1>4. 0 .. N \subseteq P
    <2> HIDE DEF P, N
    <2>1. QED
      BY <1>1, <1>2, <1>3, Counting
  <1>5. QED
    BY <1>4

\* The timers further down the list expire no earlier.
LEMMA SumGrows ==
  ASSUME NEW S, NEW l \in Seq(S), NEW d \in [S -> Nat]
  PROVE  /\ \A k \in 0 .. Len(l) : SumTo(l, d, k) \in Nat
         /\ \A j, k \in 0 .. Len(l) : j <= k => SumTo(l, d, j) <= SumTo(l, d, k)
  <1> DEFINE N == Len(l)
             P == {n \in 0 .. N : /\ SumTo(l, d, n) \in Nat
                                  /\ \A j \in 0 .. n : SumTo(l, d, j) <= SumTo(l, d, n)}
  <1>1. N \in Nat /\ d \in [S -> Int]
    OBVIOUS
  <1>2. 0 \in P
    <2>1. SumTo(l, d, 0) = 0
      BY <1>1, SumFacts
    <2>2. QED
      BY <1>1, <2>1
  <1>3. ASSUME NEW n \in 0 .. N - 1, n \in P PROVE n + 1 \in P
    <2>1. n + 1 \in 1 .. N /\ (n + 1) - 1 = n
      BY <1>1
    <2>2. SumTo(l, d, n + 1) = SumTo(l, d, n) + d[l[n + 1]]
      <3>1. SumTo(l, d, n + 1) = SumTo(l, d, (n + 1) - 1) + d[l[n + 1]]
        BY <1>1, <2>1, SumFacts
      <3>2. QED
        BY <2>1, <3>1
    <2>3. d[l[n + 1]] \in Nat
      BY <2>1
    <2>4. SumTo(l, d, n + 1) \in Nat /\ SumTo(l, d, n) <= SumTo(l, d, n + 1)
      BY <1>3, <2>2, <2>3
    <2>5. ASSUME NEW j \in 0 .. n + 1 PROVE SumTo(l, d, j) <= SumTo(l, d, n + 1)
      <3>1. CASE j = n + 1
        BY <2>4, <3>1
      <3>2. CASE j \in 0 .. n
        <4>1. SumTo(l, d, j) <= SumTo(l, d, n) /\ SumTo(l, d, j) \in Int
          BY <1>1, <1>3, <3>2, SumFacts
        <4>2. QED
          BY <1>3, <2>4, <4>1
      <3>3. QED
        BY <3>1, <3>2
    <2>6. QED
      BY <2>1, <2>4, <2>5
  <1>4. 0 .. N \subseteq P
    <2> HIDE DEF P, N
    <2>1. QED
      BY <1>1, <1>2, <1>3, Counting
  <1>5. \A n \in 0 .. N : SumTo(l, d, n) \in Nat /\ \A j \in 0 .. n : SumTo(l, d, j) <= SumTo(l, d, n)
    BY <1>4
  <1>6. \A j, k \in 0 .. N : j <= k => j \in 0 .. k
    BY <1>1
  <1>7. QED
    BY <1>5, <1>6

\* Where a sequence has its members when one comes in or goes out.
ComesIn(m, l, k, t) ==
  /\ Len(m) = Len(l) + 1
  /\ \A n \in 1 .. k : m[n] = l[n]
  /\ m[k + 1] = t
  /\ \A n \in k + 1 .. Len(l) : m[n + 1] = l[n]

LEMMA InsertFacts ==
  ASSUME NEW S, NEW l \in Seq(S), NEW t \in S, NEW k \in 0 .. Len(l)
  PROVE  /\ InsertAt(l, k + 1, t) \in Seq(S)
         /\ ComesIn(InsertAt(l, k + 1, t), l, k, t)
  <1> DEFINE a == SubSeq(l, 1, k)
             b == SubSeq(l, k + 1, Len(l))
  <1>0. (k + 1) - 1 = k
    OBVIOUS
  <1>1. InsertAt(l, k + 1, t) = a \o <<t>> \o b
    BY <1>0 DEF InsertAt
  <1>2. a \in Seq(S) /\ Len(a) = k /\ \A n \in 1 .. k : a[n] = l[n]
    OBVIOUS
  <1>3. b \in Seq(S) /\ Len(b) = Len(l) - k /\ \A n \in 1 .. Len(l) - k : b[n] = l[k + n]
    OBVIOUS
  <1> HIDE DEF a, b
  <1> DEFINE c == a \o <<t>>
  <1>4. c \in Seq(S) /\ Len(c) = k + 1 /\ c[k + 1] = t /\ \A n \in 1 .. k : c[n] = l[n]
    BY <1>2
  <1>5. InsertAt(l, k + 1, t) = c \o b
    BY <1>1
  <1> HIDE DEF c
  <1>6. c \o b \in Seq(S) /\ Len(c \o b) = Len(l) + 1 /\ \A n \in 1 .. k + 1 : (c \o b)[n] = c[n]
    BY <1>3, <1>4
  <1>7. ASSUME NEW n \in k + 1 .. Len(l) PROVE (c \o b)[n + 1] = l[n]
    <2>1. n - k \in 1 .. Len(l) - k /\ n + 1 = (k + 1) + (n - k) /\ k + (n - k) = n
      OBVIOUS
    <2>2. (c \o b)[n + 1] = b[n - k]
      BY <1>3, <1>4, <2>1
    <2>3. b[n - k] = l[k + (n - k)]
      BY <1>3, <2>1
    <2>4. QED
      BY <2>1, <2>2, <2>3
  <1>8. \A n \in 1 .. k : n \in 1 .. k + 1
    OBVIOUS
  <1>9. k + 1 \in 1 .. k + 1
    OBVIOUS
  <1>10. QED
    BY <1>4, <1>5, <1>6, <1>7, <1>8, <1>9 DEF ComesIn

GoesOut(m, l, k) ==
  /\ Len(m) = Len(l) - 1
  /\ \A n \in 1 .. k - 1 : m[n] = l[n]
  /\ \A n \in k .. Len(l) - 1 : m[n] = l[n + 1]

LEMMA RemoveFacts ==
  ASSUME NEW S, NEW l \in Seq(S), NEW k \in 1 .. Len(l)
  PROVE  RemoveAt(l, k) \in Seq(S) /\ GoesOut(RemoveAt(l, k), l, k)
  <1> DEFINE a == SubSeq(l, 1, k - 1)
             b == SubSeq(l, k + 1, Len(l))
  <1>1. RemoveAt(l, k) = a \o b
    BY DEF RemoveAt
  <1>2. a \in Seq(S) /\ Len(a) = k - 1 /\ \A n \in 1 .. k - 1 : a[n] = l[n]
    OBVIOUS
  <1>3. b \in Seq(S) /\ Len(b) = Len(l) - k /\ \A n \in 1 .. Len(l) - k : b[n] = l[k + n]
    OBVIOUS
  <1> HIDE DEF a, b
  <1>4. QED
    BY <1>1, <1>2, <1>3 DEF GoesOut

-------------------------------------------------------------------------------
(*****************************************************************************)
(* Lists of timers, and a timer inserted.                                   *)
(*****************************************************************************)

\* A list of timers as the handlers keep it: no timer twice, no delta below nought,
\* none left behind by a timer that stopped.
IsTimerList(l, d) ==
  /\ l \in Seq(Timers) /\ IsInjective(l)
  /\ d \in [Timers -> Nat]
  /\ \A t \in Timers \ ToSet(l) : d[t] = 0

\* The list m is the list l with t at place k + 1, to expire after so many ticks.
InsertedAt(m, e, l, d, t, ticks, k) ==
  /\ Len(m) = Len(l) + 1
  /\ \A n \in 1 .. k : m[n] = l[n] /\ SumTo(m, e, n) = SumTo(l, d, n)
                       /\ SumTo(l, d, n) < ticks
  /\ m[k + 1] = t /\ SumTo(m, e, k + 1) = ticks
  /\ \A n \in k + 1 .. Len(l) : m[n + 1] = l[n] /\ SumTo(m, e, n + 1) = SumTo(l, d, n)
                                /\ ticks <= SumTo(l, d, n)

\* The deltas after timer_list_insert.
DeltaInserted(l, d, t, ticks, k) ==
  [u \in Timers |-> IF u = t THEN ticks - SumTo(l, d, k)
                    ELSE IF u \in (IF k = Len(l) THEN {} ELSE {l[k + 1]})
                    THEN d[u] - (ticks - SumTo(l, d, k))
                    ELSE d[u]]

LEMMA ToSetFacts ==
  ASSUME NEW S, NEW l \in Seq(S)
  PROVE  /\ \A n \in 1 .. Len(l) : l[n] \in ToSet(l)
         /\ \A x \in ToSet(l) : x \in S /\ \E n \in 1 .. Len(l) : l[n] = x
  <1>1. DOMAIN l = 1 .. Len(l) /\ \A n \in 1 .. Len(l) : l[n] \in S
    OBVIOUS
  <1>2. ToSet(l) = {l[n] : n \in 1 .. Len(l)}
    BY <1>1 DEF ToSet
  <1>3. QED
    BY <1>1, <1>2

LEMMA InsertSums ==
  ASSUME NEW l, NEW d, IsTimerList(l, d), NEW t \in Timers \ ToSet(l), NEW ticks \in Nat,
         NEW k \in 0 .. Len(l),
         k = Len(l) \/ ticks <= SumTo(l, d, k + 1),
         \A j \in 0 .. k - 1 : j # Len(l) /\ SumTo(l, d, j + 1) < ticks
  PROVE  /\ IsTimerList(InsertAt(l, k + 1, t), DeltaInserted(l, d, t, ticks, k))
         /\ InsertedAt(InsertAt(l, k + 1, t), DeltaInserted(l, d, t, ticks, k),
                       l, d, t, ticks, k)
  <1> DEFINE m == InsertAt(l, k + 1, t)
             e == DeltaInserted(l, d, t, ticks, k)
             own == ticks - SumTo(l, d, k)
             g == [n \in 0 .. Len(l) + 1 |-> IF n <= k THEN SumTo(l, d, n)
                                             ELSE IF n = k + 1 THEN ticks
                                             ELSE SumTo(l, d, n - 1)]
  <1>1. l \in Seq(Timers) /\ d \in [Timers -> Nat] /\ d \in [Timers -> Int] /\ Len(l) \in Nat
    BY DEF IsTimerList
  <1>2. \A a, b \in 1 .. Len(l) : l[a] = l[b] => a = b
    BY <1>1 DEF IsTimerList, IsInjective
  <1>3. \A n \in 1 .. Len(l) : l[n] # t /\ l[n] \in Timers
    BY <1>1 DEF ToSet
  <1>4. /\ m \in Seq(Timers) /\ Len(m) = Len(l) + 1
        /\ \A n \in 1 .. k : m[n] = l[n]
        /\ m[k + 1] = t
        /\ \A n \in k + 1 .. Len(l) : m[n + 1] = l[n]
    <2>1. t \in Timers
      OBVIOUS
    <2>2. m \in Seq(Timers) /\ ComesIn(m, l, k, t)
      BY <1>1, <2>1, InsertFacts
    <2> HIDE DEF m
    <2>3. QED
      BY <2>2 DEF ComesIn
  <1>lens. Len(l) \in Nat /\ Len(m) = Len(l) + 1
    BY <1>1, <1>4
  <1>sums. \A n \in 1 .. Len(l) : SumTo(l, d, n) = SumTo(l, d, n - 1) + d[l[n]]
    BY <1>1, SumFacts
  <1>5. \A n \in 0 .. Len(l) : SumTo(l, d, n) \in Nat
    BY <1>1, SumGrows
  <1>6. own \in Nat /\ SumTo(l, d, k) <= ticks
    <2>1. CASE k = 0
      <3>1. SumTo(l, d, k) = 0
        BY <1>1, <2>1, SumFacts
      <3>2. QED
        BY <3>1
    <2>2. CASE k # 0
      <3>1. k - 1 \in 0 .. k - 1 /\ (k - 1) + 1 = k
        BY <2>2
      <3>2. SumTo(l, d, k) < ticks
        BY <3>1
      <3>3. QED
        BY <1>5, <3>2
    <2>3. QED
      BY <2>1, <2>2
  <1>7. k # Len(l) => d[l[k + 1]] - own \in Nat /\ k + 1 \in 1 .. Len(l)
    <2> SUFFICES ASSUME k # Len(l) PROVE d[l[k + 1]] - own \in Nat /\ k + 1 \in 1 .. Len(l)
      OBVIOUS
    <2>1. k + 1 \in 1 .. Len(l) /\ (k + 1) - 1 = k
      BY <1>1
    <2>2. SumTo(l, d, k + 1) = SumTo(l, d, k) + d[l[k + 1]]
      <3>1. SumTo(l, d, k + 1) = SumTo(l, d, (k + 1) - 1) + d[l[k + 1]]
        BY <1>sums, <2>1
      <3>2. QED
        BY <2>1, <3>1
    <2>3. d[l[k + 1]] \in Nat
      BY <1>1, <1>3, <2>1
    <2>4. QED
      BY <1>5, <2>1, <2>2, <2>3
  <1>8. e = [u \in Timers |-> IF u = t THEN own
                              ELSE IF k # Len(l) /\ u = l[k + 1] THEN d[u] - own ELSE d[u]]
    BY DEF DeltaInserted
  <1> HIDE DEF m, e
  <1>9. e \in [Timers -> Nat]
    BY <1>1, <1>6, <1>7, <1>8
  <1>10. e[t] = own
    BY <1>8
  <1>11. \A n \in 1 .. Len(l) : e[l[n]] = IF n = k + 1 THEN d[l[n]] - own ELSE d[l[n]]
    BY <1>1, <1>2, <1>3, <1>8
  <1>12. g[0] = 0
    BY <1>1, SumFacts
  <1>13. ASSUME NEW n \in 1 .. Len(m) PROVE g[n] = g[n - 1] + e[m[n]]
    <2>1. n \in 1 .. Len(l) + 1 /\ n \in 0 .. Len(l) + 1 /\ n - 1 \in 0 .. Len(l) + 1
      BY <1>lens
    <2>2. CASE n \in 1 .. k
      <3>1. g[n] = SumTo(l, d, n) /\ g[n - 1] = SumTo(l, d, n - 1)
        BY <2>1, <2>2
      <3>2. n \in 1 .. Len(l) /\ n # k + 1 /\ m[n] = l[n]
        <4>1. n \in 1 .. Len(l) /\ n # k + 1
          BY <1>lens, <2>2
        <4>2. QED
          BY <1>4, <2>2, <4>1
      <3>3. e[m[n]] = d[l[n]]
        BY <1>11, <3>2
      <3>4. SumTo(l, d, n) = SumTo(l, d, n - 1) + d[l[n]]
        BY <1>sums, <3>2
      <3>5. QED
        BY <3>1, <3>3, <3>4
    <2>3. CASE n = k + 1
      <3>1. g[n] = ticks /\ g[n - 1] = SumTo(l, d, k)
        BY <2>1, <2>3
      <3>2. e[m[n]] = own
        BY <1>4, <1>10, <2>3
      <3>3. QED
        BY <1>5, <3>1, <3>2
    <2>4. CASE n = k + 2
      <3>1. k + 1 \in 1 .. Len(l) /\ (k + 1) - 1 = k /\ n = (k + 1) + 1 /\ n - 1 = k + 1 /\ k + 1 \in k + 1 .. Len(l)
        BY <1>1, <2>1, <2>4
      <3>2. g[n] = SumTo(l, d, k + 1) /\ g[n - 1] = ticks
        BY <2>1, <3>1
      <3>3. m[n] = l[k + 1]
        BY <1>4, <3>1
      <3>4. e[m[n]] = d[l[k + 1]] - own
        BY <1>11, <3>1, <3>3
      <3>5. SumTo(l, d, k + 1) = SumTo(l, d, k) + d[l[k + 1]]
        <4>1. SumTo(l, d, k + 1) = SumTo(l, d, (k + 1) - 1) + d[l[k + 1]]
          BY <1>sums, <3>1
        <4>2. QED
          BY <3>1, <4>1
      <3>6. d[l[k + 1]] \in Nat
        BY <1>1, <1>3, <3>1
      <3>7. QED
        BY <1>5, <3>1, <3>2, <3>4, <3>5, <3>6
    <2>5. CASE n > k + 2
      <3>1. n - 1 \in 1 .. Len(l) /\ n - 1 \in k + 1 .. Len(l) /\ n = (n - 1) + 1 /\ n - 1 # k + 1
        BY <1>1, <2>1, <2>5
      <3>2. g[n] = SumTo(l, d, n - 1) /\ g[n - 1] = SumTo(l, d, (n - 1) - 1)
        BY <2>1, <2>5, <3>1
      <3>3. m[n] = l[n - 1]
        BY <1>4, <3>1
      <3>4. e[m[n]] = d[l[n - 1]]
        BY <1>11, <3>1, <3>3
      <3>5. SumTo(l, d, n - 1) = SumTo(l, d, (n - 1) - 1) + d[l[n - 1]]
        BY <1>sums, <3>1
      <3>6. QED
        BY <3>2, <3>4, <3>5
    <2>6. n \in 1 .. k \/ n = k + 1 \/ n = k + 2 \/ n > k + 2
      BY <1>lens, <2>1
    <2>7. QED
      BY <2>2, <2>3, <2>4, <2>5, <2>6
  <1>14. \A n \in 0 .. Len(l) + 1 : SumTo(m, e, n) = g[n]
    <2>1. e \in [Timers -> Int]
      BY <1>9
    <2> HIDE DEF g
    <2>2. m \in Seq(Timers)
      BY <1>4
    <2>3. \A n \in 1 .. Len(m) : g[n] = g[n - 1] + e[m[n]]
      BY <1>13
    <2>4. Accumulates(g, m, e)
      BY <1>12, <2>3 DEF Accumulates
    <2>5. \A n \in 0 .. Len(m) : SumTo(m, e, n) = g[n]
      BY <2>1, <2>2, <2>4, SumUnique
    <2>6. QED
      BY <1>4, <2>5
  <1>15. InsertedAt(m, e, l, d, t, ticks, k)
    <2>1. ASSUME NEW n \in 1 .. k
          PROVE  SumTo(m, e, n) = SumTo(l, d, n) /\ SumTo(l, d, n) < ticks
      <3>1. n \in 0 .. Len(l) + 1 /\ n - 1 \in 0 .. k - 1 /\ (n - 1) + 1 = n
        BY <1>1
      <3>2. SumTo(m, e, n) = g[n] /\ g[n] = SumTo(l, d, n)
        BY <1>14, <3>1
      <3>3. SumTo(l, d, (n - 1) + 1) < ticks
        BY <3>1
      <3>4. QED
        BY <3>1, <3>2, <3>3
    <2>2. SumTo(m, e, k + 1) = ticks
      BY <1>1, <1>14
    <2>3. ASSUME NEW n \in k + 1 .. Len(l)
          PROVE  SumTo(m, e, n + 1) = SumTo(l, d, n) /\ ticks <= SumTo(l, d, n)
      <3>1. n + 1 \in 0 .. Len(l) + 1 /\ (n + 1) - 1 = n /\ n + 1 > k + 1 /\ k # Len(l)
        BY <1>1
      <3>2. SumTo(m, e, n + 1) = SumTo(l, d, n)
        BY <1>14, <3>1
      <3>3. k + 1 \in 0 .. Len(l) /\ n \in 0 .. Len(l) /\ k + 1 <= n
        BY <1>1
      <3>4. SumTo(l, d, k + 1) <= SumTo(l, d, n)
        BY <1>1, <3>3, SumGrows
      <3>5. ticks <= SumTo(l, d, k + 1)
        BY <3>1
      <3>6. QED
        BY <1>5, <3>2, <3>3, <3>4, <3>5
    <2> HIDE DEF g
    <2>4. QED
      BY <1>4, <2>1, <2>2, <2>3 DEF InsertedAt
  <1>16. IsInjective(m)
    <2> SUFFICES ASSUME NEW a \in 1 .. Len(l) + 1, NEW b \in 1 .. Len(l) + 1, m[a] = m[b], a < b PROVE FALSE
      BY <1>1, <1>4 DEF IsInjective
    <2>1. CASE b <= k
      <3>1. a \in 1 .. k /\ b \in 1 .. k /\ a \in 1 .. Len(l) /\ b \in 1 .. Len(l)
        BY <1>lens, <2>1
      <3>2. m[a] = l[a] /\ m[b] = l[b]
        BY <1>4, <3>1
      <3>3. l[a] = l[b]
        BY <3>2
      <3>4. a # b
        BY <1>1
      <3>5. QED
        BY <1>2, <3>1, <3>3, <3>4
    <2>2. CASE b = k + 1
      <3>1. a \in 1 .. k /\ a \in 1 .. Len(l)
        BY <1>lens, <2>2
      <3>2. m[a] = l[a] /\ m[b] = t
        BY <1>4, <2>2, <3>1
      <3>3. QED
        BY <1>3, <3>1, <3>2
    <2>3. CASE b > k + 1
      <3>1. b - 1 \in k + 1 .. Len(l) /\ (b - 1) + 1 = b /\ b - 1 \in 1 .. Len(l)
        BY <1>lens, <2>3
      <3>2. m[b] = l[b - 1]
        BY <1>4, <3>1
      <3>3. CASE a <= k
        <4>1. m[a] = l[a] /\ a \in 1 .. Len(l) /\ a # b - 1
          <5>1. a \in 1 .. k /\ a \in 1 .. Len(l) /\ a # b - 1
            BY <1>lens, <2>3, <3>3
          <5>2. QED
            BY <1>4, <5>1
        <4>2. QED
          BY <1>2, <3>1, <3>2, <4>1
      <3>4. CASE a = k + 1
        BY <1>3, <1>4, <3>1, <3>2, <3>4
      <3>5. CASE a > k + 1
        <4>1. a - 1 \in k + 1 .. Len(l) /\ (a - 1) + 1 = a /\ a - 1 \in 1 .. Len(l) /\ a - 1 # b - 1
          BY <1>lens, <3>5
        <4>2. m[a] = l[a - 1]
          BY <1>4, <4>1
        <4>3. QED
          BY <1>2, <3>1, <3>2, <4>1, <4>2
      <3>6. QED
        BY <3>3, <3>4, <3>5
    <2>4. QED
      BY <2>1, <2>2, <2>3
  <1>17. ToSet(m) = ToSet(l) \union {t}
    <2>1. ASSUME NEW n \in 1 .. Len(l) PROVE l[n] \in ToSet(m)
      <3>1. CASE n <= k
        <4>1. n \in 1 .. k /\ n \in 1 .. Len(m)
          BY <1>lens, <3>1
        <4>2. m[n] = l[n]
          BY <1>4, <4>1
        <4>3. QED
          BY <1>4, <4>1, <4>2, ToSetFacts
      <3>2. CASE n > k
        <4>1. n \in k + 1 .. Len(l) /\ n + 1 \in 1 .. Len(m)
          BY <1>lens, <3>2
        <4>2. m[n + 1] = l[n]
          BY <1>4, <4>1
        <4>3. QED
          BY <1>4, <4>1, <4>2, ToSetFacts
      <3>3. QED
        BY <1>lens, <3>1, <3>2
    <2>2. t \in ToSet(m)
      <3>1. k + 1 \in 1 .. Len(m)
        BY <1>lens
      <3>2. QED
        BY <1>4, <3>1, ToSetFacts
    <2>3. ASSUME NEW n \in 1 .. Len(m) PROVE m[n] \in ToSet(l) \union {t}
      <3>1. CASE n <= k
        <4>1. n \in 1 .. k /\ n \in 1 .. Len(l)
          BY <1>lens, <3>1
        <4>2. m[n] = l[n]
          BY <1>4, <4>1
        <4>3. QED
          BY <1>1, <4>1, <4>2, ToSetFacts
      <3>2. CASE n = k + 1
        BY <1>4, <3>2
      <3>3. CASE n > k + 1
        <4>1. n - 1 \in k + 1 .. Len(l) /\ (n - 1) + 1 = n /\ n - 1 \in 1 .. Len(l)
          BY <1>lens, <3>3
        <4>2. m[n] = l[n - 1]
          BY <1>4, <4>1
        <4>3. QED
          BY <1>1, <4>1, <4>2, ToSetFacts
      <3>4. QED
        BY <1>lens, <3>1, <3>2, <3>3
    <2>4. \A x \in ToSet(m) : x \in ToSet(l) \union {t}
      BY <1>4, <2>3, ToSetFacts
    <2>5. \A x \in ToSet(l) : x \in ToSet(m)
      BY <1>1, <2>1, ToSetFacts
    <2>6. QED
      BY <2>2, <2>4, <2>5
  <1>18. \A u \in Timers \ ToSet(m) : e[u] = 0
    <2>1. k # Len(l) => l[k + 1] \in ToSet(l)
      BY <1>1, <1>7, ToSetFacts
    <2>2. QED
      BY <1>8, <1>17, <2>1 DEF IsTimerList
  <1>19. QED
    BY <1>4, <1>9, <1>15, <1>16, <1>18 DEF IsTimerList, m, e

-------------------------------------------------------------------------------
(*****************************************************************************)
(* A timer removed; the expired ones taken from the front.                  *)
(*****************************************************************************)

LEMMA NoneTwice ==
  ASSUME NEW S, NEW l \in Seq(S), \A a, b \in 1 .. Len(l) : l[a] = l[b] => a = b
  PROVE  IsInjective(l)
  <1>1. DOMAIN l = 1 .. Len(l)
    OBVIOUS
  <1>2. QED
    BY <1>1 DEF IsInjective

\* The list m is the list l without the timer at place k.
RemovedAt(m, e, l, d, k) ==
  /\ Len(m) = Len(l) - 1
  /\ \A n \in 1 .. k - 1 : m[n] = l[n] /\ SumTo(m, e, n) = SumTo(l, d, n)
  /\ \A n \in k .. Len(l) - 1 : m[n] = l[n + 1] /\ SumTo(m, e, n) = SumTo(l, d, n + 1)

\* The deltas after timer_list_remove.
DeltaRemoved(l, d, k) ==
  [u \in Timers |-> IF u = l[k] THEN 0
                    ELSE IF u \in (IF k = Len(l) THEN {} ELSE {l[k + 1]})
                    THEN d[u] + d[l[k]]
                    ELSE d[u]]

LEMMA RemoveSums ==
  ASSUME NEW l, NEW d, IsTimerList(l, d), NEW k \in 1 .. Len(l)
  PROVE  /\ IsTimerList(RemoveAt(l, k), DeltaRemoved(l, d, k))
         /\ RemovedAt(RemoveAt(l, k), DeltaRemoved(l, d, k), l, d, k)
  <1> DEFINE m == RemoveAt(l, k)
             e == DeltaRemoved(l, d, k)
             g == [n \in 0 .. Len(l) - 1 |-> IF n < k THEN SumTo(l, d, n)
                                             ELSE SumTo(l, d, n + 1)]
  <1>1. l \in Seq(Timers) /\ d \in [Timers -> Nat] /\ d \in [Timers -> Int] /\ Len(l) \in Nat
    BY DEF IsTimerList
  <1>2. \A a, b \in 1 .. Len(l) : l[a] = l[b] => a = b
    BY <1>1 DEF IsTimerList, IsInjective
  <1>3. \A n \in 1 .. Len(l) : l[n] \in Timers /\ d[l[n]] \in Nat
    BY <1>1
  <1>4. /\ m \in Seq(Timers) /\ Len(m) = Len(l) - 1
        /\ \A n \in 1 .. k - 1 : m[n] = l[n]
        /\ \A n \in k .. Len(l) - 1 : m[n] = l[n + 1]
    <2>1. m \in Seq(Timers) /\ GoesOut(m, l, k)
      BY <1>1, RemoveFacts
    <2> HIDE DEF m
    <2>2. QED
      BY <2>1 DEF GoesOut
  <1>lens. Len(l) \in Nat /\ Len(m) = Len(l) - 1
    BY <1>1, <1>4
  <1>5. \A n \in 0 .. Len(l) : SumTo(l, d, n) \in Nat
    BY <1>1, SumGrows
  <1>6. e = [u \in Timers |-> IF u = l[k] THEN 0
                              ELSE IF k # Len(l) /\ u = l[k + 1] THEN d[u] + d[l[k]]
                              ELSE d[u]]
    BY DEF DeltaRemoved
  <1> HIDE DEF m, e
  <1>7. e \in [Timers -> Nat]
    BY <1>1, <1>3, <1>6
  <1>8. \A n \in 1 .. Len(l) : n # k => e[l[n]] = IF n = k + 1 THEN d[l[n]] + d[l[k]] ELSE d[l[n]]
    BY <1>1, <1>2, <1>3, <1>6
  <1>9. \A n \in 1 .. Len(l) : SumTo(l, d, n) = SumTo(l, d, n - 1) + d[l[n]]
    BY <1>1, SumFacts
  <1>10. g[0] = 0
    BY <1>1, SumFacts
  <1>11. ASSUME NEW n \in 1 .. Len(m) PROVE g[n] = g[n - 1] + e[m[n]]
    <2>1. n \in 1 .. Len(l) - 1 /\ n \in 0 .. Len(l) - 1 /\ n - 1 \in 0 .. Len(l) - 1
          /\ n \in 1 .. Len(l) /\ n + 1 \in 1 .. Len(l)
      BY <1>lens
    <2>2. CASE n < k
      <3>1. g[n] = SumTo(l, d, n) /\ g[n - 1] = SumTo(l, d, n - 1)
        BY <2>1, <2>2
      <3>2. n \in 1 .. k - 1 /\ n # k /\ n # k + 1
        BY <1>1, <2>1, <2>2
      <3>3. m[n] = l[n]
        BY <1>4, <3>2
      <3>4. e[m[n]] = d[l[n]]
        BY <1>8, <2>1, <3>2, <3>3
      <3>5. QED
        BY <1>9, <2>1, <3>1, <3>4
    <2>3. CASE n = k
      <3>1. g[n] = SumTo(l, d, k + 1) /\ g[n - 1] = SumTo(l, d, k - 1)
        BY <2>1, <2>3
      <3>2. n \in k .. Len(l) - 1 /\ k + 1 # k /\ (k + 1) - 1 = k /\ k + 1 \in 1 .. Len(l)
        BY <1>1, <2>1, <2>3
      <3>3. m[n] = l[k + 1]
        BY <1>4, <2>3, <3>2
      <3>4. e[m[n]] = d[l[k + 1]] + d[l[k]]
        BY <1>8, <3>2, <3>3
      <3>5. SumTo(l, d, k + 1) = SumTo(l, d, k) + d[l[k + 1]]
        <4>1. SumTo(l, d, k + 1) = SumTo(l, d, (k + 1) - 1) + d[l[k + 1]]
          BY <1>9, <3>2
        <4>2. QED
          BY <3>2, <4>1
      <3>6. SumTo(l, d, k) = SumTo(l, d, k - 1) + d[l[k]]
        BY <1>9
      <3>7. d[l[k + 1]] \in Nat /\ d[l[k]] \in Nat /\ SumTo(l, d, k - 1) \in Nat
        <4>1. k - 1 \in 0 .. Len(l)
          BY <1>1
        <4>2. QED
          BY <1>3, <1>5, <3>2, <4>1
      <3>8. QED
        BY <3>1, <3>4, <3>5, <3>6, <3>7
    <2>4. CASE n > k
      <3>1. g[n] = SumTo(l, d, n + 1) /\ g[n - 1] = SumTo(l, d, (n - 1) + 1)
        BY <2>1, <2>4
      <3>2. n \in k .. Len(l) - 1 /\ n + 1 # k /\ n + 1 # k + 1 /\ (n + 1) - 1 = (n - 1) + 1
        BY <1>lens, <2>1, <2>4
      <3>3. m[n] = l[n + 1]
        BY <1>4, <3>2
      <3>4. e[m[n]] = d[l[n + 1]]
        BY <1>8, <2>1, <3>2, <3>3
      <3>5. SumTo(l, d, n + 1) = SumTo(l, d, (n + 1) - 1) + d[l[n + 1]]
        BY <1>9, <2>1
      <3>6. QED
        BY <3>1, <3>2, <3>4, <3>5
    <2>5. QED
      BY <1>1, <2>1, <2>2, <2>3, <2>4
  <1>12. \A n \in 0 .. Len(l) - 1 : SumTo(m, e, n) = g[n]
    <2> HIDE DEF g
    <2>1. e \in [Timers -> Int] /\ m \in Seq(Timers)
      BY <1>4, <1>7
    <2>2. Accumulates(g, m, e)
      BY <1>10, <1>11 DEF Accumulates
    <2>3. \A n \in 0 .. Len(m) : SumTo(m, e, n) = g[n]
      BY <2>1, <2>2, SumUnique
    <2>4. QED
      BY <1>4, <2>3
  <1>13. RemovedAt(m, e, l, d, k)
    <2>1. ASSUME NEW n \in 1 .. k - 1 PROVE SumTo(m, e, n) = SumTo(l, d, n)
      <3>1. n \in 0 .. Len(l) - 1 /\ n < k
        BY <1>1
      <3>2. QED
        BY <1>12, <3>1
    <2>2. ASSUME NEW n \in k .. Len(l) - 1 PROVE SumTo(m, e, n) = SumTo(l, d, n + 1)
      <3>1. n \in 0 .. Len(l) - 1 /\ ~ (n < k)
        BY <1>1
      <3>2. QED
        BY <1>12, <3>1
    <2>3. QED
      BY <1>4, <2>1, <2>2 DEF RemovedAt
  <1>14. \A n \in 1 .. Len(m) : m[n] = IF n < k THEN l[n] ELSE l[n + 1]
    <2>1. \A n \in 1 .. Len(m) : n \in 1 .. k - 1 \/ (n \in k .. Len(l) - 1 /\ ~ (n < k))
      BY <1>lens
    <2>2. QED
      BY <1>4, <2>1
  <1>15. IsInjective(m)
    <2> SUFFICES ASSUME NEW a \in 1 .. Len(m), NEW b \in 1 .. Len(m), m[a] = m[b] PROVE a = b
      BY <1>4, NoneTwice
    <2>1. a \in 1 .. Len(l) /\ b \in 1 .. Len(l) /\ a + 1 \in 1 .. Len(l) /\ b + 1 \in 1 .. Len(l)
      BY <1>lens
    <2>2. l[IF a < k THEN a ELSE a + 1] = l[IF b < k THEN b ELSE b + 1]
      BY <1>14
    <2>3. (IF a < k THEN a ELSE a + 1) = (IF b < k THEN b ELSE b + 1)
      BY <1>2, <2>1, <2>2
    <2>4. QED
      BY <2>1, <2>3
  <1>16. \A u \in Timers \ ToSet(m) : e[u] = 0
    <2> SUFFICES ASSUME NEW u \in Timers \ ToSet(m), u # l[k] PROVE e[u] = 0
      BY <1>6
    <2>1. u \notin ToSet(l)
      <3> SUFFICES ASSUME NEW n \in 1 .. Len(l), u = l[n] PROVE FALSE
        BY <1>1, ToSetFacts
      <3>1. CASE n < k
        <4>1. n \in 1 .. Len(m)
          BY <1>lens, <3>1
        <4>2. m[n] = u
          BY <1>14, <3>1, <4>1
        <4>3. QED
          BY <1>4, <4>1, <4>2, ToSetFacts
      <3>2. CASE n > k
        <4>1. n - 1 \in 1 .. Len(m) /\ ~ (n - 1 < k) /\ (n - 1) + 1 = n
          BY <1>lens, <3>2
        <4>2. m[n - 1] = u
          BY <1>14, <4>1
        <4>3. QED
          BY <1>4, <4>1, <4>2, ToSetFacts
      <3>3. QED
        BY <1>lens, <3>1, <3>2
    <2>2. k # Len(l) => l[k + 1] \in ToSet(l)
      <3>1. k # Len(l) => k + 1 \in 1 .. Len(l)
        BY <1>1
      <3>2. QED
        BY <1>1, <3>1, ToSetFacts
    <2>3. QED
      BY <1>6, <2>1, <2>2 DEF IsTimerList
  <1>17. QED
    BY <1>4, <1>7, <1>13, <1>15, <1>16 DEF IsTimerList, m, e

\* The list m is what is left of l when the first k timers have gone.
LeftFrom(m, e, l, d, ticks, k) ==
  /\ Len(m) = Len(l) - k
  /\ \A n \in 1 .. Len(l) - k :
       m[n] = l[k + n] /\ SumTo(m, e, n) = SumTo(l, d, k + n) - ticks

\* The deltas after list_deletions_handler and expired_timers_handler.
DeltaLeft(m, d, over) ==
  [t \in Timers |-> IF t \notin ToSet(m) THEN 0
                    ELSE IF t = m[1] THEN d[t] - over ELSE d[t]]

LEMMA ExpireSums ==
  ASSUME NEW l, NEW d, IsTimerList(l, d), NEW k \in 0 .. Len(l), NEW ticks \in Nat,
         SumTo(l, d, k) <= ticks, k = Len(l) \/ ticks <= SumTo(l, d, k + 1)
  PROVE  /\ IsTimerList(SubSeq(l, k + 1, Len(l)),
                        DeltaLeft(SubSeq(l, k + 1, Len(l)), d, ticks - SumTo(l, d, k)))
         /\ LeftFrom(SubSeq(l, k + 1, Len(l)),
                     DeltaLeft(SubSeq(l, k + 1, Len(l)), d, ticks - SumTo(l, d, k)),
                     l, d, ticks, k)
  <1> DEFINE m == SubSeq(l, k + 1, Len(l))
             over == ticks - SumTo(l, d, k)
             e == DeltaLeft(m, d, over)
             g == [n \in 0 .. Len(l) - k |-> IF n = 0 THEN 0 ELSE SumTo(l, d, k + n) - ticks]
  <1>1. l \in Seq(Timers) /\ d \in [Timers -> Nat] /\ d \in [Timers -> Int] /\ Len(l) \in Nat
    BY DEF IsTimerList
  <1>2. \A a, b \in 1 .. Len(l) : l[a] = l[b] => a = b
    BY <1>1 DEF IsTimerList, IsInjective
  <1>3. \A n \in 1 .. Len(l) : l[n] \in Timers /\ d[l[n]] \in Nat
    BY <1>1
  <1>4. /\ m \in Seq(Timers) /\ Len(m) = Len(l) - k
        /\ \A n \in 1 .. Len(l) - k : m[n] = l[k + n]
    BY <1>1
  <1>lens. Len(l) \in Nat /\ Len(m) = Len(l) - k
    BY <1>1, <1>4
  <1>5. \A n \in 0 .. Len(l) : SumTo(l, d, n) \in Nat
    BY <1>1, SumGrows
  <1>6. over \in Nat
    BY <1>5
  <1>7. \A n \in 1 .. Len(l) : SumTo(l, d, n) = SumTo(l, d, n - 1) + d[l[n]]
    BY <1>1, SumFacts
  <1>8. Len(m) # 0 => 1 \in 1 .. Len(l) - k /\ k + 1 \in 1 .. Len(l)
                      /\ m[1] = l[k + 1] /\ SumTo(l, d, k + 1) = SumTo(l, d, k) + d[l[k + 1]]
                      /\ d[l[k + 1]] - over \in Nat
    <2> SUFFICES ASSUME Len(m) # 0
                 PROVE  1 \in 1 .. Len(l) - k /\ k + 1 \in 1 .. Len(l)
                      /\ m[1] = l[k + 1] /\ SumTo(l, d, k + 1) = SumTo(l, d, k) + d[l[k + 1]]
                      /\ d[l[k + 1]] - over \in Nat
      OBVIOUS
    <2>1. 1 \in 1 .. Len(l) - k /\ k + 1 \in 1 .. Len(l) /\ (k + 1) - 1 = k /\ k # Len(l)
      <3> HIDE DEF m
      <3>1. QED
        BY <1>lens
    <2>2. m[1] = l[k + 1]
      BY <1>4, <2>1
    <2>3. SumTo(l, d, k + 1) = SumTo(l, d, k) + d[l[k + 1]]
      <3>1. SumTo(l, d, k + 1) = SumTo(l, d, (k + 1) - 1) + d[l[k + 1]]
        BY <1>7, <2>1
      <3>2. QED
        BY <2>1, <3>1
    <2>4. ticks <= SumTo(l, d, k + 1)
      BY <2>1
    <2>5. d[l[k + 1]] \in Nat
      BY <1>3, <2>1
    <2>6. QED
      BY <1>5, <2>1, <2>2, <2>3, <2>4, <2>5
  <1>9. e = [t \in Timers |-> IF t \notin ToSet(m) THEN 0
                              ELSE IF t = m[1] THEN d[t] - over ELSE d[t]]
    BY DEF DeltaLeft
  <1>10. \A t \in ToSet(m) : Len(m) # 0
    <2> SUFFICES ASSUME NEW t \in ToSet(m) PROVE Len(m) # 0
      OBVIOUS
    <2>1. m \in Seq(Timers)
      BY <1>4
    <2> HIDE DEF m
    <2>2. PICK n \in 1 .. Len(m) : m[n] = t
      BY <2>1, ToSetFacts
    <2>3. QED
      OBVIOUS
  <1> HIDE DEF m, e, over
  <1>11. e \in [Timers -> Nat]
    <2>1. ASSUME NEW t \in Timers, t \in ToSet(m), t = m[1] PROVE d[t] - over \in Nat
      BY <1>8, <1>10, <2>1
    <2>2. QED
      BY <1>1, <1>9, <2>1
  <1>12. \A n \in 1 .. Len(m) : e[m[n]] = IF n = 1 THEN d[l[k + 1]] - over ELSE d[l[k + n]]
    <2> SUFFICES ASSUME NEW n \in 1 .. Len(m)
                 PROVE  e[m[n]] = IF n = 1 THEN d[l[k + 1]] - over ELSE d[l[k + n]]
      OBVIOUS
    <2>1. m[n] \in ToSet(m) /\ m[n] \in Timers
      BY <1>4, ToSetFacts
    <2>2. n \in 1 .. Len(l) - k /\ k + n \in 1 .. Len(l) /\ Len(m) # 0 /\ (n # 1 => k + n # k + 1)
      BY <1>lens
    <2>3. m[n] = l[k + n]
      BY <1>4, <2>2
    <2>4. n # 1 => m[n] # m[1]
      BY <1>2, <1>8, <2>2, <2>3
    <2>5. QED
      BY <1>8, <1>9, <2>1, <2>2, <2>3, <2>4
  <1>13. ASSUME NEW n \in 1 .. Len(m) PROVE g[n] = g[n - 1] + e[m[n]]
    <2>1. n \in 1 .. Len(l) - k /\ n \in 0 .. Len(l) - k /\ n - 1 \in 0 .. Len(l) - k
          /\ k + n \in 1 .. Len(l) /\ Len(m) # 0 /\ (k + n) - 1 = k + (n - 1)
      BY <1>lens
    <2>2. g[n] = SumTo(l, d, k + n) - ticks
      BY <2>1
    <2>3. CASE n = 1
      <3>1. g[n - 1] = 0
        BY <2>1, <2>3
      <3>2. e[m[n]] = d[l[k + 1]] - over
        BY <1>12, <2>3
      <3>3. SumTo(l, d, k + 1) - ticks = d[l[k + 1]] - over
        <4>1. SumTo(l, d, k + 1) = SumTo(l, d, k) + d[l[k + 1]] /\ d[l[k + 1]] \in Nat
          BY <1>3, <1>8, <2>1
        <4>2. SumTo(l, d, k) \in Nat
          BY <1>5
        <4>3. QED
          BY <4>1, <4>2 DEF over
      <3>4. d[l[k + 1]] - over \in Nat
        BY <1>8, <2>1
      <3>5. QED
        BY <2>2, <2>3, <3>1, <3>2, <3>3, <3>4
    <2>4. CASE n # 1
      <3>1. g[n - 1] = SumTo(l, d, k + (n - 1)) - ticks
        BY <2>1, <2>4
      <3>2. e[m[n]] = d[l[k + n]]
        BY <1>12, <2>4
      <3>3. SumTo(l, d, k + n) = SumTo(l, d, k + (n - 1)) + d[l[k + n]]
        <4>1. SumTo(l, d, k + n) = SumTo(l, d, (k + n) - 1) + d[l[k + n]]
          BY <1>7, <2>1
        <4>2. QED
          BY <2>1, <4>1
      <3>4. SumTo(l, d, k + (n - 1)) \in Nat /\ d[l[k + n]] \in Nat
        <4>1. k + (n - 1) \in 0 .. Len(l)
          BY <1>1, <2>1
        <4>2. QED
          BY <1>3, <1>5, <2>1, <4>1
      <3>5. QED
        BY <2>2, <3>1, <3>2, <3>3, <3>4
    <2>5. QED
      BY <2>3, <2>4
  <1>14. \A n \in 0 .. Len(l) - k : SumTo(m, e, n) = g[n]
    <2>1. e \in [Timers -> Int] /\ m \in Seq(Timers)
      BY <1>4, <1>11
    <2>2. g[0] = 0
      BY <1>1
    <2> HIDE DEF g
    <2>3. Accumulates(g, m, e)
      BY <1>13, <2>2 DEF Accumulates
    <2>4. \A n \in 0 .. Len(m) : SumTo(m, e, n) = g[n]
      BY <2>1, <2>3, SumUnique
    <2>5. QED
      BY <1>4, <2>4
  <1>15. LeftFrom(m, e, l, d, ticks, k)
    <2>1. ASSUME NEW n \in 1 .. Len(l) - k PROVE SumTo(m, e, n) = SumTo(l, d, k + n) - ticks
      <3>1. n \in 0 .. Len(l) - k /\ n # 0
        BY <1>1
      <3>2. QED
        BY <1>14, <3>1
    <2>2. QED
      BY <1>4, <2>1 DEF LeftFrom
  <1>16. IsInjective(m)
    <2> SUFFICES ASSUME NEW a \in 1 .. Len(m), NEW b \in 1 .. Len(m), m[a] = m[b] PROVE a = b
      BY <1>1, <1>4 DEF IsInjective
    <2>1. k + a \in 1 .. Len(l) /\ k + b \in 1 .. Len(l) /\ a \in 1 .. Len(l) - k /\ b \in 1 .. Len(l) - k
      BY <1>lens
    <2>2. l[k + a] = l[k + b]
      BY <1>4, <2>1
    <2>3. k + a = k + b
      BY <1>2, <2>1, <2>2
    <2>4. QED
      BY <2>1, <2>3
  <1>17. \A u \in Timers \ ToSet(m) : e[u] = 0
    BY <1>9
  <1>18. QED
    BY <1>4, <1>11, <1>15, <1>16, <1>17 DEF IsTimerList, m, e, over

-------------------------------------------------------------------------------
(*****************************************************************************)
(* The three operations on a list.                                          *)
(*****************************************************************************)

\* What the loops of the two handlers go through.
Lists == [list : Seq(Timers), delta : [Timers -> Nat]]
Nodes == [list : Seq(Timers), delta : [Timers -> Nat],
          due : [Timers -> 0 .. Wrap - 1], runs : [Timers -> 0 .. 2]]

LEMMA ExpiredInFacts ==
  ASSUME NEW l, NEW d, IsTimerList(l, d), NEW ticks \in Nat
  PROVE  /\ ExpiredIn(l, d, ticks) \in 0 .. Len(l)
         /\ SumTo(l, d, ExpiredIn(l, d, ticks)) <= ticks
         /\ ExpiredIn(l, d, ticks) = Len(l)
            \/ ticks < SumTo(l, d, ExpiredIn(l, d, ticks) + 1)
  <1> DEFINE T == {k \in 0 .. Len(l) : SumTo(l, d, k) <= ticks}
             x == ExpiredIn(l, d, ticks)
  <1>1. l \in Seq(Timers) /\ d \in [Timers -> Nat] /\ d \in [Timers -> Int] /\ Len(l) \in Nat
    BY DEF IsTimerList
  <1>2. 0 \in T
    <2>1. SumTo(l, d, 0) = 0
      BY <1>1, SumFacts
    <2>2. QED
      BY <1>1, <2>1
  <1>3. x = Max(T)
    BY DEF ExpiredIn
  <1>4. x \in T /\ \A y \in T : y <= x
    <2>1. T \in SUBSET (0 .. Len(l)) /\ T # {}
      BY <1>2
    <2> HIDE DEF T
    <2>2. QED
      BY <1>1, <1>3, <2>1, LastPlace
  <1>5. x = Len(l) \/ ticks < SumTo(l, d, x + 1)
    <2> SUFFICES ASSUME x # Len(l) PROVE ticks < SumTo(l, d, x + 1)
      OBVIOUS
    <2>1. x \in 0 .. Len(l) /\ x + 1 \in 0 .. Len(l)
      BY <1>1, <1>4
    <2>2. x + 1 \notin T
      BY <1>4, <2>1
    <2>3. ~ (SumTo(l, d, x + 1) <= ticks)
      BY <2>1, <2>2
    <2>4. SumTo(l, d, x + 1) \in Int
      BY <1>1, <2>1, SumFacts
    <2>5. QED
      BY <2>3, <2>4
  <1>6. QED
    BY <1>4, <1>5

\* The places of the list that have expired are the first ones.
LEMMA ExpiredPlaces ==
  ASSUME NEW l, NEW d, IsTimerList(l, d), NEW ticks \in Nat, NEW n \in 1 .. Len(l)
  PROVE  n <= ExpiredIn(l, d, ticks) <=> SumTo(l, d, n) <= ticks
  <1> DEFINE x == ExpiredIn(l, d, ticks)
  <1>1. l \in Seq(Timers) /\ d \in [Timers -> Nat] /\ Len(l) \in Nat
    BY DEF IsTimerList
  <1>2. x \in 0 .. Len(l) /\ SumTo(l, d, x) <= ticks /\ (x = Len(l) \/ ticks < SumTo(l, d, x + 1))
    BY ExpiredInFacts
  <1> HIDE DEF x
  <1>3. \A k \in 0 .. Len(l) : SumTo(l, d, k) \in Nat
    BY <1>1, SumGrows
  <1>4. n <= x => SumTo(l, d, n) <= ticks
    <2>1. n <= x => SumTo(l, d, n) <= SumTo(l, d, x)
      BY <1>1, <1>2, SumGrows
    <2>2. SumTo(l, d, n) \in Nat /\ SumTo(l, d, x) \in Nat
      BY <1>2, <1>3
    <2>3. QED
      BY <1>2, <2>1, <2>2
  <1>5. ~ (n <= x) => ~ (SumTo(l, d, n) <= ticks)
    <2> SUFFICES ASSUME ~ (n <= x) PROVE ~ (SumTo(l, d, n) <= ticks)
      OBVIOUS
    <2>1. x # Len(l) /\ x + 1 \in 0 .. Len(l) /\ n \in 0 .. Len(l) /\ x + 1 <= n
      BY <1>1, <1>2
    <2>2. SumTo(l, d, x + 1) <= SumTo(l, d, n)
      BY <1>1, <2>1, SumGrows
    <2>3. SumTo(l, d, n) \in Nat /\ SumTo(l, d, x + 1) \in Nat
      BY <1>3, <2>1
    <2>4. QED
      BY <1>2, <2>1, <2>2, <2>3
  <1>6. QED
    BY <1>4, <1>5 DEF x

\* s after timer_list_insert.
Insertion(r, s, t, ticks) ==
  /\ r \in Nodes /\ IsTimerList(r.list, r.delta)
  /\ r.due = s.due /\ r.runs = s.runs
  /\ \E k \in 0 .. Len(s.list) :
       InsertedAt(r.list, r.delta, s.list, s.delta, t, ticks, k)

LEMMA InsertStep ==
  ASSUME NEW s \in Nodes, IsTimerList(s.list, s.delta),
         NEW t \in Timers \ ToSet(s.list), NEW ticks \in Nat
  PROVE  Insertion(timer_list_insert(s, t, ticks), s, t, ticks)
  <1> DEFINE l == s.list
             d == s.delta
             T == {n \in 0 .. Len(l) : n = Len(l) \/ ticks <= SumTo(l, d, n + 1)}
             k == Min(T)
             r == timer_list_insert(s, t, ticks)
  <1>1. l \in Seq(Timers) /\ d \in [Timers -> Nat] /\ d \in [Timers -> Int] /\ Len(l) \in Nat
    BY DEF IsTimerList
  <1>2. k \in T /\ \A j \in T : k <= j
    <2>1. T \in SUBSET Nat /\ Len(l) \in T
      BY <1>1
    <2> HIDE DEF T
    <2>2. QED
      BY <2>1, FirstPlace
  <1>3. k \in 0 .. Len(l) /\ (k = Len(l) \/ ticks <= SumTo(l, d, k + 1))
    <2> HIDE DEF k
    <2>1. QED
      BY <1>2
  <1>4. \A j \in 0 .. k - 1 : j # Len(l) /\ SumTo(l, d, j + 1) < ticks
    <2> HIDE DEF k
    <2> SUFFICES ASSUME NEW j \in 0 .. k - 1 PROVE j # Len(l) /\ SumTo(l, d, j + 1) < ticks
      OBVIOUS
    <2>1. j \in 0 .. Len(l) /\ ~ (k <= j) /\ j # Len(l)
      BY <1>1, <1>3
    <2>2. j \notin T
      BY <1>2, <2>1
    <2>3. ~ (ticks <= SumTo(l, d, j + 1))
      BY <2>1, <2>2
    <2>4. j + 1 \in 0 .. Len(l)
      BY <1>1, <2>1
    <2>5. SumTo(l, d, j + 1) \in Int
      BY <1>1, <2>4, SumFacts
    <2>6. QED
      BY <2>1, <2>3, <2>5
  <1>5. r = [s EXCEPT !.list = InsertAt(l, k + 1, t), !.delta = DeltaInserted(l, d, t, ticks, k)]
    BY DEF timer_list_insert, DeltaInserted
  <1> HIDE DEF k, T, r
  <1>6. /\ IsTimerList(InsertAt(l, k + 1, t), DeltaInserted(l, d, t, ticks, k))
        /\ InsertedAt(InsertAt(l, k + 1, t), DeltaInserted(l, d, t, ticks, k), l, d, t, ticks, k)
    BY <1>3, <1>4, InsertSums
  <1>7. /\ r.list = InsertAt(l, k + 1, t)
        /\ r.delta = DeltaInserted(l, d, t, ticks, k)
        /\ r.due = s.due /\ r.runs = s.runs
    BY <1>5 DEF Nodes
  <1>8. r \in Nodes
    <2>1. InsertAt(l, k + 1, t) \in Seq(Timers) /\ DeltaInserted(l, d, t, ticks, k) \in [Timers -> Nat]
      BY <1>6 DEF IsTimerList
    <2>2. QED
      BY <1>5, <2>1 DEF Nodes
  <1>9. \E j \in 0 .. Len(s.list) : InsertedAt(r.list, r.delta, s.list, s.delta, t, ticks, j)
    BY <1>3, <1>6, <1>7
  <1>10. QED
    BY <1>6, <1>7, <1>8, <1>9 DEF Insertion, r

\* s after timer_list_remove.
Removal(r, s, t) ==
  /\ r \in Lists /\ IsTimerList(r.list, r.delta)
  /\ \E k \in 1 .. Len(s.list) :
       s.list[k] = t /\ RemovedAt(r.list, r.delta, s.list, s.delta, k)

LEMMA RemoveStep ==
  ASSUME NEW s \in Lists, IsTimerList(s.list, s.delta), NEW t \in ToSet(s.list)
  PROVE  Removal(timer_list_remove(s, t), s, t)
  <1> DEFINE l == s.list
             d == s.delta
             k == CHOOSE n \in DOMAIN l : l[n] = t
             r == timer_list_remove(s, t)
  <1>1. l \in Seq(Timers) /\ d \in [Timers -> Nat] /\ DOMAIN l = 1 .. Len(l)
    BY DEF IsTimerList
  <1>2. k \in 1 .. Len(l) /\ l[k] = t
    <2>1. \E n \in DOMAIN l : l[n] = t
      BY <1>1, ToSetFacts
    <2>2. QED
      BY <1>1, <2>1
  <1>3. r = [s EXCEPT !.list = RemoveAt(l, k), !.delta = DeltaRemoved(l, d, k)]
    <2>1. d[l[k]] = d[t]
      BY <1>2
    <2>2. DeltaRemoved(l, d, k)
          = [u \in Timers |-> IF u = t THEN 0
                              ELSE IF u \in (IF k = Len(l) THEN {} ELSE {l[k + 1]})
                              THEN d[u] + d[t] ELSE d[u]]
      BY <1>2, <2>1 DEF DeltaRemoved
    <2>3. QED
      BY <2>2 DEF timer_list_remove
  <1> HIDE DEF k, r
  <1>4. /\ IsTimerList(RemoveAt(l, k), DeltaRemoved(l, d, k))
        /\ RemovedAt(RemoveAt(l, k), DeltaRemoved(l, d, k), l, d, k)
    BY <1>2, RemoveSums
  <1>5. r.list = RemoveAt(l, k) /\ r.delta = DeltaRemoved(l, d, k)
    BY <1>3 DEF Lists
  <1>6. r \in Lists
    <2>1. RemoveAt(l, k) \in Seq(Timers) /\ DeltaRemoved(l, d, k) \in [Timers -> Nat]
      BY <1>4 DEF IsTimerList
    <2>2. QED
      BY <1>3, <2>1 DEF Lists
  <1>7. \E j \in 1 .. Len(s.list) : s.list[j] = t /\ RemovedAt(r.list, r.delta, s.list, s.delta, j)
    BY <1>2, <1>4, <1>5
  <1>8. QED
    BY <1>4, <1>5, <1>6, <1>7 DEF Removal, r

-------------------------------------------------------------------------------
(*****************************************************************************)
(* Counter values, and the requests of the three queues.                    *)
(*****************************************************************************)

Counts == 0 .. Wrap - 1
Requests == [type : {"start", "stop"}, timer : Timers, ticks_at_start : Counts]

LEMMA Parameters ==
  /\ Cardinality(Timers) \in Nat /\ Cardinality(Timers) >= 2
  /\ Jitter \in Nat /\ Jitter = 3 * (Cardinality(Timers) - 1) + 2 * MaxLag
  /\ Wrap \in Nat /\ Wrap > 6 /\ MaxLag \in Nat
  /\ \A t \in Timers : Interval[t] \in Nat /\ Jitter < Interval[t]
                       /\ 2 * (Interval[t] + Jitter + 1) < Wrap
  <1>1. Cardinality(Timers) \in Nat
    BY TimerAssumption, FS_CardinalityType
  <1>2. Cardinality(Timers) >= 2
    <2>1. BootTimer \in Timers /\ EdgeTimer \in Timers /\ BootTimer # EdgeTimer
      BY TimerAssumption
    <2>2. IsFiniteSet({BootTimer}) /\ Cardinality({BootTimer}) = 1
      BY FS_Singleton
    <2>3. Cardinality({BootTimer} \union {EdgeTimer}) = 2
      <3>1. EdgeTimer \notin {BootTimer}
        BY <2>1
      <3>2. Cardinality({BootTimer} \union {EdgeTimer}) = Cardinality({BootTimer}) + 1
        BY <2>2, <3>1, FS_AddElement
      <3>3. QED
        BY <2>2, <3>2
    <2>4. {BootTimer} \union {EdgeTimer} \subseteq Timers
      BY <2>1
    <2>5. Cardinality({BootTimer} \union {EdgeTimer}) <= Cardinality(Timers)
      BY <2>4, TimerAssumption, FS_Subset
    <2>6. QED
      BY <2>3, <2>5
  <1>3. Jitter \in Nat /\ Jitter = 3 * (Cardinality(Timers) - 1) + 2 * MaxLag /\ Jitter >= 3
    BY <1>1, <1>2, TimerAssumption DEF Jitter, OffsetMin
  <1>4. \A t \in Timers : Interval[t] \in Nat
    BY TimerAssumption
  <1>5. Wrap > 6
    <2>1. BootTimer \in Timers /\ Interval[BootTimer] \in Nat
          /\ 2 * (Interval[BootTimer] + Jitter + 1) < Wrap /\ Wrap \in Nat
      BY <1>4, TimerAssumption
    <2>2. QED
      BY <1>3, <2>1
  <1>6. QED
    BY <1>1, <1>2, <1>3, <1>4, <1>5, TimerAssumption

LEMMA OnceAround ==
  ASSUME NEW a \in Nat, NEW m \in Nat, m <= a, a < 2 * m
  PROVE  a % m = a - m
  OBVIOUS

\* Counter values, without the modulus.
LEMMA LaterFacts ==
  ASSUME NEW n \in Counts, NEW k \in Counts
  PROVE  Later(n, k) \in Counts /\ Later(n, k) = IF n + k < Wrap THEN n + k ELSE n + k - Wrap
  <1>1. Wrap \in Nat /\ Wrap > 6
    BY Parameters
  <1>2. n \in Nat /\ k \in Nat /\ n < Wrap /\ k < Wrap
    BY <1>1 DEF Counts
  <1>3. CASE n + k < Wrap
    <2>1. (n + k) % Wrap = n + k
      BY <1>1, <1>2, <1>3
    <2>2. QED
      BY <1>1, <1>2, <1>3, <2>1 DEF Later, Counts
  <1>4. CASE ~ (n + k < Wrap)
    <2>1. n + k \in Nat /\ Wrap <= n + k /\ n + k < 2 * Wrap
      BY <1>1, <1>2, <1>4
    <2>2. (n + k) % Wrap = n + k - Wrap
      <3> DEFINE x == n + k
      <3>1. x \in Nat /\ Wrap <= x /\ x < 2 * Wrap
        BY <2>1
      <3> HIDE DEF x
      <3>2. x % Wrap = x - Wrap
        BY <1>1, <3>1, OnceAround
      <3>3. QED
        BY <1>1, <1>2, <3>2 DEF x
    <2>3. QED
      BY <1>1, <1>2, <1>4, <2>2 DEF Later, Counts
  <1>5. QED
    BY <1>3, <1>4

LEMMA LaterType ==
  ASSUME NEW n \in Int, NEW k \in Int
  PROVE  Later(n, k) \in Counts
  <1>1. Wrap \in Nat /\ Wrap > 6
    BY Parameters
  <1>2. (n + k) % Wrap \in 0 .. Wrap - 1
    BY <1>1
  <1>3. QED
    BY <1>2 DEF Later, Counts

LEMMA DiffFacts ==
  ASSUME NEW a \in Counts, NEW b \in Counts
  PROVE  Diff(a, b) \in Counts /\ Diff(a, b) = IF b <= a THEN a - b ELSE a - b + Wrap
  <1>1. Wrap \in Nat /\ Wrap > 6
    BY Parameters
  <1>2. a \in Nat /\ b \in Nat /\ a < Wrap /\ b < Wrap
    BY <1>1 DEF Counts
  <1>3. CASE b <= a
    <2>1. a - b \in Nat /\ a - b < Wrap
      BY <1>1, <1>2, <1>3
    <2>2. (a - b) % Wrap = a - b
      BY <1>1, <2>1
    <2>3. QED
      BY <1>1, <1>2, <1>3, <2>2 DEF Diff, Counts
  <1>4. CASE ~ (b <= a)
    <2>1. a - b \in Int /\ a - b < 0 /\ 0 <= (a - b) + Wrap
      BY <1>1, <1>2, <1>4
    <2>2. (a - b) % Wrap = (a - b) + Wrap
      BY <1>1, <2>1
    <2>3. QED
      BY <1>1, <1>2, <1>4, <2>1, <2>2 DEF Diff, Counts
  <1>5. QED
    BY <1>3, <1>4

LEMMA ExpiryType ==
  ASSUME NEW start \in Counts, latest \in Counts, NEW t \in Timers
  PROVE  TicksToExpire(start, Interval[t]) \in Counts
  <1> DEFINE I == Interval[t]
             half == (Wrap - 1) \div 2
             ahead == Diff(start, latest)
             behind == Diff(latest, start)
  <1>1. Wrap \in Nat /\ Wrap > 6 /\ I \in Nat /\ Jitter \in Nat /\ 2 * (I + Jitter + 1) < Wrap
    BY Parameters
  <1>2. ahead \in Counts /\ behind \in Counts
    BY DiffFacts
  <1>3. half \in Nat /\ 2 * half <= Wrap - 1
    <2>1. Wrap - 1 \in Nat
      BY <1>1
    <2>2. QED
      BY <2>1
  <1>4. TicksToExpire(start, I) = IF ahead < half THEN ahead + I
                                  ELSE IF I > behind THEN I - behind ELSE 0
    BY DEF TicksToExpire
  <1> HIDE DEF I, half, ahead, behind
  <1>5. (IF ahead < half THEN ahead + I ELSE IF I > behind THEN I - behind ELSE 0) \in 0 .. Wrap - 1
    BY <1>1, <1>2, <1>3 DEF Counts
  <1>6. QED
    BY <1>4, <1>5 DEF Counts, I

LEMMA ConcatFacts ==
  ASSUME NEW S, NEW a \in Seq(S), NEW b \in Seq(S)
  PROVE  /\ a \o b \in Seq(S) /\ Len(a \o b) = Len(a) + Len(b)
         /\ \A i \in 1 .. Len(a) : (a \o b)[i] = a[i]
         /\ \A i \in 1 .. Len(b) : (a \o b)[Len(a) + i] = b[i]
  <1>1. a \o b \in Seq(S) /\ Len(a \o b) = Len(a) + Len(b)
    OBVIOUS
  <1>2. ASSUME NEW i \in 1 .. Len(a) PROVE (a \o b)[i] = a[i]
    OBVIOUS
  <1>3. ASSUME NEW i \in 1 .. Len(b) PROVE (a \o b)[Len(a) + i] = b[i]
    <2>1. Len(a) + i \in 1 .. Len(a) + Len(b) /\ ~ (Len(a) + i <= Len(a))
          /\ (Len(a) + i) - Len(a) = i
      OBVIOUS
    <2>2. QED
      BY <2>1
  <1>4. QED
    BY <1>1, <1>2, <1>3

\* Where the members of two sequences are when they are one.
Joined(q, a, b) ==
  /\ Len(q) = Len(a) + Len(b)
  /\ \A i \in 1 .. Len(a) : \E j \in 1 .. Len(q) : q[j] = a[i]
  /\ \A i \in 1 .. Len(b) : \E j \in 1 .. Len(q) : q[j] = b[i]
  /\ \A j \in 1 .. Len(q) : \/ \E i \in 1 .. Len(a) : q[j] = a[i]
                            \/ \E i \in 1 .. Len(b) : q[j] = b[i]

LEMMA JoinedFacts ==
  ASSUME NEW S, NEW a \in Seq(S), NEW b \in Seq(S)
  PROVE  a \o b \in Seq(S) /\ Joined(a \o b, a, b)
  <1> DEFINE q == a \o b
  <1>1. /\ q \in Seq(S) /\ Len(q) = Len(a) + Len(b)
        /\ \A i \in 1 .. Len(a) : q[i] = a[i]
        /\ \A i \in 1 .. Len(b) : q[Len(a) + i] = b[i]
    BY ConcatFacts
  <1>2. Len(a) \in Nat /\ Len(b) \in Nat
    OBVIOUS
  <1> HIDE DEF q
  <1>3. ASSUME NEW i \in 1 .. Len(a) PROVE \E j \in 1 .. Len(q) : q[j] = a[i]
    <2>1. i \in 1 .. Len(q) /\ q[i] = a[i]
      BY <1>1, <1>2
    <2>2. QED
      BY <2>1
  <1>4. ASSUME NEW i \in 1 .. Len(b) PROVE \E j \in 1 .. Len(q) : q[j] = b[i]
    <2>1. Len(a) + i \in 1 .. Len(q) /\ q[Len(a) + i] = b[i]
      BY <1>1, <1>2
    <2>2. QED
      BY <2>1
  <1>5. ASSUME NEW j \in 1 .. Len(q)
        PROVE  \/ \E i \in 1 .. Len(a) : q[j] = a[i]
               \/ \E i \in 1 .. Len(b) : q[j] = b[i]
    <2>1. CASE j <= Len(a)
      <3>1. j \in 1 .. Len(a) /\ q[j] = a[j]
        BY <1>1, <1>2, <2>1
      <3>2. QED
        BY <3>1
    <2>2. CASE j > Len(a)
      <3>1. j - Len(a) \in 1 .. Len(b) /\ Len(a) + (j - Len(a)) = j
        BY <1>1, <1>2, <2>2
      <3>2. q[j] = b[j - Len(a)]
        BY <1>1, <3>1
      <3>3. QED
        BY <3>1, <3>2
    <2>3. QED
      BY <1>1, <1>2, <2>1, <2>2
  <1>6. Joined(q, a, b)
    <2>1. Len(q) = Len(a) + Len(b)
      BY <1>1
    <2>2. QED
      BY <2>1, <1>3, <1>4, <1>5 DEF Joined
  <1>7. QED
    BY <1>1, <1>6 DEF q

\* The queues, one after the other.
LEMMA QueuedFacts ==
  ASSUME ops \in [ToSet(Users) -> Seq(Requests)]
  PROVE  /\ Queued \in Seq(Requests)
         /\ \A u \in DOMAIN ops : \A i \in 1 .. Len(ops[u]) :
              \E j \in 1 .. Len(Queued) : Queued[j] = ops[u][i]
         /\ \A j \in 1 .. Len(Queued) :
              \E u \in DOMAIN ops : \E i \in 1 .. Len(ops[u]) : Queued[j] = ops[u][i]
  <1> DEFINE a == ops["thread"]
             b == ops["low"]
             c == ops["high"]
             ab == a \o b
  <1>1. DOMAIN ops = {"thread", "low", "high"}
    <2>1. Users \in Seq({"thread", "low", "high"}) /\ Len(Users) = 3
          /\ Users[1] = "thread" /\ Users[2] = "low" /\ Users[3] = "high"
      BY DEF Users
    <2>2. ToSet(Users) = {"thread", "low", "high"}
      <3>1. \A n \in 1 .. 3 : Users[n] \in ToSet(Users)
        BY <2>1, ToSetFacts
      <3>2. \A x \in ToSet(Users) : x \in {"thread", "low", "high"}
        BY <2>1, ToSetFacts
      <3>3. {"thread", "low", "high"} \subseteq ToSet(Users)
        BY <2>1, <3>1
      <3>4. QED
        BY <3>2, <3>3
    <2>3. QED
      BY <2>2
  <1>2. a \in Seq(Requests) /\ b \in Seq(Requests) /\ c \in Seq(Requests)
    BY <1>1
  <1>3. Queued = ab \o c
    BY DEF Queued
  <1>4. ab \in Seq(Requests) /\ Joined(ab, a, b)
    BY <1>2, JoinedFacts
  <1> HIDE DEF ab, a, b, c
  <1>5. Queued \in Seq(Requests) /\ Joined(Queued, ab, c)
    BY <1>2, <1>3, <1>4, JoinedFacts
  <1>6. \A i \in 1 .. Len(a) : \E j \in 1 .. Len(Queued) : Queued[j] = a[i]
    BY <1>4, <1>5 DEF Joined
  <1>7. \A i \in 1 .. Len(b) : \E j \in 1 .. Len(Queued) : Queued[j] = b[i]
    BY <1>4, <1>5 DEF Joined
  <1>8. \A i \in 1 .. Len(c) : \E j \in 1 .. Len(Queued) : Queued[j] = c[i]
    BY <1>5 DEF Joined
  <1>9. \A u \in DOMAIN ops : \A i \in 1 .. Len(ops[u]) :
          \E j \in 1 .. Len(Queued) : Queued[j] = ops[u][i]
    BY <1>1, <1>6, <1>7, <1>8 DEF a, b, c
  <1>10. ASSUME NEW j \in 1 .. Len(Queued)
         PROVE  \/ \E i \in 1 .. Len(a) : Queued[j] = a[i]
                \/ \E i \in 1 .. Len(b) : Queued[j] = b[i]
                \/ \E i \in 1 .. Len(c) : Queued[j] = c[i]
    <2>1. CASE \E i \in 1 .. Len(c) : Queued[j] = c[i]
      BY <2>1
    <2>2. CASE \E i \in 1 .. Len(ab) : Queued[j] = ab[i]
      BY <1>4, <2>2 DEF Joined
    <2>3. QED
      BY <1>5, <2>1, <2>2 DEF Joined
  <1>11. \A j \in 1 .. Len(Queued) :
           \E u \in DOMAIN ops : \E i \in 1 .. Len(ops[u]) : Queued[j] = ops[u][i]
    BY <1>1, <1>10 DEF a, b, c
  <1>12. QED
    BY <1>5, <1>9, <1>11

-------------------------------------------------------------------------------
(*****************************************************************************)
(* The loop of list_deletions_handler.                                      *)
(*****************************************************************************)

\* The list m is what deletions leave of the list l: its timers are no further down,
\* and all further up if the head has gone.
Thinner(m, e, l, d) ==
  \A n \in 1 .. Len(m) : \E j \in n .. Len(l) :
    m[n] = l[j] /\ SumTo(m, e, n) = SumTo(l, d, j) /\ (j > n \/ m[1] = l[1])

LEMMA ThinnerByOne ==
  ASSUME NEW s \in Lists, NEW r, NEW t, IsTimerList(s.list, s.delta), Removal(r, s, t)
  PROVE  /\ Thinner(r.list, r.delta, s.list, s.delta)
         /\ \A u \in ToSet(s.list) : u = t \/ u \in ToSet(r.list)
  <1> DEFINE m == r.list
             l == s.list
  <1>1. PICK k \in 1 .. Len(l) : l[k] = t /\ RemovedAt(m, r.delta, l, s.delta, k)
    BY DEF Removal
  <1>2. m \in Seq(Timers) /\ l \in Seq(Timers) /\ Len(l) \in Nat /\ Len(m) = Len(l) - 1
    BY <1>1 DEF Removal, IsTimerList, RemovedAt
  <1>3. \A n \in 1 .. k - 1 : m[n] = l[n] /\ SumTo(m, r.delta, n) = SumTo(l, s.delta, n)
    BY <1>1 DEF RemovedAt
  <1>4. \A n \in k .. Len(l) - 1 : m[n] = l[n + 1] /\ SumTo(m, r.delta, n) = SumTo(l, s.delta, n + 1)
    BY <1>1 DEF RemovedAt
  <1> HIDE DEF m, l
  <1>5. ASSUME NEW n \in 1 .. Len(m)
        PROVE  \E j \in n .. Len(l) : m[n] = l[j] /\ SumTo(m, r.delta, n) = SumTo(l, s.delta, j)
                                      /\ (j > n \/ m[1] = l[1])
    <2>1. CASE n < k
      <3>1. n \in 1 .. k - 1 /\ n \in n .. Len(l) /\ 1 \in 1 .. k - 1
        BY <1>2, <2>1
      <3>2. QED
        BY <1>3, <3>1
    <2>2. CASE ~ (n < k)
      <3>1. n \in k .. Len(l) - 1 /\ n + 1 \in n .. Len(l) /\ n + 1 > n
        BY <1>2, <2>2
      <3>2. QED
        BY <1>4, <3>1
    <2>3. QED
      BY <2>1, <2>2
  <1>6. ASSUME NEW u \in ToSet(l) PROVE u = t \/ u \in ToSet(m)
    <2>1. PICK n \in 1 .. Len(l) : l[n] = u
      BY <1>2, ToSetFacts
    <2>2. CASE n < k
      <3>1. n \in 1 .. k - 1 /\ n \in 1 .. Len(m)
        BY <1>2, <2>2
      <3>2. QED
        BY <1>2, <1>3, <2>1, <3>1, ToSetFacts
    <2>3. CASE n > k
      <3>1. n - 1 \in k .. Len(l) - 1 /\ n - 1 \in 1 .. Len(m) /\ (n - 1) + 1 = n
        BY <1>2, <2>3
      <3>2. m[n - 1] = u
        BY <1>4, <2>1, <3>1
      <3>3. QED
        BY <1>2, <3>1, <3>2, ToSetFacts
    <2>4. QED
      BY <1>1, <2>1, <2>2, <2>3 DEF l
  <1>7. QED
    BY <1>5, <1>6 DEF Thinner, m, l

LEMMA ThinnerAgain ==
  ASSUME NEW l \in Seq(Timers), NEW d, NEW m \in Seq(Timers), NEW e, NEW o \in Seq(Timers), NEW f,
         Thinner(m, e, l, d), Thinner(o, f, m, e)
  PROVE  Thinner(o, f, l, d)
  <1> SUFFICES ASSUME NEW n \in 1 .. Len(o)
               PROVE  \E j \in n .. Len(l) : o[n] = l[j] /\ SumTo(o, f, n) = SumTo(l, d, j)
                                             /\ (j > n \/ o[1] = l[1])
    BY DEF Thinner
  <1>1. PICK i \in n .. Len(m) : o[n] = m[i] /\ SumTo(o, f, n) = SumTo(m, e, i)
                                 /\ (i > n \/ o[1] = m[1])
    BY DEF Thinner
  <1>2. i \in 1 .. Len(m)
    OBVIOUS
  <1>3. PICK j \in i .. Len(l) : m[i] = l[j] /\ SumTo(m, e, i) = SumTo(l, d, j)
                                 /\ (j > i \/ m[1] = l[1])
    BY <1>2 DEF Thinner
  <1>4. j \in n .. Len(l) /\ (i > n \/ j > i => j > n)
    OBVIOUS
  <1>5. QED
    BY <1>1, <1>3, <1>4

\* The list after list_deletions_handler.
Deleted == ForEach(DeleteNode, [list |-> list, delta |-> delta], Queued)

DeletedFrom(s, q) ==
  /\ s \in Lists /\ IsTimerList(s.list, s.delta)
  /\ Thinner(s.list, s.delta, list, delta)
  /\ \A t \in ToSet(list) : t \in ToSet(s.list)
                            \/ \E i \in 1 .. Len(q) : q[i].type = "stop" /\ q[i].timer = t

LEMMA DeletedFacts ==
  ASSUME IsTimerList(list, delta), Queued \in Seq(Requests)
  PROVE  DeletedFrom(Deleted, Queued)
  <1> DEFINE q == Queued
             T == {s \in Lists : DeletedFrom(s, q)}
             R == [n \in 0 .. Len(q) |-> T]
             s0 == [list |-> list, delta |-> delta]
  <1>1. list \in Seq(Timers) /\ delta \in [Timers -> Nat] /\ Len(list) \in Nat /\ Len(q) \in Nat
    BY DEF IsTimerList
  <1>2. DeletedFrom(s0, q)
    <2>1. s0 \in Lists /\ s0.list = list /\ s0.delta = delta
      BY <1>1 DEF Lists
    <2>2. \A n \in 1 .. Len(list) : n \in n .. Len(list)
      BY <1>1
    <2>3. QED
      BY <2>1, <2>2 DEF DeletedFrom, Thinner
  <1>3. s0 \in T
    BY <1>2 DEF DeletedFrom
  <1>4. ASSUME NEW n \in 1 .. Len(q), NEW s \in T PROVE DeleteNode(s, q[n]) \in T
    <2> DEFINE op == q[n]
    <2>1. s \in Lists /\ DeletedFrom(s, q) /\ IsTimerList(s.list, s.delta)
      BY DEF DeletedFrom
    <2>2. CASE op.type = "stop" /\ op.timer \in ToSet(s.list)
      <3> DEFINE r == timer_list_remove(s, op.timer)
      <3>1. DeleteNode(s, op) = r
        BY <2>2 DEF DeleteNode
      <3>2. Removal(r, s, op.timer)
        BY <2>1, <2>2, RemoveStep
      <3> HIDE DEF r
      <3>3. Thinner(r.list, r.delta, s.list, s.delta)
            /\ \A u \in ToSet(s.list) : u = op.timer \/ u \in ToSet(r.list)
        BY <2>1, <3>2, ThinnerByOne
      <3>4. r \in Lists /\ IsTimerList(r.list, r.delta) /\ r.list \in Seq(Timers) /\ s.list \in Seq(Timers)
        BY <2>1, <3>2 DEF Removal, IsTimerList
      <3>5. Thinner(r.list, r.delta, list, delta)
        BY <1>1, <2>1, <3>3, <3>4, ThinnerAgain DEF DeletedFrom
      <3>6. \A t \in ToSet(list) : t \in ToSet(r.list)
                                   \/ \E i \in 1 .. Len(q) : q[i].type = "stop" /\ q[i].timer = t
        <4> SUFFICES ASSUME NEW t \in ToSet(list), t \in ToSet(s.list)
                     PROVE  t \in ToSet(r.list)
                            \/ \E i \in 1 .. Len(q) : q[i].type = "stop" /\ q[i].timer = t
          BY <2>1 DEF DeletedFrom
        <4>1. CASE t = op.timer
          BY <2>2, <4>1
        <4>2. CASE t # op.timer
          BY <3>3, <4>2
        <4>3. QED
          BY <4>1, <4>2
      <3>7. DeletedFrom(r, q)
        BY <3>4, <3>5, <3>6 DEF DeletedFrom
      <3>8. QED
        BY <3>1, <3>4, <3>7
    <2>3. CASE ~ (op.type = "stop" /\ op.timer \in ToSet(s.list))
      BY <2>3 DEF DeleteNode
    <2>4. QED
      BY <2>2, <2>3
  <1>5. ForEach(DeleteNode, s0, q) \in R[Len(q)]
    <2>1. s0 \in R[0]
      BY <1>1, <1>3
    <2>2. \A n \in 1 .. Len(q) : \A s \in R[n - 1] : DeleteNode(s, q[n]) \in R[n]
      <3>1. \A n \in 1 .. Len(q) : R[n - 1] = T /\ R[n] = T
        <4> HIDE DEF T, q
        <4>1. QED
          BY <1>1
      <3> HIDE DEF T, R, q
      <3>2. QED
        BY <1>4, <3>1
    <2>3. q \in Seq(Requests)
      OBVIOUS
    <2> HIDE DEF R, s0, q
    <2>4. QED
      BY <2>1, <2>2, <2>3, DeleteLoop
  <1>6. R[Len(q)] = T
    <2> HIDE DEF T, q
    <2>1. QED
      BY <1>1
  <1>7. QED
    BY <1>5, <1>6 DEF Deleted

-------------------------------------------------------------------------------
(*****************************************************************************)
(* The loops of list_insertions_handler and expired_timers_handler.         *)
(*****************************************************************************)

\* When a start is to expire.
Expiry(op) == TicksToExpire(op.ticks_at_start, Interval[op.timer])

\* The n-th timer of s has been inserted for one of the requests q ...
Fresh(s, n, q) ==
  \E i \in 1 .. Len(q) :
    /\ q[i].type = "start" /\ q[i].timer = s.list[n] /\ q[i].timer \notin ToSet(list)
    /\ SumTo(s.list, s.delta, n) = Expiry(q[i])
    /\ s.due[s.list[n]] = Later(q[i].ticks_at_start, Interval[s.list[n]])

\* ... one that expires no later than it has been inserted ...
Before(s, n, q) ==
  \E i \in 1 .. Len(q) :
    q[i].type = "start" /\ Expiry(q[i]) <= SumTo(s.list, s.delta, n)

\* ... or it was in the list, and if further up there was an insertion before it.
Stays(s, n, q) ==
  \E j \in 1 .. Len(list) :
    /\ j <= n /\ s.list[n] = list[j]
    /\ SumTo(s.list, s.delta, n) = SumTo(list, delta, j)
    /\ s.due[list[j]] = due[list[j]]
    /\ j = n \/ Before(s, n, q)

InsertedFrom(s, q) ==
  /\ s \in Nodes /\ IsTimerList(s.list, s.delta)
  /\ \A t \in ToSet(list) : t \in ToSet(s.list)
  /\ \A n \in 1 .. Len(s.list) : Fresh(s, n, q) \/ Stays(s, n, q)

\* What one insertion does to all that.
LEMMA InsertedByOne ==
  ASSUME NEW q \in Seq(Requests), NEW i \in 1 .. Len(q),
         list \in Seq(Timers), latest \in Counts, NEW s, InsertedFrom(s, q),
         q[i].type = "start", q[i].timer \notin ToSet(s.list)
  PROVE  /\ InsertedFrom(InsertNode(s, q[i]), q)
         /\ \A t \in ToSet(s.list) \union {q[i].timer} : t \in ToSet(InsertNode(s, q[i]).list)
  <1> DEFINE op == q[i]
             t == op.timer
             ticks == Expiry(op)
             z == [s EXCEPT !.due[op.timer] = Later(op.ticks_at_start, Interval[op.timer]),
                            !.runs[op.timer] = 0]
             r == timer_list_insert(z, t, ticks)
             l == s.list
             m == r.list
  <1>1. op \in Requests /\ t \in Timers /\ op.ticks_at_start \in Counts
    <2>1. op \in Requests
      OBVIOUS
    <2> HIDE DEF op
    <2>2. QED
      BY <2>1 DEF Requests
  <1>2. InsertNode(s, op) = r
    BY DEF InsertNode, Expiry
  <1>3. ticks \in Nat
    <2>1. ticks \in Counts
      BY <1>1, ExpiryType DEF Expiry
    <2>2. QED
      BY <2>1, Parameters DEF Counts
  <1>4. s \in Nodes /\ IsTimerList(s.list, s.delta)
    BY DEF InsertedFrom
  <1>5. /\ z \in Nodes /\ z.list = s.list /\ z.delta = s.delta
        /\ z.due[t] = Later(op.ticks_at_start, Interval[t])
        /\ \A u \in Timers : u # t => z.due[u] = s.due[u]
    <2> DEFINE y == Later(op.ticks_at_start, Interval[t])
    <2>1. y \in 0 .. Wrap - 1
      <3> HIDE DEF t, op
      <3>1. Interval[t] \in Int /\ op.ticks_at_start \in Int
        <4>1. Interval[t] \in Nat /\ Wrap \in Nat
          BY <1>1, Parameters
        <4>2. QED
          BY <1>1, <4>1 DEF Counts
      <3>2. QED
        BY <3>1, LaterType DEF Counts
    <2>2. z = [s EXCEPT !.due[t] = y, !.runs[t] = 0]
      OBVIOUS
    <2> HIDE DEF y, z, t
    <2>3. QED
      <3>1. 0 \in 0 .. 2
        OBVIOUS
      <3>2. z \in Nodes /\ z.list = s.list /\ z.delta = s.delta
        BY <1>1, <1>4, <2>1, <2>2, <3>1 DEF Nodes
      <3>3. s.due \in [Timers -> 0 .. Wrap - 1] /\ z.due = [s.due EXCEPT ![t] = y]
        BY <1>4, <2>2 DEF Nodes
      <3>4. QED
        BY <1>1, <3>2, <3>3 DEF y
  <1>6. Insertion(r, z, t, ticks)
    <2> HIDE DEF z, ticks, t
    <2>1. t \in Timers \ ToSet(z.list)
      BY <1>1, <1>5 DEF t
    <2>2. IsTimerList(z.list, z.delta)
      BY <1>4, <1>5
    <2>3. QED
      BY <1>3, <1>5, <2>1, <2>2, InsertStep
  <1> HIDE DEF r, z, ticks, t
  <1>7. r \in Nodes /\ IsTimerList(m, r.delta) /\ r.due = z.due
    BY <1>6 DEF Insertion
  <1>8. PICK k \in 0 .. Len(l) : InsertedAt(m, r.delta, l, s.delta, t, ticks, k)
    BY <1>5, <1>6 DEF Insertion
  <1>9. l \in Seq(Timers) /\ m \in Seq(Timers) /\ Len(l) \in Nat /\ Len(m) = Len(l) + 1
    BY <1>4, <1>7, <1>8 DEF IsTimerList, InsertedAt
  <1>10. \A n \in 1 .. k : m[n] = l[n] /\ SumTo(m, r.delta, n) = SumTo(l, s.delta, n)
    BY <1>8 DEF InsertedAt
  <1>11. m[k + 1] = t /\ SumTo(m, r.delta, k + 1) = ticks
    BY <1>8 DEF InsertedAt
  <1>12. \A n \in k + 1 .. Len(l) : m[n + 1] = l[n] /\ SumTo(m, r.delta, n + 1) = SumTo(l, s.delta, n)
                                    /\ ticks <= SumTo(l, s.delta, n)
    BY <1>8 DEF InsertedAt
  <1>13. \A n \in 1 .. Len(l) : l[n] \in Timers /\ l[n] # t
    BY <1>9, ToSetFacts DEF t
  <1>14. \A u \in ToSet(l) \union {t} : u \in ToSet(m)
    <2>1. t \in ToSet(m)
      <3>1. k + 1 \in 1 .. Len(m)
        BY <1>9
      <3>2. QED
        BY <1>9, <1>11, <3>1, ToSetFacts
    <2>2. ASSUME NEW u \in ToSet(l) PROVE u \in ToSet(m)
      <3>1. PICK n \in 1 .. Len(l) : l[n] = u
        BY <1>9, ToSetFacts
      <3>2. CASE n <= k
        <4>1. n \in 1 .. k /\ n \in 1 .. Len(m)
          BY <1>9, <3>2
        <4>2. QED
          BY <1>9, <1>10, <3>1, <4>1, ToSetFacts
      <3>3. CASE n > k
        <4>1. n \in k + 1 .. Len(l) /\ n + 1 \in 1 .. Len(m)
          BY <1>9, <3>3
        <4>2. QED
          BY <1>9, <1>12, <3>1, <4>1, ToSetFacts
      <3>4. QED
        BY <1>9, <3>2, <3>3
    <2>3. QED
      BY <2>1, <2>2
  <1>15. t \notin ToSet(list)
    BY DEF InsertedFrom, t
  <1>16. \A n \in 1 .. Len(l) : r.due[l[n]] = s.due[l[n]]
    BY <1>5, <1>7, <1>13
  <1>17. \A j \in 1 .. Len(list) : list[j] \in Timers /\ r.due[list[j]] = s.due[list[j]]
    <2>1. \A j \in 1 .. Len(list) : list[j] \in Timers /\ list[j] # t
      BY <1>15, ToSetFacts
    <2>2. QED
      BY <1>5, <1>7, <2>1
  <1>18. ASSUME NEW n \in 1 .. Len(l), NEW o \in 1 .. Len(m), m[o] = l[n], n <= o,
                SumTo(m, r.delta, o) = SumTo(l, s.delta, n), n = o \/ Before(r, o, q)
         PROVE  Fresh(r, o, q) \/ Stays(r, o, q)
    <2>1. CASE Fresh(s, n, q)
      <3>1. PICK x \in 1 .. Len(q) :
              /\ q[x].type = "start" /\ q[x].timer = l[n] /\ q[x].timer \notin ToSet(list)
              /\ SumTo(l, s.delta, n) = Expiry(q[x])
              /\ s.due[l[n]] = Later(q[x].ticks_at_start, Interval[l[n]])
        BY <2>1 DEF Fresh
      <3>2. QED
        BY <1>16, <1>18, <3>1 DEF Fresh
    <2>2. CASE Stays(s, n, q)
      <3>1. PICK j \in 1 .. Len(list) :
              /\ j <= n /\ l[n] = list[j]
              /\ SumTo(l, s.delta, n) = SumTo(list, delta, j)
              /\ s.due[list[j]] = due[list[j]]
              /\ j = n \/ Before(s, n, q)
        BY <2>2 DEF Stays
      <3>2. Before(s, n, q) => Before(r, o, q)
        BY <1>18 DEF Before
      <3>3. j <= o /\ (j = o \/ Before(r, o, q))
        BY <1>9, <1>18, <3>1, <3>2
      <3>4. r.due[list[j]] = due[list[j]]
        BY <1>17, <3>1
      <3>5. QED
        BY <1>18, <3>1, <3>3, <3>4 DEF Stays
    <2>3. QED
      BY <2>1, <2>2 DEF InsertedFrom
  <1>19. ASSUME NEW o \in 1 .. Len(m) PROVE Fresh(r, o, q) \/ Stays(r, o, q)
    <2>1. CASE o <= k
      <3>1. o \in 1 .. k /\ o \in 1 .. Len(l) /\ o <= o
        BY <1>9, <2>1
      <3>2. QED
        BY <1>10, <1>18, <3>1
    <2>2. CASE o = k + 1
      <3>1. m[o] = t /\ SumTo(m, r.delta, o) = ticks /\ r.due[t] = Later(op.ticks_at_start, Interval[t])
        BY <1>5, <1>7, <1>11, <2>2
      <3>2. op.type = "start" /\ op.timer = m[o] /\ op.timer \notin ToSet(list)
        BY <1>15, <3>1 DEF t
      <3>3. QED
        BY <3>1, <3>2 DEF Fresh, ticks
    <2>3. CASE o > k + 1
      <3>1. o - 1 \in k + 1 .. Len(l) /\ (o - 1) + 1 = o /\ o - 1 \in 1 .. Len(l) /\ o - 1 <= o
        BY <1>9, <2>3
      <3>2. m[o] = l[o - 1] /\ SumTo(m, r.delta, o) = SumTo(l, s.delta, o - 1) /\ ticks <= SumTo(l, s.delta, o - 1)
        BY <1>12, <3>1
      <3>3. Before(r, o, q)
        BY <3>2 DEF Before, ticks
      <3>4. QED
        BY <1>18, <3>1, <3>2, <3>3
    <2>4. QED
      BY <1>9, <2>1, <2>2, <2>3
  <1>20. InsertedFrom(r, q)
    <2>1. \A u \in ToSet(list) : u \in ToSet(m)
      BY <1>14 DEF InsertedFrom
    <2>2. QED
      BY <1>7, <1>19, <2>1 DEF InsertedFrom
  <1>21. QED
    BY <1>2, <1>14, <1>20 DEF t

\* The list after list_insertions_handler.
Asked == restart \o Queued
Inserted == ForEach(InsertNode,
                    [list |-> list, delta |-> delta, due |-> due, runs |-> runs], Asked)

LEMMA InsertedFacts ==
  ASSUME IsTimerList(list, delta), Asked \in Seq(Requests), latest \in Counts,
         due \in [Timers -> Counts], runs \in [Timers -> 0 .. 2]
  PROVE  /\ InsertedFrom(Inserted, Asked)
         /\ \A i \in 1 .. Len(Asked) :
              Asked[i].type = "start" => Asked[i].timer \in ToSet(Inserted.list)
  <1> DEFINE q == Asked
             Done(s, n) == /\ InsertedFrom(s, q)
                           /\ \A i \in 1 .. n : q[i].type = "start" => q[i].timer \in ToSet(s.list)
             R == [n \in 0 .. Len(q) |-> {s \in Nodes : Done(s, n)}]
             s0 == [list |-> list, delta |-> delta, due |-> due, runs |-> runs]
  <1>1. list \in Seq(Timers) /\ delta \in [Timers -> Nat] /\ Len(list) \in Nat /\ Len(q) \in Nat
    BY DEF IsTimerList
  <1>2. s0 \in Nodes /\ Done(s0, 0)
    <2>1. s0 \in Nodes /\ s0.list = list /\ s0.delta = delta /\ s0.due = due
      BY <1>1 DEF Nodes, Counts
    <2>2. \A n \in 1 .. Len(list) : Stays(s0, n, q)
      BY <1>1, <2>1 DEF Stays
    <2> HIDE DEF s0
    <2>3. InsertedFrom(s0, q)
      BY <2>1, <2>2 DEF InsertedFrom
    <2>4. QED
      BY <2>1, <2>3
  <1>3. \A n \in 0 .. Len(q) : R[n] = {s \in Nodes : Done(s, n)}
    OBVIOUS
  <1>4. s0 \in R[0]
    <2>1. 0 \in 0 .. Len(q)
      BY <1>1
    <2> HIDE DEF R, Done, s0, q
    <2>2. QED
      BY <1>2, <1>3, <2>1
  <1>5. ASSUME NEW n \in 1 .. Len(q), NEW s \in Nodes, Done(s, n - 1)
        PROVE  InsertNode(s, q[n]) \in Nodes /\ Done(InsertNode(s, q[n]), n)
    <2> DEFINE op == q[n]
               r == InsertNode(s, op)
    <2>1. \A i \in 1 .. n : i \in 1 .. n - 1 \/ i = n
      BY <1>1
    <2>2. CASE op.type = "start" /\ op.timer \notin ToSet(s.list)
      <3>1. /\ InsertedFrom(r, q)
            /\ \A t \in ToSet(s.list) \union {op.timer} : t \in ToSet(r.list)
        <4> HIDE DEF q
        <4>1. q \in Seq(Requests)
          BY DEF q
        <4>2. QED
          BY <1>1, <1>5, <2>2, <4>1, InsertedByOne
      <3> HIDE DEF r, q
      <3>2. r \in Nodes
        BY <3>1 DEF InsertedFrom
      <3>3. \A i \in 1 .. n : q[i].type = "start" => q[i].timer \in ToSet(r.list)
        BY <1>5, <2>1, <3>1
      <3>4. QED
        BY <3>1, <3>2, <3>3 DEF r
    <2>3. CASE ~ (op.type = "start" /\ op.timer \notin ToSet(s.list))
      <3>1. r = s
        BY <2>3 DEF InsertNode
      <3> HIDE DEF r, q
      <3>2. \A i \in 1 .. n : q[i].type = "start" => q[i].timer \in ToSet(s.list)
        BY <1>5, <2>1, <2>3
      <3>3. QED
        BY <1>5, <3>1, <3>2 DEF r
    <2>4. QED
      BY <2>2, <2>3
  <1>6. \A n \in 1 .. Len(q) : \A s \in R[n - 1] : InsertNode(s, q[n]) \in R[n]
    <2> SUFFICES ASSUME NEW n \in 1 .. Len(q), NEW s \in R[n - 1]
                 PROVE  InsertNode(s, q[n]) \in R[n]
      OBVIOUS
    <2> HIDE DEF R, Done, q
    <2>1. n \in 0 .. Len(q) /\ n - 1 \in 0 .. Len(q)
      BY <1>1
    <2>2. s \in Nodes /\ Done(s, n - 1)
      BY <1>3, <2>1
    <2>3. InsertNode(s, q[n]) \in Nodes /\ Done(InsertNode(s, q[n]), n)
      BY <1>5, <2>2
    <2>4. QED
      BY <1>3, <2>1, <2>3
  <1>7. q \in Seq(Requests)
    OBVIOUS
  <1>8. Inserted = ForEach(InsertNode, s0, q)
    BY DEF Inserted
  <1> HIDE DEF R, Done, s0, q
  <1>9. ForEach(InsertNode, s0, q) \in R[Len(q)]
    BY <1>4, <1>6, <1>7, InsertLoop
  <1>10. Done(Inserted, Len(q))
    <2>1. Len(q) \in 0 .. Len(q)
      BY <1>1
    <2>2. QED
      BY <1>3, <1>8, <1>9, <2>1
  <1>11. QED
    BY <1>10 DEF Done, q

\* The timers that start again.
RestartedFrom(r, s, k) ==
  /\ r \in Seq(Requests)
  /\ \A i \in 1 .. Len(r) : \E m \in 1 .. k : s.list[m] \in Repeated /\ r[i] = StartAgain(s, m)
  /\ \A m \in 1 .. k : s.list[m] \in Repeated => \E i \in 1 .. Len(r) : r[i] = StartAgain(s, m)

LEMMA RestartedFacts ==
  ASSUME NEW s \in Lists, IsTimerList(s.list, s.delta), latest \in Counts,
         NEW k \in 0 .. Len(s.list)
  PROVE  RestartedFrom(Restarted(s, k), s, k)
  <1> DEFINE R == [n \in 0 .. k |-> {r \in Seq(Requests) : RestartedFrom(r, s, n)}]
  <1>1. s.list \in Seq(Timers) /\ Len(s.list) \in Nat /\ k \in Nat
    BY DEF IsTimerList
  <1>2. \A n \in 0 .. k : R[n] = {r \in Seq(Requests) : RestartedFrom(r, s, n)}
    OBVIOUS
  <1>3. << >> \in R[0]
    <2>1. << >> \in Seq(Requests) /\ Len(<< >>) = 0
      OBVIOUS
    <2>2. RestartedFrom(<< >>, s, 0)
      BY <2>1 DEF RestartedFrom
    <2>3. 0 \in 0 .. k
      BY <1>1
    <2> HIDE DEF R
    <2>4. QED
      BY <1>2, <2>1, <2>2, <2>3
  <1>4. \A m \in 1 .. k : StartAgain(s, m) \in Requests
    <2> SUFFICES ASSUME NEW m \in 1 .. k PROVE StartAgain(s, m) \in Requests
      OBVIOUS
    <2>1. m \in 1 .. Len(s.list) /\ m \in 0 .. Len(s.list) /\ s.list[m] \in Timers
      BY <1>1
    <2>2. SumTo(s.list, s.delta, m) \in Int
      BY <1>1, <2>1, SumGrows DEF IsTimerList
    <2>3. latest \in Int
      BY Parameters DEF Counts
    <2>4. Later(latest, SumTo(s.list, s.delta, m)) \in Counts
      BY <2>2, <2>3, LaterType
    <2>5. QED
      BY <2>1, <2>4 DEF StartAgain, Requests
  <1>5. ASSUME NEW n \in 1 .. k, NEW r \in Seq(Requests), RestartedFrom(r, s, n - 1)
        PROVE  Prepended(s, n, r) \in Seq(Requests) /\ RestartedFrom(Prepended(s, n, r), s, n)
    <2>1. \A m \in 1 .. n - 1 : m \in 1 .. n
      BY <1>1
    <2>2. \A m \in 1 .. n : m \in 1 .. n - 1 \/ m = n
      BY <1>1
    <2>3. n \in 1 .. n
      BY <1>1
    <2>4. CASE s.list[n] \in Repeated
      <3> DEFINE h == <<StartAgain(s, n)>>
                 p == h \o r
      <3>1. Prepended(s, n, r) = p
        BY <2>4 DEF Prepended
      <3>2. h \in Seq(Requests) /\ Len(h) = 1 /\ h[1] = StartAgain(s, n)
        BY <1>4
      <3>3. p \in Seq(Requests) /\ Joined(p, h, r)
        BY <3>2, JoinedFacts
      <3> HIDE DEF h, p
      <3>4. \A i \in 1 .. Len(p) : \E m \in 1 .. n : s.list[m] \in Repeated /\ p[i] = StartAgain(s, m)
        <4> SUFFICES ASSUME NEW i \in 1 .. Len(p)
                     PROVE  \E m \in 1 .. n : s.list[m] \in Repeated /\ p[i] = StartAgain(s, m)
          OBVIOUS
        <4>1. CASE \E x \in 1 .. Len(h) : p[i] = h[x]
          <5>1. p[i] = StartAgain(s, n)
            BY <3>2, <4>1
          <5>2. QED
            BY <2>3, <2>4, <5>1
        <4>2. CASE \E x \in 1 .. Len(r) : p[i] = r[x]
          BY <1>5, <2>1, <4>2 DEF RestartedFrom
        <4>3. QED
          BY <3>3, <4>1, <4>2 DEF Joined
      <3>5. \A m \in 1 .. n : s.list[m] \in Repeated => \E i \in 1 .. Len(p) : p[i] = StartAgain(s, m)
        <4> SUFFICES ASSUME NEW m \in 1 .. n, s.list[m] \in Repeated
                     PROVE  \E i \in 1 .. Len(p) : p[i] = StartAgain(s, m)
          OBVIOUS
        <4>1. CASE m = n
          <5>1. 1 \in 1 .. Len(h)
            BY <3>2
          <5>2. QED
            BY <3>2, <3>3, <4>1, <5>1 DEF Joined
        <4>2. CASE m \in 1 .. n - 1
          <5>1. PICK x \in 1 .. Len(r) : r[x] = StartAgain(s, m)
            BY <1>5, <4>2 DEF RestartedFrom
          <5>2. QED
            BY <3>3, <5>1 DEF Joined
        <4>3. QED
          BY <2>2, <4>1, <4>2
      <3>6. QED
        BY <3>1, <3>3, <3>4, <3>5 DEF RestartedFrom
    <2>5. CASE s.list[n] \notin Repeated
      <3>1. Prepended(s, n, r) = r
        BY <2>5 DEF Prepended
      <3>2. \A i \in 1 .. Len(r) : \E m \in 1 .. n : s.list[m] \in Repeated /\ r[i] = StartAgain(s, m)
        BY <1>5, <2>1 DEF RestartedFrom
      <3>3. \A m \in 1 .. n : s.list[m] \in Repeated => \E i \in 1 .. Len(r) : r[i] = StartAgain(s, m)
        BY <1>5, <2>2, <2>5 DEF RestartedFrom
      <3>4. QED
        BY <3>1, <3>2, <3>3 DEF RestartedFrom
    <2>6. QED
      BY <2>4, <2>5
  <1>6. \A n \in 1 .. k : \A r \in R[n - 1] : Prepended(s, n, r) \in R[n]
    <2> SUFFICES ASSUME NEW n \in 1 .. k, NEW r \in R[n - 1] PROVE Prepended(s, n, r) \in R[n]
      OBVIOUS
    <2> HIDE DEF R
    <2>1. n \in 0 .. k /\ n - 1 \in 0 .. k
      BY <1>1
    <2>2. QED
      BY <1>2, <1>5, <2>1
  <1> HIDE DEF R
  <1>7. Restarted(s, k) \in R[k]
    BY <1>1, <1>3, <1>6, RestartLoop
  <1>8. QED
    BY <1>1, <1>2, <1>7

-------------------------------------------------------------------------------
(*****************************************************************************)
(* Types, and the handlers of RTC1.                                         *)
(*****************************************************************************)

\* The lists stay short of the counter, deltas added up.
TypeInv ==
  /\ TypeOK
  /\ restart \in Seq(Requests)
  /\ expired \in Counts
  /\ IsTimerList(list, delta)
  /\ \A k \in 1 .. Len(list) : SumTo(list, delta, k) \in Counts
  /\ at \in {"compare", "check"} => list # << >>

LEMMA TypeFacts ==
  ASSUME TypeInv
  PROVE  /\ counter \in Counts /\ cc \in Counts /\ latest \in Counts /\ pre \in Counts
         /\ ops \in [ToSet(Users) -> Seq(Requests)]
         /\ \A u \in DOMAIN ops : Len(ops[u]) <= OpQueueSize
         /\ list \in Seq(Timers) /\ Len(list) \in Nat
         /\ delta \in [Timers -> Nat] /\ delta \in [Timers -> Counts]
         /\ due \in [Timers -> Counts] /\ runs \in [Timers -> 0 .. 2]
         /\ elapsed \in Counts \union {None} /\ lag \in 0 .. MaxLag
         /\ Queued \in Seq(Requests) /\ Asked \in Seq(Requests)
  <1>1. ops \in [ToSet(Users) -> Seq(Requests)]
    BY DEF TypeInv, TypeOK, Requests, Counts
  <1>2. Queued \in Seq(Requests)
    BY <1>1, QueuedFacts
  <1>3. restart \in Seq(Requests)
    BY DEF TypeInv
  <1>4. Asked \in Seq(Requests)
    BY <1>2, <1>3, JoinedFacts DEF Asked
  <1>5. list \in Seq(Timers) /\ Len(list) \in Nat /\ delta \in [Timers -> Nat]
    BY DEF TypeInv, IsTimerList
  <1>6. QED
    BY <1>1, <1>2, <1>4, <1>5 DEF TypeInv, TypeOK, Counts

\* No timer is over the bound that the k-th is not over.
LEMMA DeltaBounded ==
  ASSUME NEW l, NEW d, IsTimerList(l, d),
         \A k \in 1 .. Len(l) : SumTo(l, d, k) \in Counts
  PROVE  d \in [Timers -> Counts]
  <1>1. l \in Seq(Timers) /\ d \in [Timers -> Nat] /\ d \in [Timers -> Int]
    BY DEF IsTimerList
  <1>2. Wrap \in Nat /\ Wrap > 6
    BY Parameters
  <1> SUFFICES ASSUME NEW t \in Timers PROVE d[t] \in Counts
    BY <1>1
  <1>3. CASE t \in ToSet(l)
    <2>1. PICK n \in 1 .. Len(l) : l[n] = t
      BY <1>1, <1>3, ToSetFacts
    <2>2. SumTo(l, d, n) = SumTo(l, d, n - 1) + d[t] /\ n - 1 \in 0 .. Len(l)
      BY <1>1, <2>1, SumFacts
    <2>3. SumTo(l, d, n - 1) \in Nat /\ SumTo(l, d, n) \in Counts /\ d[t] \in Nat
      BY <1>1, <2>2, SumGrows
    <2>4. QED
      BY <1>2, <2>2, <2>3 DEF Counts
  <1>4. CASE t \notin ToSet(l)
    BY <1>2, <1>4 DEF IsTimerList, Counts
  <1>5. QED
    BY <1>3, <1>4

\* What a user's queue holds after a request.
EnqueuedTo(r, q, new) ==
  /\ r \in Seq(Requests) /\ Len(r) <= OpQueueSize
  /\ \A i \in 1 .. Len(q) : \E j \in 1 .. Len(r) : r[j] = q[i]
  /\ \E j \in 1 .. Len(r) : r[j] = new[1]
  /\ \A j \in 1 .. Len(r) : \/ \E i \in 1 .. Len(q) : r[j] = q[i]
                            \/ \E i \in 1 .. Len(new) : r[j] = new[i]

LEMMA EnqueueFacts ==
  ASSUME NEW q \in Seq(Requests), NEW new \in Seq(Requests), new # << >>,
         Len(q) < OpQueueSize
  PROVE  EnqueuedTo(Enqueue(q, new), q, new)
  <1> DEFINE x == Min({Len(new), OpQueueSize - Len(q)})
             part == SubSeq(new, 1, x)
             r == q \o part
  <1>1. OpQueueSize \in Nat /\ Len(q) \in Nat /\ Len(new) \in Nat /\ Len(new) >= 1
    BY TimerAssumption
  <1>2. x \in 1 .. Len(new) /\ x <= OpQueueSize - Len(q)
    <2> DEFINE a == Len(new)
               b == OpQueueSize - Len(q)
    <2>1. a \in Nat /\ b \in Nat /\ a >= 1 /\ b >= 1
      BY <1>1
    <2> HIDE DEF a, b
    <2>2. {a, b} \in SUBSET Nat /\ {a, b} # {}
      BY <2>1
    <2>3. Min({a, b}) \in {a, b} /\ \A y \in {a, b} : Min({a, b}) <= y
      BY <2>2, FirstPlace
    <2>4. x = Min({a, b})
      BY DEF a, b
    <2> HIDE DEF x
    <2>5. x \in 1 .. a /\ x <= b
      BY <2>1, <2>3, <2>4
    <2>6. QED
      BY <2>5 DEF a, b
  <1> HIDE DEF x
  <1>3. part \in Seq(Requests) /\ Len(part) = x /\ \A i \in 1 .. x : part[i] = new[i]
    BY <1>1, <1>2
  <1> HIDE DEF part
  <1>4. r \in Seq(Requests) /\ Joined(r, q, part)
    BY <1>3, JoinedFacts
  <1>5. Enqueue(q, new) = r
    BY DEF Enqueue, part, x
  <1> HIDE DEF r
  <1>6. Len(r) <= OpQueueSize
    <2>1. Len(r) = Len(q) + Len(part)
      BY <1>4 DEF Joined
    <2>2. QED
      BY <1>1, <1>2, <1>3, <2>1
  <1>7. \E j \in 1 .. Len(r) : r[j] = new[1]
    <2>1. 1 \in 1 .. x /\ 1 \in 1 .. Len(part)
      BY <1>2, <1>3
    <2>2. part[1] = new[1]
      BY <1>3, <2>1
    <2>3. QED
      BY <1>4, <2>1, <2>2 DEF Joined
  <1>8. ASSUME NEW j \in 1 .. Len(r)
        PROVE  \/ \E i \in 1 .. Len(q) : r[j] = q[i]
               \/ \E i \in 1 .. Len(new) : r[j] = new[i]
    <2>1. CASE \E i \in 1 .. Len(part) : r[j] = part[i]
      <3>1. PICK i \in 1 .. Len(part) : r[j] = part[i]
        BY <2>1
      <3>2. i \in 1 .. Len(new) /\ part[i] = new[i]
        BY <1>1, <1>2, <1>3
      <3>3. QED
        BY <3>1, <3>2
    <2>2. QED
      BY <1>4, <2>1 DEF Joined
  <1>9. \A i \in 1 .. Len(q) : \E j \in 1 .. Len(r) : r[j] = q[i]
    BY <1>4 DEF Joined
  <1>10. QED
    BY <1>4, <1>5, <1>6, <1>7, <1>8, <1>9 DEF EnqueuedTo

\* CC[0], ticks after m_ticks_latest.
LEMMA CompareFacts ==
  ASSUME TypeInv, at = "compare"
  PROVE  /\ CompareTicks \in Nat
         /\ delta[list[1]] = SumTo(list, delta, 1)
         /\ CompareTicks = IF delta[list[1]] >= Diff(pre, latest) + OffsetMin
                           THEN delta[list[1]] ELSE Diff(pre, latest) + OffsetMin
  <1> DEFINE a == delta[list[1]]
             b == Diff(pre, latest) + OffsetMin
  <1>1. list \in Seq(Timers) /\ delta \in [Timers -> Nat] /\ delta \in [Timers -> Int] /\ list # << >>
    BY TypeFacts DEF TypeInv
  <1>2. 1 \in 1 .. Len(list) /\ list[1] \in Timers
    BY <1>1
  <1>3. a \in Nat
    BY <1>1, <1>2
  <1>4. b \in Nat
    <2>1. Diff(pre, latest) \in Counts
      BY TypeFacts, DiffFacts
    <2>2. QED
      BY <2>1, Parameters DEF Counts, OffsetMin
  <1>5. a = SumTo(list, delta, 1)
    <2>1. SumTo(list, delta, 1) = SumTo(list, delta, 1 - 1) + a
      BY <1>1, <1>2, SumFacts
    <2>2. SumTo(list, delta, 0) = 0 /\ 1 - 1 = 0
      BY <1>1, SumFacts
    <2>3. QED
      BY <1>3, <2>1, <2>2
  <1>6. CompareTicks = Max({a, b})
    BY DEF CompareTicks
  <1> HIDE DEF a, b
  <1>7. Max({a, b}) \in {a, b} /\ \A y \in {a, b} : y <= Max({a, b})
    <2>1. {a, b} \in SUBSET (0 .. a + b) /\ {a, b} # {} /\ a + b \in Nat
      BY <1>3, <1>4
    <2>2. QED
      BY <2>1, LastPlace
  <1>8. CompareTicks = IF a >= b THEN a ELSE b
    <2> DEFINE m == Max({a, b})
    <2>1. m \in {a, b} /\ a <= m /\ b <= m
      BY <1>7
    <2>2. CompareTicks = m
      BY <1>6
    <2> HIDE DEF m
    <2>3. QED
      BY <1>3, <1>4, <2>1, <2>2
  <1>9. QED
    BY <1>3, <1>4, <1>5, <1>8 DEF a, b

LEMMA StartStop ==
  ASSUME counter \in Counts, NEW t \in Timers
  PROVE  /\ Start(t) \in Requests /\ Stop(t) \in Requests
         /\ Start(t).type = "start" /\ Stop(t).type = "stop"
         /\ Start(t).timer = t /\ Stop(t).timer = t /\ Start(t).ticks_at_start = counter
  <1>1. 0 \in Counts
    BY Parameters DEF Counts
  <1>2. QED
    BY <1>1 DEF Start, Stop, Requests

-------------------------------------------------------------------------------
(*****************************************************************************)
(* The requests, and what the deletions do.                                 *)
(*****************************************************************************)

LEMMA RequestType ==
  ASSUME TypeInv, NEW u \in ToSet(Users), NEW new \in Seq(Requests), new # << >>,
         Request(u, new)
  PROVE  TypeInv'
  <1>1. ops \in [ToSet(Users) -> Seq(Requests)] /\ Len(ops[u]) < OpQueueSize
        /\ \A v \in DOMAIN ops : Len(ops[v]) <= OpQueueSize
    BY TypeFacts DEF Request
  <1> DEFINE r == Enqueue(ops[u], new)
  <1>2. r \in Seq(Requests) /\ Len(r) <= OpQueueSize
    <2>1. ops[u] \in Seq(Requests)
      BY <1>1
    <2>2. EnqueuedTo(r, ops[u], new)
      BY <1>1, <2>1, EnqueueFacts
    <2>3. QED
      BY <2>2 DEF EnqueuedTo
  <1>3. ops' = [ops EXCEPT ![u] = r]
    BY DEF Request
  <1> HIDE DEF r
  <1>4. ops' \in [ToSet(Users) -> Seq(Requests)] /\ \A v \in DOMAIN ops' : Len(ops'[v]) <= OpQueueSize
    BY <1>1, <1>2, <1>3
  <1>5. lag' \in 0 .. MaxLag /\ swi0' \in BOOLEAN
    BY Parameters DEF TypeInv, TypeOK, Request, PendsSwi0
  <1>6. UNCHANGED <<counter, cc, armed, rtc, rtc1, list, delta, latest, elapsed, at,
                    expired, update, restart, pre, due, ran, runs>>
    BY DEF Request, rtcVars, listVars, localVars, ghostVars
  <1>7. UNCHANGED ToSet(Users)
    BY DEF Users
  <1>8. TypeOK'
    BY <1>4, <1>5, <1>6, <1>7 DEF TypeInv, TypeOK, Requests, Counts
  <1>9. QED
    BY <1>6, <1>8 DEF TypeInv, IsTimerList

LEMMA UserFacts ==
  /\ ToSet(Users) = {"thread", "low", "high"}
  <1>1. Users \in Seq({"thread", "low", "high"}) /\ Len(Users) = 3
        /\ Users[1] = "thread" /\ Users[2] = "low" /\ Users[3] = "high"
    BY DEF Users
  <1>2. \A n \in 1 .. 3 : Users[n] \in ToSet(Users)
    BY <1>1, ToSetFacts
  <1>3. \A x \in ToSet(Users) : x \in {"thread", "low", "high"}
    BY <1>1, ToSetFacts
  <1>4. {"thread", "low", "high"} \subseteq ToSet(Users)
    BY <1>1, <1>2
  <1>5. QED
    BY <1>3, <1>4

\* What is asked for, by whom: a start counts from the counter as it is, and only
\* timers other than the repeated one are stopped.
Asking(u, new) ==
  /\ u \in ToSet(Users) /\ new \in Seq(Requests) /\ new # << >>
  /\ Request(u, new)
  /\ \A i \in 1 .. Len(new) :
       /\ new[i].timer = BootTimer => new[i].type = "start"
       /\ new[i].type = "start" => new[i].ticks_at_start = counter
  /\ u = "thread" => new = <<Start(BootTimer)>> /\ ~ rtc /\ at = "idle"
  /\ u # "thread" => rtc /\ \A i \in 1 .. Len(new) : new[i].timer # BootTimer

LEMMA RequestCases ==
  ASSUME TypeInv, LowResTimerStart \/ LowRequest \/ Edge
  PROVE  \E u, new : Asking(u, new)
  <1>1. counter \in Counts
    BY TypeFacts
  <1>2. BootTimer \in Timers /\ EdgeTimer \in Timers /\ EdgeTimer # BootTimer
        /\ \A t \in LowTimers : t \in Timers /\ t # BootTimer
    BY TimerAssumption
  <1>3. \A t \in Timers : /\ Start(t) \in Requests /\ Stop(t) \in Requests
                          /\ Start(t).type = "start" /\ Stop(t).type = "stop"
                          /\ Start(t).timer = t /\ Stop(t).timer = t
                          /\ Start(t).ticks_at_start = counter
    BY <1>1, StartStop
  <1>4. CASE LowResTimerStart
    <2> DEFINE new == <<Start(BootTimer)>>
    <2>1. Start(BootTimer) \in Requests /\ Start(BootTimer).type = "start"
          /\ Start(BootTimer).ticks_at_start = counter
      BY <1>2, <1>3
    <2>2. new \in Seq(Requests) /\ new # << >> /\ Len(new) = 1 /\ new[1] = Start(BootTimer)
      BY <2>1
    <2>3. Request("thread", new) /\ ~ rtc /\ at = "idle"
      BY <1>4 DEF LowResTimerStart
    <2>4. \A i \in 1 .. Len(new) :
            /\ new[i].timer = BootTimer => new[i].type = "start"
            /\ new[i].type = "start" => new[i].ticks_at_start = counter
      BY <2>1, <2>2
    <2>5. Asking("thread", new)
      BY <2>2, <2>3, <2>4, UserFacts DEF Asking
    <2>6. QED
      BY <2>5
  <1>5. CASE LowRequest
    <2>1. PICK t \in LowTimers : \/ Request("low", <<Start(t)>>)
                                 \/ Request("low", <<Stop(t)>>)
                                 \/ Request("low", <<Stop(t), Stop(EdgeTimer)>>)
      BY <1>5 DEF LowRequest
    <2>2. rtc
      BY <1>5 DEF LowRequest
    <2>3. ASSUME NEW new \in {<<Start(t)>>, <<Stop(t)>>, <<Stop(t), Stop(EdgeTimer)>>},
                 Request("low", new)
          PROVE  Asking("low", new)
      <3>1. CASE new = <<Start(t)>>
        <4>1. new \in Seq(Requests) /\ new # << >> /\ Len(new) = 1 /\ new[1] = Start(t)
          BY <1>2, <1>3, <3>1
        <4>2. \A i \in 1 .. Len(new) :
            /\ new[i].timer # BootTimer
            /\ new[i].type = "start" => new[i].ticks_at_start = counter
          BY <1>2, <1>3, <4>1
        <4>3. QED
          BY <2>2, <2>3, <4>1, <4>2, UserFacts DEF Asking
      <3>2. CASE new = <<Stop(t)>>
        <4>1. new \in Seq(Requests) /\ new # << >> /\ Len(new) = 1 /\ new[1] = Stop(t)
          BY <1>2, <1>3, <3>2
        <4>2. \A i \in 1 .. Len(new) :
            /\ new[i].timer # BootTimer
            /\ new[i].type = "start" => new[i].ticks_at_start = counter
          BY <1>2, <1>3, <4>1
        <4>3. QED
          BY <2>2, <2>3, <4>1, <4>2, UserFacts DEF Asking
      <3>3. CASE new = <<Stop(t), Stop(EdgeTimer)>>
        <4>1. new \in Seq(Requests) /\ new # << >> /\ Len(new) = 2 /\ new[1] = Stop(t) /\ new[2] = Stop(EdgeTimer)
          BY <1>2, <1>3, <3>3
        <4>2. \A i \in 1 .. Len(new) :
            /\ new[i].timer # BootTimer
            /\ new[i].type = "start" => new[i].ticks_at_start = counter
          BY <1>2, <1>3, <4>1
        <4>3. QED
          BY <2>2, <2>3, <4>1, <4>2, UserFacts DEF Asking
      <3>4. QED
        BY <3>1, <3>2, <3>3
    <2>4. QED
      BY <2>1, <2>3
  <1>6. CASE Edge
    <2> DEFINE new == <<Stop(EdgeTimer), Start(EdgeTimer)>>
    <2>1. rtc /\ Request("high", new)
      BY <1>6 DEF Edge
    <2>2. new \in Seq(Requests) /\ new # << >> /\ Len(new) = 2 /\ new[1] = Stop(EdgeTimer)
          /\ new[2] = Start(EdgeTimer)
      BY <1>2, <1>3
    <2>3. \A i \in 1 .. Len(new) :
            /\ new[i].timer # BootTimer
            /\ new[i].type = "start" => new[i].ticks_at_start = counter
      BY <1>2, <1>3, <2>2
    <2>4. Asking("high", new)
      BY <2>1, <2>2, <2>3, UserFacts DEF Asking
    <2>5. QED
      BY <2>4
  <1>7. QED
    BY <1>4, <1>5, <1>6

\* What RTC1 finds elapsed.
LEMMA Rtc1Facts ==
  ASSUME TypeInv, Rtc1Handler, list # << >>
  PROVE  /\ TicksElapsed \in Counts
         /\ ExpiredIn(list, delta, TicksElapsed) \in 0 .. Len(list)
         /\ \A n \in 1 .. Len(list) : n <= ExpiredIn(list, delta, TicksElapsed)
                                      <=> SumTo(list, delta, n) <= TicksElapsed
         /\ expired' = SumTo(list, delta, ExpiredIn(list, delta, TicksElapsed))
         /\ expired' \in Counts /\ expired' <= TicksElapsed
         /\ ran' = {list[j] : j \in 1 .. ExpiredIn(list, delta, TicksElapsed)}
         /\ at' = "rtc1"
  <1> DEFINE k == ExpiredIn(list, delta, TicksElapsed)
  <1>1. TicksElapsed \in Counts
    BY TypeFacts, DiffFacts DEF TicksElapsed
  <1>2. Wrap \in Nat /\ Wrap > 6
    BY Parameters
  <1>3. IsTimerList(list, delta) /\ list \in Seq(Timers) /\ delta \in [Timers -> Int] /\ Len(list) \in Nat
        /\ \A n \in 1 .. Len(list) : SumTo(list, delta, n) \in Counts
    BY TypeFacts DEF TypeInv
  <1>4. TicksElapsed \in Nat
    BY <1>1, <1>2 DEF Counts
  <1>5. k \in 0 .. Len(list) /\ SumTo(list, delta, k) <= TicksElapsed
    BY <1>3, <1>4, ExpiredInFacts
  <1>6. \A n \in 1 .. Len(list) : n <= k <=> SumTo(list, delta, n) <= TicksElapsed
    BY <1>3, <1>4, ExpiredPlaces
  <1>7. expired' = SumTo(list, delta, k) /\ ran' = {list[j] : j \in 1 .. k} /\ at' = "rtc1"
    BY DEF Rtc1Handler
  <1> HIDE DEF k
  <1>8. SumTo(list, delta, k) \in Counts
    <2>1. CASE k = 0
      <3>1. SumTo(list, delta, 0) = 0
        BY <1>3, SumFacts
      <3>2. QED
        BY <1>2, <2>1, <3>1 DEF Counts
    <2>2. CASE k # 0
      BY <1>3, <1>5, <2>2
    <2>3. QED
      BY <2>1, <2>2
  <1>9. QED
    BY <1>1, <1>5, <1>6, <1>7, <1>8 DEF k

\* What the two stages of SWI0 leave.
Deletes(kept, k, ticks) ==
  /\ ticks = IF elapsed = None THEN 0 ELSE elapsed
  /\ ticks \in Counts
  /\ kept = Deleted /\ DeletedFrom(kept, Queued)
  /\ k \in 0 .. Len(kept.list)
  /\ elapsed = None => k = 0
  /\ elapsed # None => \A n \in 1 .. Len(kept.list) :
                         n <= k <=> SumTo(kept.list, kept.delta, n) <= ticks
  /\ IsTimerList(list', delta')
  /\ LeftFrom(list', delta', kept.list, kept.delta, ticks, k)
  /\ RestartedFrom(restart', kept, k)
  /\ update' = (elapsed # None \/ HeadOf(kept.list) # HeadOf(list))

LEMMA DeletesFacts ==
  ASSUME TypeInv, Swi0Deletions
  PROVE  \E kept, k, ticks : Deletes(kept, k, ticks)
  <1> DEFINE kept == Deleted
             l == kept.list
             d == kept.delta
             ticks == IF elapsed = None THEN 0 ELSE elapsed
             k == IF elapsed = None THEN 0 ELSE ExpiredIn(l, d, ticks)
             left == SubSeq(l, k + 1, Len(l))
             over == ticks - SumTo(l, d, k)
  <1>1. Wrap \in Nat /\ Wrap > 6
    BY Parameters
  <1>2. ticks \in Counts /\ ticks \in Nat
    <2>1. elapsed \in Counts \union {None}
      BY TypeFacts
    <2>2. 0 \in Counts
      BY <1>1 DEF Counts
    <2>3. ticks \in Counts
      BY <2>1, <2>2
    <2> HIDE DEF ticks
    <2>4. QED
      BY <1>1, <2>3 DEF Counts
  <1>3. list' = left /\ delta' = DeltaLeft(left, d, over) /\ restart' = Restarted(kept, k)
    BY DEF Swi0Deletions, Deleted, DeltaLeft
  <1>4. DeletedFrom(kept, Queued)
    BY TypeFacts, DeletedFacts DEF TypeInv
  <1>5. kept \in Lists /\ IsTimerList(l, d)
    BY <1>4 DEF DeletedFrom
  <1>6. l \in Seq(Timers) /\ d \in [Timers -> Nat] /\ d \in [Timers -> Int] /\ Len(l) \in Nat
    BY <1>5 DEF IsTimerList
  <1> HIDE DEF kept, ticks
  <1>7. /\ k \in 0 .. Len(l) /\ SumTo(l, d, k) <= ticks
        /\ k = Len(l) \/ ticks <= SumTo(l, d, k + 1)
        /\ elapsed # None => \A n \in 1 .. Len(l) : n <= k <=> SumTo(l, d, n) <= ticks
    <2>1. CASE elapsed = None
      <3>1. k = 0 /\ ticks = 0
        BY <2>1 DEF ticks
      <3>2. SumTo(l, d, 0) = 0
        BY <1>6, SumFacts
      <3>3. Len(l) # 0 => SumTo(l, d, 0 + 1) \in Nat
        <4>1. Len(l) # 0 => 0 + 1 \in 0 .. Len(l)
          BY <1>6
        <4>2. QED
          BY <1>6, <4>1, SumGrows
      <3> HIDE DEF k
      <3>4. QED
        BY <1>6, <2>1, <3>1, <3>2, <3>3
    <2>2. CASE elapsed # None
      <3>1. k = ExpiredIn(l, d, ticks)
        BY <2>2
      <3>2. k \in 0 .. Len(l) /\ SumTo(l, d, k) <= ticks /\ (k = Len(l) \/ ticks < SumTo(l, d, k + 1))
        BY <1>2, <1>5, <3>1, ExpiredInFacts
      <3>3. \A n \in 1 .. Len(l) : n <= k <=> SumTo(l, d, n) <= ticks
        BY <1>2, <1>5, <3>1, ExpiredPlaces
      <3> HIDE DEF k
      <3>4. k = Len(l) \/ ticks <= SumTo(l, d, k + 1)
        <4>1. k # Len(l) => SumTo(l, d, k + 1) \in Int
          <5>1. k # Len(l) => k + 1 \in 0 .. Len(l)
            BY <1>6, <3>2
          <5>2. QED
            BY <1>6, <5>1, SumFacts
        <4>2. QED
          BY <1>2, <3>2, <4>1
      <3>5. QED
        BY <3>2, <3>3, <3>4
    <2>3. QED
      BY <2>1, <2>2
  <1>8. elapsed = None => k = 0
    OBVIOUS
  <1> HIDE DEF k
  <1>9. IsTimerList(list', delta') /\ LeftFrom(list', delta', l, d, ticks, k)
    BY <1>2, <1>3, <1>5, <1>7, ExpireSums
  <1>10. RestartedFrom(restart', kept, k)
    <2>1. latest \in Counts
      BY TypeFacts
    <2> HIDE DEF l, d
    <2>2. IsTimerList(kept.list, kept.delta) /\ k \in 0 .. Len(kept.list)
      BY <1>5, <1>7 DEF l, d
    <2>3. RestartedFrom(Restarted(kept, k), kept, k)
      BY <1>5, <2>1, <2>2, RestartedFacts
    <2>4. QED
      BY <1>3, <2>3
  <1>11. update' = (elapsed # None \/ HeadOf(l) # HeadOf(list))
    BY DEF Swi0Deletions, Deleted, kept
  <1>12. Deletes(kept, k, ticks)
    BY <1>2, <1>4, <1>7, <1>8, <1>9, <1>10, <1>11 DEF Deletes, kept, ticks
  <1>13. QED
    BY <1>12

-------------------------------------------------------------------------------
(*****************************************************************************)
(* What the insertions do; the types are kept.                              *)
(*****************************************************************************)

\* Where the timers left in the list, and those that start again, were.
LeftPlaces(ticks) ==
  \A n \in 1 .. Len(list') : \E j \in n .. Len(list) :
    /\ list'[n] = list[j]
    /\ SumTo(list', delta', n) = SumTo(list, delta, j) - ticks
    /\ elapsed # None => SumTo(list, delta, j) > ticks
    /\ j > n \/ ~ update' \/ elapsed # None

RestartPlaces(ticks) ==
  \A i \in 1 .. Len(restart') : \E j \in 1 .. Len(list) :
    /\ restart'[i] = [type |-> "start", timer |-> list[j],
                      ticks_at_start |-> Later(latest, SumTo(list, delta, j))]
    /\ elapsed # None /\ SumTo(list, delta, j) <= ticks

Survivors ==
  \A t \in ToSet(list) :
    \/ \E i \in 1 .. Len(Queued) : Queued[i].type = "stop" /\ Queued[i].timer = t
    \/ t \in ToSet(list')
    \/ t \notin Repeated
    \/ \E i \in 1 .. Len(restart') : restart'[i].timer = t

LEMMA DeletesPlaces ==
  ASSUME TypeInv, NEW kept, NEW k, NEW ticks, Deletes(kept, k, ticks)
  PROVE  LeftPlaces(ticks) /\ RestartPlaces(ticks) /\ Survivors
  <1> DEFINE l == kept.list
             d == kept.delta
  <1>1. DeletedFrom(kept, Queued) /\ k \in 0 .. Len(l) /\ ticks \in Counts
        /\ LeftFrom(list', delta', l, d, ticks, k) /\ IsTimerList(list', delta')
        /\ RestartedFrom(restart', kept, k)
    BY DEF Deletes
  <1>2. IsTimerList(l, d) /\ Thinner(l, d, list, delta)
    BY <1>1 DEF DeletedFrom
  <1>3. l \in Seq(Timers) /\ Len(l) \in Nat /\ list' \in Seq(Timers) /\ Len(list') = Len(l) - k
        /\ Len(list) \in Nat /\ d \in [Timers -> Nat]
    BY <1>1, <1>2, TypeFacts DEF IsTimerList, LeftFrom
  <1>4. /\ elapsed # None => \A n \in 1 .. Len(l) : n <= k <=> SumTo(l, d, n) <= ticks
        /\ elapsed = None => k = 0
    BY DEF Deletes
  <1>5. \A n \in 1 .. Len(l) : \E j \in n .. Len(list) :
           l[n] = list[j] /\ SumTo(l, d, n) = SumTo(list, delta, j) /\ (j > n \/ l[1] = list[1])
    BY <1>2 DEF Thinner
  <1>6. \A n \in 1 .. Len(l) - k : list'[n] = l[k + n]
                                   /\ SumTo(list', delta', n) = SumTo(l, d, k + n) - ticks
    BY <1>1 DEF LeftFrom
  <1>7. \A n \in 1 .. Len(l) : SumTo(l, d, n) \in Nat
    <2> HIDE DEF l, d
    <2>1. \A n \in 0 .. Len(l) : SumTo(l, d, n) \in Nat
      BY <1>3, SumGrows
    <2>2. QED
      BY <1>3, <2>1
  <1>head. update' = (elapsed # None \/ HeadOf(l) # HeadOf(list))
    BY DEF Deletes
  <1> HIDE DEF l, d
  <1>8. ASSUME NEW n \in 1 .. Len(list')
        PROVE  \E j \in n .. Len(list) :
                 /\ list'[n] = list[j]
                 /\ SumTo(list', delta', n) = SumTo(list, delta, j) - ticks
                 /\ elapsed # None => SumTo(list, delta, j) > ticks
                 /\ j > n \/ ~ update' \/ elapsed # None
    <2>1. n \in 1 .. Len(l) - k /\ k + n \in 1 .. Len(l) /\ ~ (k + n <= k)
      BY <1>1, <1>3
    <2>2. PICK j \in k + n .. Len(list) : l[k + n] = list[j] /\ SumTo(l, d, k + n) = SumTo(list, delta, j)
                                          /\ (j > k + n \/ l[1] = list[1])
      BY <1>5, <2>1
    <2>3. j \in n .. Len(list)
      BY <1>1, <1>3, <2>1
    <2>4. list'[n] = list[j] /\ SumTo(list', delta', n) = SumTo(list, delta, j) - ticks
      BY <1>6, <2>1, <2>2
    <2>5. elapsed # None => SumTo(list, delta, j) > ticks
      <3>1. elapsed # None => ~ (SumTo(l, d, k + n) <= ticks)
        BY <1>4, <2>1
      <3>2. SumTo(l, d, k + n) \in Nat /\ ticks \in Int
        BY <1>1, <1>7, <2>1, Parameters DEF Counts
      <3>3. QED
        BY <2>2, <3>1, <3>2
    <2>6. j > n \/ ~ update' \/ elapsed # None
      <3>1. j > k + n => j > n
        BY <1>1, <1>3, <2>1
      <3>2. CASE l[1] = list[1]
        <4>1. l # << >> /\ list # << >>
          <5>1. Len(l) # 0 /\ Len(list) # 0
            BY <1>1, <1>3, <2>1, <2>3
          <5>2. QED
            BY <5>1
        <4>2. HeadOf(l) = HeadOf(list)
          BY <3>2, <4>1 DEF HeadOf
        <4>3. QED
          BY <1>head, <4>2
      <3>3. QED
        BY <2>2, <3>1, <3>2
    <2>7. QED
      BY <2>3, <2>4, <2>5, <2>6
  <1>9. ASSUME NEW i \in 1 .. Len(restart')
        PROVE  \E j \in 1 .. Len(list) :
                 /\ restart'[i] = [type |-> "start", timer |-> list[j],
                                   ticks_at_start |-> Later(latest, SumTo(list, delta, j))]
                 /\ elapsed # None /\ SumTo(list, delta, j) <= ticks
    <2>1. PICK m \in 1 .. k : restart'[i] = StartAgain(kept, m)
      BY <1>1 DEF RestartedFrom
    <2>2. m \in 1 .. Len(l) /\ m <= k /\ k # 0
      BY <1>1, <1>3
    <2>3. PICK j \in m .. Len(list) : l[m] = list[j] /\ SumTo(l, d, m) = SumTo(list, delta, j)
      BY <1>5, <2>2
    <2>4. j \in 1 .. Len(list)
      BY <1>3, <2>2
    <2>5. elapsed # None /\ SumTo(list, delta, j) <= ticks
      BY <1>4, <2>2, <2>3
    <2>6. restart'[i] = [type |-> "start", timer |-> list[j],
                         ticks_at_start |-> Later(latest, SumTo(list, delta, j))]
      BY <2>1, <2>3 DEF StartAgain, l, d
    <2>7. QED
      BY <2>4, <2>5, <2>6
  <1>10. ASSUME NEW t \in ToSet(list),
                ~ \E i \in 1 .. Len(Queued) : Queued[i].type = "stop" /\ Queued[i].timer = t,
                t \in Repeated
         PROVE  t \in ToSet(list') \/ \E i \in 1 .. Len(restart') : restart'[i].timer = t
    <2>1. t \in ToSet(l)
      BY <1>1, <1>10 DEF DeletedFrom, l
    <2>2. PICK m \in 1 .. Len(l) : l[m] = t
      BY <1>3, <2>1, ToSetFacts
    <2>3. CASE m <= k
      <3>1. m \in 1 .. k
        BY <1>1, <2>3
      <3>2. PICK i \in 1 .. Len(restart') : restart'[i] = StartAgain(kept, m)
        BY <1>1, <1>10, <2>2, <3>1 DEF RestartedFrom, l
      <3>3. restart'[i].timer = t
        BY <2>2, <3>2 DEF StartAgain, l
      <3>4. QED
        BY <3>3
    <2>4. CASE m > k
      <3>1. m - k \in 1 .. Len(l) - k /\ k + (m - k) = m /\ m - k \in 1 .. Len(list')
        BY <1>1, <1>3, <2>4
      <3>2. list'[m - k] = t
        BY <1>6, <2>2, <3>1
      <3>3. QED
        BY <1>3, <3>1, <3>2, ToSetFacts
    <2>5. QED
      BY <1>1, <1>3, <2>3, <2>4
  <1>11. QED
    BY <1>8, <1>9, <1>10 DEF LeftPlaces, RestartPlaces, Survivors

\* What the insertions leave.
Inserts(s) ==
  /\ s = Inserted /\ InsertedFrom(s, Asked)
  /\ \A i \in 1 .. Len(Asked) : Asked[i].type = "start" => Asked[i].timer \in ToSet(s.list)
  /\ list' = s.list /\ delta' = s.delta /\ due' = s.due /\ runs' = s.runs
  /\ \A n \in 1 .. Len(list') :
       \/ \E j \in 1 .. Len(list) : SumTo(list', delta', n) = SumTo(list, delta, j)
       \/ SumTo(list', delta', n) \in Counts

LEMMA InsertsFacts ==
  ASSUME TypeInv, Swi0Insertions
  PROVE  Inserts(Inserted)
  <1> DEFINE s == Inserted
  <1>1. IsTimerList(list, delta)
    BY DEF TypeInv
  <1>2. Asked \in Seq(Requests) /\ latest \in Counts /\ due \in [Timers -> Counts] /\ runs \in [Timers -> 0 .. 2]
    BY TypeFacts
  <1>3. InsertedFrom(s, Asked)
        /\ \A i \in 1 .. Len(Asked) : Asked[i].type = "start" => Asked[i].timer \in ToSet(s.list)
    BY <1>1, <1>2, InsertedFacts
  <1>4. list' = s.list /\ delta' = s.delta /\ due' = s.due /\ runs' = s.runs
    BY DEF Swi0Insertions, Inserted, Asked
  <1> HIDE DEF s
  <1>5. ASSUME NEW n \in 1 .. Len(list')
        PROVE  \/ \E j \in 1 .. Len(list) : SumTo(list', delta', n) = SumTo(list, delta, j)
               \/ SumTo(list', delta', n) \in Counts
    <2>1. CASE Fresh(s, n, Asked)
      <3>1. PICK i \in 1 .. Len(Asked) : SumTo(list', delta', n) = Expiry(Asked[i])
        BY <1>4, <2>1 DEF Fresh
      <3>2. Asked[i] \in Requests
        BY <1>2
      <3>3. Asked[i].ticks_at_start \in Counts /\ Asked[i].timer \in Timers
        BY <3>2 DEF Requests
      <3>4. Expiry(Asked[i]) \in Counts
        BY <1>2, <3>3, ExpiryType DEF Expiry
      <3>5. QED
        BY <3>1, <3>4
    <2>2. CASE Stays(s, n, Asked)
      BY <1>4, <2>2 DEF Stays
    <2>3. QED
      BY <1>3, <1>4, <2>1, <2>2 DEF InsertedFrom
  <1>6. QED
    BY <1>3, <1>4, <1>5 DEF Inserts, s

-------------------------------------------------------------------------------
LEMMA InitType ==
  ASSUME Init
  PROVE  TypeInv
  <1>1. 0 \in Counts /\ MaxLag \in Nat
    BY Parameters DEF Counts
  <1>2. OpQueueSize \in Nat
    BY TimerAssumption
  <1>3. list = << >> /\ list \in Seq(Timers) /\ Len(list) = 0 /\ IsInjective(list)
    BY DEF Init, IsInjective
  <1>4. delta \in [Timers -> Nat] /\ delta \in [Timers -> Counts] /\ \A t \in Timers : delta[t] = 0
    BY <1>1 DEF Init
  <1>5. IsTimerList(list, delta)
    BY <1>3, <1>4 DEF IsTimerList
  <1>6. ops \in [ToSet(Users) -> Seq(Requests)] /\ \A u \in DOMAIN ops : Len(ops[u]) <= OpQueueSize
    <2>1. << >> \in Seq(Requests) /\ Len(<< >>) <= OpQueueSize
      BY <1>2
    <2>2. ops = [u \in ToSet(Users) |-> << >>]
      BY DEF Init
    <2>3. QED
      BY <2>1, <2>2
  <1>7. restart \in Seq(Requests) /\ expired \in Counts
    BY <1>1 DEF Init
  <1>8. due \in [Timers -> Counts] /\ runs \in [Timers -> 0 .. 2] /\ ran \subseteq Timers
    BY <1>1 DEF Init
  <1>9. TypeOK
    <2>1. counter \in Counts /\ cc \in Counts /\ latest \in Counts /\ pre \in Counts
          /\ {armed, rtc, rtc1, swi0, update} \subseteq BOOLEAN
          /\ elapsed \in Counts \union {None}
          /\ at \in {"idle", "rtc1", "insertions", "compare", "check"}
      BY <1>1 DEF Init
    <2>2. lag \in 0 .. MaxLag
      BY <1>1 DEF Init
    <2>3. QED
      BY <1>3, <1>4, <1>6, <1>8, <2>1, <2>2 DEF TypeOK, Requests, Counts
  <1>10. at \notin {"compare", "check"}
    BY DEF Init
  <1>11. QED
    BY <1>3, <1>5, <1>7, <1>9, <1>10 DEF TypeInv

LEMMA NextType ==
  ASSUME TypeInv, [Next]_vars
  PROVE  TypeInv'
  <1>1. UNCHANGED ToSet(Users)
    BY DEF Users
  <1>2. CASE Tick
    <2>1. counter' \in Counts
      <3>1. counter \in Int /\ 1 \in Int
        BY TypeFacts, Parameters DEF Counts
      <3>2. QED
        BY <1>2, <3>1, LaterType DEF Tick
    <2>2. lag' \in 0 .. MaxLag
      BY <1>2, Parameters DEF Tick, TypeInv, TypeOK
    <2>3. rtc1' \in BOOLEAN /\ armed' \in BOOLEAN
      BY <1>2 DEF Tick, TypeInv, TypeOK
    <2>4. UNCHANGED <<cc, rtc, swi0, ops, list, delta, latest, elapsed, at, expired,
                      update, restart, pre, due, ran, runs>>
      BY <1>2 DEF Tick, listVars, localVars, ghostVars
    <2>5. TypeOK'
      BY <1>1, <2>1, <2>2, <2>3, <2>4 DEF TypeInv, TypeOK, Counts
    <2>6. QED
      BY <2>4, <2>5 DEF TypeInv, IsTimerList
  <1>3. CASE Rtc1Handler
    <2>1. UNCHANGED <<counter, cc, armed, rtc, swi0, ops, list, delta, latest, elapsed,
                      update, restart, pre, lag, due>> /\ rtc1' \in BOOLEAN
      BY <1>3 DEF Rtc1Handler, rtcVars, listVars
    <2>2. /\ expired' \in Counts /\ ran' \subseteq Timers /\ runs' \in [Timers -> 0 .. 2]
          /\ at' \in {"idle", "rtc1"}
      <3>1. CASE list = << >>
        BY <1>3, <3>1 DEF Rtc1Handler, TypeInv, TypeOK
      <3>2. CASE list # << >>
        <4> DEFINE k == ExpiredIn(list, delta, TicksElapsed)
        <4>1. expired' \in Counts /\ ran' = {list[j] : j \in 1 .. k} /\ k \in 0 .. Len(list) /\ at' = "rtc1"
          BY <1>3, <3>2, Rtc1Facts
        <4> HIDE DEF k
        <4>2. list \in Seq(Timers) /\ Len(list) \in Nat
          BY TypeFacts
        <4>3. \A j \in 1 .. k : list[j] \in Timers
          BY <4>1, <4>2
        <4>4. runs' = [t \in Timers |-> IF t \in ran' \ Repeated /\ runs[t] < 2
                                        THEN runs[t] + 1 ELSE runs[t]]
          BY <1>3, <3>2 DEF Rtc1Handler
        <4>5. runs \in [Timers -> 0 .. 2]
          BY TypeFacts
        <4>6. runs' \in [Timers -> 0 .. 2]
          BY <4>4, <4>5
        <4>7. QED
          BY <4>1, <4>3, <4>6
      <3>3. QED
        BY <3>1, <3>2
    <2>3. TypeOK'
      BY <1>1, <2>1, <2>2 DEF TypeInv, TypeOK, Counts
    <2>4. QED
      BY <2>1, <2>2, <2>3 DEF TypeInv, IsTimerList
  <1>4. CASE Rtc1Queue
    <2>1. UNCHANGED <<counter, cc, armed, rtc, rtc1, ops, list, delta, latest, update,
                      restart, pre, lag, due, runs>>
          /\ elapsed' = expired /\ expired' = 0 /\ swi0' = TRUE /\ at' = "idle" /\ ran' = {}
      BY <1>4 DEF Rtc1Queue, rtcVars, listVars
    <2>2. 0 \in Counts /\ expired \in Counts
      BY Parameters DEF Counts, TypeInv
    <2>3. TypeOK'
      BY <1>1, <2>1, <2>2 DEF TypeInv, TypeOK, Counts
    <2>4. QED
      BY <2>1, <2>2, <2>3 DEF TypeInv, IsTimerList
  <1>5. CASE Swi0Deletions
    <2>1. PICK kept, k, ticks : Deletes(kept, k, ticks)
      BY <1>5, DeletesFacts
    <2>2. IsTimerList(list', delta') /\ restart' \in Seq(Requests) /\ ticks \in Counts
      BY <2>1 DEF Deletes, RestartedFrom
    <2>3. \A n \in 1 .. Len(list') : SumTo(list', delta', n) \in Counts
      <3> SUFFICES ASSUME NEW n \in 1 .. Len(list') PROVE SumTo(list', delta', n) \in Counts
        OBVIOUS
      <3>1. PICK j \in n .. Len(list) : SumTo(list', delta', n) = SumTo(list, delta, j) - ticks
        BY <2>1, DeletesPlaces DEF LeftPlaces
      <3>2. list' \in Seq(Timers) /\ delta' \in [Timers -> Nat]
        BY <2>2 DEF IsTimerList
      <3>3. SumTo(list', delta', n) \in Nat
        BY <3>2, SumGrows
      <3>4. SumTo(list, delta, j) \in Counts
        <4>1. j \in 1 .. Len(list)
          BY TypeFacts
        <4>2. QED
          BY <4>1 DEF TypeInv
      <3>5. QED
        BY <2>2, <3>1, <3>3, <3>4, Parameters DEF Counts
    <2>4. delta' \in [Timers -> Counts]
      BY <2>2, <2>3, DeltaBounded
    <2>5. latest' \in Counts
      <3>1. ticks \in Int /\ latest \in Int
        BY <2>2, TypeFacts, Parameters DEF Counts
      <3>2. latest' = Later(latest, ticks)
        BY <1>5, <2>1 DEF Swi0Deletions, Deletes
      <3>3. QED
        BY <3>1, <3>2, LaterType
    <2>6. UNCHANGED <<counter, cc, armed, rtc, rtc1, ops, expired, pre, lag, due, ran, runs>>
          /\ swi0' = FALSE /\ at' = "insertions" /\ elapsed' = None /\ update' \in BOOLEAN
      BY <1>5 DEF Swi0Deletions, rtcVars, ghostVars
    <2>7. list' \in Seq(Timers) /\ IsInjective(list')
      BY <2>2 DEF IsTimerList
    <2>8. TypeOK'
      BY <1>1, <2>4, <2>5, <2>6, <2>7 DEF TypeInv, TypeOK, Counts
    <2>9. QED
      BY <2>2, <2>3, <2>6, <2>8 DEF TypeInv, IsTimerList
  <1>6. CASE Swi0Insertions
    <2> DEFINE s == Inserted
    <2>1. Inserts(s)
      BY <1>6, InsertsFacts
    <2> HIDE DEF s
    <2>2. list' = s.list /\ delta' = s.delta /\ due' = s.due /\ runs' = s.runs
          /\ s \in Nodes /\ IsTimerList(s.list, s.delta)
      BY <2>1 DEF Inserts, InsertedFrom
    <2>3. IsTimerList(list', delta')
      BY <2>2
    <2>4. \A n \in 1 .. Len(list') : SumTo(list', delta', n) \in Counts
      BY <2>1 DEF Inserts, TypeInv
    <2>5. delta' \in [Timers -> Counts]
      BY <2>3, <2>4, DeltaBounded
    <2>6. due' \in [Timers -> Counts] /\ runs' \in [Timers -> 0 .. 2]
      BY <2>2 DEF Nodes, Counts
    <2>7. UNCHANGED <<counter, cc, armed, rtc1, swi0, latest, elapsed, expired, lag, ran>>
          /\ restart' = << >> /\ update' = FALSE
          /\ ops' = [u \in DOMAIN ops |-> << >>]
      BY <1>6 DEF Swi0Insertions
    <2>8. at' \in {"idle", "compare"} /\ pre' \in Counts /\ rtc' \in BOOLEAN
          /\ (at' = "compare" => list' # << >>)
      <3>1. counter \in Counts /\ pre \in Counts /\ rtc \in BOOLEAN
        BY TypeFacts DEF TypeInv, TypeOK
      <3>2. \/ at' = "compare" /\ pre' = counter /\ UNCHANGED rtc /\ list' # << >>
            \/ at' = "idle" /\ rtc' \in BOOLEAN /\ UNCHANGED pre
        BY <1>6 DEF Swi0Insertions
      <3>3. QED
        BY <3>1, <3>2
    <2>9. ops' \in [ToSet(Users) -> Seq(Requests)] /\ \A u \in DOMAIN ops' : Len(ops'[u]) <= OpQueueSize
      <3>1. DOMAIN ops = ToSet(Users)
        BY TypeFacts
      <3>2. << >> \in Seq(Requests) /\ Len(<< >>) <= OpQueueSize
        BY TimerAssumption
      <3>3. QED
        BY <2>7, <3>1, <3>2
    <2>10. list' \in Seq(Timers) /\ IsInjective(list')
      BY <2>3 DEF IsTimerList
    <2>11. TypeOK'
      BY <1>1, <2>5, <2>6, <2>7, <2>8, <2>9, <2>10 DEF TypeInv, TypeOK, Requests, Counts
    <2>12. << >> \in Seq(Requests)
      OBVIOUS
    <2>13. QED
      BY <2>3, <2>4, <2>7, <2>8, <2>11, <2>12 DEF TypeInv, IsTimerList
  <1>7. CASE Swi0Compare
    <2>1. UNCHANGED <<counter, rtc1, swi0, ops, list, delta, latest, elapsed, expired, update,
                      restart, pre, lag, due, ran, runs>>
          /\ at' = "check" /\ rtc' = TRUE /\ armed' \in BOOLEAN
      BY <1>7 DEF Swi0Compare, listVars, localVars, ghostVars
    <2>2. cc' \in Counts
      <3>1. cc' = Later(latest, CompareTicks) /\ at = "compare"
        BY <1>7 DEF Swi0Compare
      <3>2. CompareTicks \in Int
        BY <3>1, CompareFacts
      <3>3. latest \in Int
        BY TypeFacts, Parameters DEF Counts
      <3>4. QED
        BY <3>1, <3>2, <3>3, LaterType
    <2>3. TypeOK'
      BY <1>1, <2>1, <2>2 DEF TypeInv, TypeOK, Counts
    <2>4. at = "compare"
      BY <1>7 DEF Swi0Compare
    <2>5. QED
      BY <2>1, <2>3, <2>4 DEF TypeInv, IsTimerList
  <1>8. CASE Swi0Check
    <2>1. UNCHANGED <<counter, cc, armed, rtc, swi0, ops, list, delta, latest, elapsed, expired,
                      update, restart, lag, due, ran, runs>>
          /\ at' = "idle" /\ pre' = 0 /\ rtc1' \in BOOLEAN
      BY <1>8 DEF Swi0Check, rtcVars, listVars, ghostVars, TypeInv, TypeOK
    <2>2. 0 \in Counts
      BY Parameters DEF Counts
    <2>3. TypeOK'
      BY <1>1, <2>1, <2>2 DEF TypeInv, TypeOK, Counts
    <2>4. QED
      BY <2>1, <2>3 DEF TypeInv, IsTimerList
  <1>9. CASE LowResTimerStart \/ LowRequest \/ Edge
    <2>1. PICK u, new : Asking(u, new)
      BY <1>9, RequestCases
    <2>2. QED
      BY <2>1, RequestType DEF Asking
  <1>10. CASE UNCHANGED vars
    <2>1. UNCHANGED <<counter, cc, armed, rtc, rtc1, swi0, ops, list, delta, latest, elapsed, at,
                      expired, update, restart, pre, lag, due, ran, runs>>
      BY <1>10 DEF vars, rtcVars, listVars, localVars, ghostVars
    <2>2. TypeOK'
      BY <1>1, <2>1 DEF TypeInv, TypeOK
    <2>3. QED
      BY <2>1, <2>2 DEF TypeInv, IsTimerList
  <1>11. QED
    BY <1>2, <1>3, <1>4, <1>5, <1>6, <1>7, <1>8, <1>9, <1>10 DEF Next, Handlers

-------------------------------------------------------------------------------
(*****************************************************************************)
(* The repeated timer, and the requests that wait.                          *)
(*****************************************************************************)

BootQueued == \E u \in DOMAIN ops : \E i \in 1 .. Len(ops[u]) : ops[u][i].timer = BootTimer

\* Nobody stops the repeated timer, and it is in the list, or in the restart list
\* between the two stages, from its start on; before that nothing happens.
BootInv ==
  /\ \A u \in DOMAIN ops : \A i \in 1 .. Len(ops[u]) :
       ops[u][i].timer = BootTimer => ops[u][i].type = "start"
  /\ \A i \in 1 .. Len(restart) : restart[i].type = "start"
  /\ restart # << >> => at = "insertions"
  /\ rtc /\ at # "insertions" => BootTimer \in ToSet(list)
  /\ rtc /\ at = "insertions" =>
       BootTimer \in ToSet(list) \/ \E i \in 1 .. Len(restart) : restart[i].timer = BootTimer
  /\ ~ rtc => /\ ~ rtc1 /\ at \in {"idle", "insertions", "compare"}
              /\ counter = 0 /\ latest = 0 /\ elapsed = None /\ restart = << >>
              /\ at = "compare" => BootTimer \in ToSet(list)
              /\ at # "compare" => list = << >>
              /\ at = "insertions" \/ (at = "idle" /\ swi0) => BootQueued

CoreInv == TypeInv /\ NoRequestForgotten /\ BootInv

LEMMA InitCore ==
  ASSUME Init
  PROVE  CoreInv
  <1>1. TypeInv
    BY InitType
  <1>2. ops = [u \in ToSet(Users) |-> << >>] /\ restart = << >> /\ Len(restart) = 0
    BY DEF Init
  <1>3. \A u \in DOMAIN ops : ops[u] = << >> /\ Len(ops[u]) = 0
    BY <1>2
  <1>4. NoRequestForgotten
    BY <1>3 DEF NoRequestForgotten
  <1>5. BootInv
    BY <1>2, <1>3 DEF BootInv, Init
  <1>6. QED
    BY <1>1, <1>4, <1>5 DEF CoreInv

LEMMA RequestCore ==
  ASSUME CoreInv, NEW u, NEW new, Asking(u, new)
  PROVE  NoRequestForgotten' /\ BootInv'
  <1> DEFINE r == Enqueue(ops[u], new)
  <1>1. ops \in [ToSet(Users) -> Seq(Requests)] /\ u \in ToSet(Users) /\ new \in Seq(Requests) /\ new # << >>
        /\ Len(ops[u]) < OpQueueSize
    BY TypeFacts DEF CoreInv, Asking, Request
  <1>2. EnqueuedTo(r, ops[u], new)
    <2>1. ops[u] \in Seq(Requests)
      BY <1>1
    <2>2. QED
      BY <1>1, <2>1, EnqueueFacts
  <1>3. ops' = [ops EXCEPT ![u] = r] /\ swi0' = TRUE
    BY DEF Asking, Request, PendsSwi0
  <1>4. UNCHANGED <<counter, rtc, rtc1, list, latest, elapsed, at, restart>>
    BY DEF Asking, Request, rtcVars, listVars, localVars
  <1> HIDE DEF r
  <1>5. NoRequestForgotten'
    BY <1>3 DEF NoRequestForgotten
  <1>6. DOMAIN ops' = DOMAIN ops /\ ops'[u] = r /\ \A v \in DOMAIN ops : v # u => ops'[v] = ops[v]
    BY <1>1, <1>3
  <1>7. ASSUME NEW v \in DOMAIN ops', NEW i \in 1 .. Len(ops'[v]), ops'[v][i].timer = BootTimer
        PROVE  ops'[v][i].type = "start"
    <2>1. CASE v # u
      BY <1>6, <1>7, <2>1 DEF CoreInv, BootInv
    <2>2. CASE v = u
      <3>1. CASE \E x \in 1 .. Len(ops[u]) : r[i] = ops[u][x]
        BY <1>1, <1>6, <1>7, <2>2, <3>1 DEF CoreInv, BootInv
      <3>2. CASE \E x \in 1 .. Len(new) : r[i] = new[x]
        BY <1>6, <1>7, <2>2, <3>2 DEF Asking
      <3>3. QED
        BY <1>2, <1>6, <2>2, <3>1, <3>2 DEF EnqueuedTo
    <2>3. QED
      BY <2>1, <2>2
  <1>8. ASSUME ~ rtc, at = "insertions" \/ at = "idle" PROVE BootQueued'
    <2>1. u = "thread"
      BY <1>8 DEF Asking
    <2>2. new = <<Start(BootTimer)>>
      BY <2>1 DEF Asking
    <2>3. new[1].timer = BootTimer
      BY <2>2 DEF Start
    <2>4. PICK j \in 1 .. Len(r) : r[j] = new[1]
      BY <1>2 DEF EnqueuedTo
    <2>5. u \in DOMAIN ops' /\ j \in 1 .. Len(ops'[u]) /\ ops'[u][j].timer = BootTimer
      BY <1>1, <1>6, <2>3, <2>4
    <2>6. QED
      BY <2>5 DEF BootQueued
  <1>9. BootInv'
    BY <1>4, <1>7, <1>8 DEF CoreInv, BootInv
  <1>10. QED
    BY <1>5, <1>9

\* The repeated timer outlives the deletions ...
LEMMA BootDeletes ==
  ASSUME CoreInv, Swi0Deletions
  PROVE  NoRequestForgotten' /\ BootInv'
  <1>1. PICK kept, k, ticks : Deletes(kept, k, ticks)
    BY DeletesFacts DEF CoreInv
  <1>2. /\ \A n \in 1 .. Len(list') : \E j \in n .. Len(list) : list'[n] = list[j]
        /\ \A i \in 1 .. Len(restart') : restart'[i].type = "start" /\ elapsed # None
        /\ \A t \in ToSet(list) :
              \/ \E i \in 1 .. Len(Queued) : Queued[i].type = "stop" /\ Queued[i].timer = t
              \/ t \in ToSet(list')
              \/ t \notin Repeated
              \/ \E i \in 1 .. Len(restart') : restart'[i].timer = t
    <2>1. LeftPlaces(ticks) /\ RestartPlaces(ticks) /\ Survivors
      BY <1>1, DeletesPlaces DEF CoreInv
    <2>2. \A i \in 1 .. Len(restart') : restart'[i].type = "start" /\ elapsed # None
      <3> SUFFICES ASSUME NEW i \in 1 .. Len(restart')
                   PROVE  restart'[i].type = "start" /\ elapsed # None
        OBVIOUS
      <3>1. PICK j \in 1 .. Len(list) :
              /\ restart'[i] = [type |-> "start", timer |-> list[j],
                                ticks_at_start |-> Later(latest, SumTo(list, delta, j))]
              /\ elapsed # None
        BY <2>1 DEF RestartPlaces
      <3>2. QED
        BY <3>1
    <2>3. QED
      BY <2>1, <2>2 DEF LeftPlaces, Survivors
  <1>3. /\ at = "idle" /\ swi0 /\ at' = "insertions" /\ swi0' = FALSE /\ elapsed' = None
        /\ UNCHANGED <<counter, rtc, rtc1, ops>>
    BY DEF Swi0Deletions, rtcVars
  <1>4. NoRequestForgotten'
    BY <1>3 DEF NoRequestForgotten
  <1>5. ops \in [ToSet(Users) -> Seq(Requests)] /\ latest \in Counts
    BY TypeFacts DEF CoreInv
  <1>6. ~ \E i \in 1 .. Len(Queued) : Queued[i].type = "stop" /\ Queued[i].timer = BootTimer
    <2> SUFFICES ASSUME NEW j \in 1 .. Len(Queued), Queued[j].type = "stop", Queued[j].timer = BootTimer
                 PROVE  FALSE
      OBVIOUS
    <2>1. PICK u \in DOMAIN ops : \E i \in 1 .. Len(ops[u]) : Queued[j] = ops[u][i]
      BY <1>5, QueuedFacts
    <2>2. Queued[j].type = "start"
      BY <2>1 DEF CoreInv, BootInv
    <2>3. QED
      BY <2>2
  <1>7. rtc => BootTimer \in ToSet(list') \/ \E i \in 1 .. Len(restart') : restart'[i].timer = BootTimer
    <2>1. rtc => BootTimer \in ToSet(list) /\ BootTimer \in Repeated
      BY <1>3, TimerAssumption DEF CoreInv, BootInv
    <2>2. QED
      BY <1>2, <1>6, <2>1
  <1>8. list' \in Seq(Timers) /\ restart' \in Seq(Requests)
    BY <1>1 DEF Deletes, IsTimerList, RestartedFrom
  <1>9. ASSUME ~ rtc PROVE list' = << >> /\ restart' = << >> /\ latest' = 0 /\ BootQueued'
    <2>1. list = << >> /\ elapsed = None /\ latest = 0 /\ BootQueued
      BY <1>3, <1>9 DEF CoreInv, BootInv
    <2>2. Len(list') = 0
      <3>1. Len(list) = 0
        BY <2>1
      <3>2. Len(list') \in Nat
        BY <1>8
      <3>3. ASSUME Len(list') # 0 PROVE FALSE
        <4>1. 1 \in 1 .. Len(list')
          BY <3>2, <3>3
        <4>2. PICK j \in 1 .. Len(list) : TRUE
          BY <1>2, <4>1
        <4>3. QED
          BY <3>1
      <3>4. QED
        BY <3>3
    <2>3. Len(restart') = 0
      <3>1. Len(restart') \in Nat
        BY <1>8
      <3>2. ASSUME Len(restart') # 0 PROVE FALSE
        <4>1. 1 \in 1 .. Len(restart')
          BY <3>1, <3>2
        <4>2. QED
          BY <1>2, <2>1, <4>1
      <3>3. QED
        BY <3>2
    <2>4. latest' = Later(0, 0) /\ Later(0, 0) = 0
      <3>1. latest' = Later(0, 0)
        BY <2>1 DEF Swi0Deletions
      <3>2. 0 \in Counts /\ Wrap > 6 /\ Wrap \in Nat
        BY Parameters DEF Counts
      <3>3. QED
        BY <3>1, <3>2, LaterFacts
    <2>5. BootQueued'
      BY <1>3, <2>1 DEF BootQueued
    <2>6. QED
      BY <1>8, <2>2, <2>3, <2>4, <2>5
  <1>10. BootInv'
    BY <1>2, <1>3, <1>7, <1>9 DEF CoreInv, BootInv
  <1>11. QED
    BY <1>4, <1>10

\* ... and is in the list after the insertions, so that RTC1 goes on.
LEMMA BootInserts ==
  ASSUME CoreInv, Swi0Insertions
  PROVE  /\ BootTimer \in ToSet(list') /\ list' # << >> /\ rtc' = rtc
         /\ ~ rtc => at' = "compare"
  <1> DEFINE s == Inserted
             q == Asked
  <1>1. Inserts(s)
    BY InsertsFacts DEF CoreInv
  <1>2. ops \in [ToSet(Users) -> Seq(Requests)] /\ restart \in Seq(Requests) /\ Queued \in Seq(Requests)
        /\ list \in Seq(Timers) /\ rtc \in BOOLEAN
    BY TypeFacts DEF CoreInv, TypeInv, TypeOK
  <1>3. Joined(q, restart, Queued)
    BY <1>2, JoinedFacts DEF Asked
  <1>4. at = "insertions"
    BY DEF Swi0Insertions
  <1> HIDE DEF q, s
  <1>5. \A t \in ToSet(list) : t \in ToSet(s.list)
    BY <1>1 DEF Inserts, InsertedFrom
  <1>6. \A i \in 1 .. Len(q) : q[i].type = "start" => q[i].timer \in ToSet(s.list)
    BY <1>1 DEF Inserts, q
  <1>7. BootTimer \in ToSet(s.list)
    <2>1. CASE \E i \in 1 .. Len(restart) : restart[i].timer = BootTimer
      <3>1. PICK i \in 1 .. Len(restart) : restart[i].timer = BootTimer /\ restart[i].type = "start"
        BY <2>1 DEF CoreInv, BootInv
      <3>2. PICK j \in 1 .. Len(q) : q[j] = restart[i]
        BY <1>3 DEF Joined
      <3>3. QED
        BY <1>6, <3>1, <3>2
    <2>2. CASE BootTimer \in ToSet(list)
      BY <1>5, <2>2
    <2>3. CASE BootQueued
      <3>1. PICK u \in DOMAIN ops : \E i \in 1 .. Len(ops[u]) : ops[u][i].timer = BootTimer
        BY <2>3 DEF BootQueued
      <3>2. PICK i \in 1 .. Len(ops[u]) : ops[u][i].timer = BootTimer
        BY <3>1
      <3>3. ops[u][i].type = "start"
        BY <3>2 DEF CoreInv, BootInv
      <3>4. PICK j \in 1 .. Len(Queued) : Queued[j] = ops[u][i]
        BY <1>2, QueuedFacts
      <3>5. PICK n \in 1 .. Len(q) : q[n] = Queued[j]
        BY <1>3 DEF Joined
      <3>6. QED
        BY <1>6, <3>2, <3>3, <3>4, <3>5
    <2>4. QED
      BY <1>4, <2>1, <2>2, <2>3 DEF CoreInv, BootInv
  <1>8. s.list \in Seq(Timers) /\ s.list # << >>
    <2>1. s.list \in Seq(Timers)
      BY <1>1 DEF Inserts, InsertedFrom, Nodes
    <2>2. PICK n \in 1 .. Len(s.list) : s.list[n] = BootTimer
      BY <1>7, <2>1, ToSetFacts
    <2>3. QED
      BY <2>1, <2>2
  <1>9. list' = s.list
    BY <1>1 DEF Inserts
  <1>10. ~ rtc => HeadOf(list') # HeadOf(list)
    <2>1. ~ rtc => HeadOf(list) = None
      BY <1>4 DEF CoreInv, BootInv, HeadOf
    <2>2. HeadOf(list') = list'[1] /\ list'[1] \in Timers
      BY <1>8, <1>9 DEF HeadOf
    <2>3. None \notin Timers
      BY TimerAssumption
    <2>4. QED
      BY <2>1, <2>2, <2>3
  <1>11. LET must == update \/ HeadOf(list') # HeadOf(list) IN
           IF must THEN at' = "compare" /\ rtc' = rtc ELSE at' = "idle" /\ rtc' = rtc
    <2>1. LET must == update \/ HeadOf(s.list) # HeadOf(list) IN
           IF must /\ s.list # << >> THEN at' = "compare" /\ rtc' = rtc
           ELSE at' = "idle" /\ rtc' = (rtc /\ ~ must)
      BY DEF Swi0Insertions, Inserted, Asked, s
    <2>2. QED
      BY <1>2, <1>8, <1>9, <2>1
  <1>12. QED
    BY <1>7, <1>8, <1>9, <1>10, <1>11

LEMMA NextCore ==
  ASSUME CoreInv, [Next]_vars
  PROVE  CoreInv'
  <1>1. TypeInv'
    BY NextType DEF CoreInv
  <1> SUFFICES NoRequestForgotten' /\ BootInv'
    BY <1>1 DEF CoreInv
  <1>2. CASE Tick
    <2>1. rtc /\ UNCHANGED <<rtc, swi0, ops, list, latest, elapsed, at, restart>>
      BY <1>2 DEF Tick, listVars, localVars
    <2>2. QED
      BY <2>1 DEF CoreInv, NoRequestForgotten, BootInv
  <1>3. CASE Rtc1Handler
    <2>1. rtc1 /\ at = "idle" /\ at' \in {"idle", "rtc1"}
          /\ UNCHANGED <<rtc, swi0, ops, list, latest, elapsed, restart, counter>>
      BY <1>3 DEF Rtc1Handler, rtcVars, listVars
    <2>2. QED
      BY <2>1 DEF CoreInv, NoRequestForgotten, BootInv
  <1>4. CASE Rtc1Queue
    <2>1. at = "rtc1" /\ at' = "idle" /\ swi0' = TRUE
          /\ UNCHANGED <<rtc, ops, list, latest, restart, counter>>
      BY <1>4 DEF Rtc1Queue, rtcVars, listVars
    <2>2. QED
      BY <2>1 DEF CoreInv, NoRequestForgotten, BootInv
  <1>5. CASE Swi0Deletions
    BY <1>5, BootDeletes
  <1>6. CASE Swi0Insertions
    <2>1. /\ at = "insertions" /\ at' \in {"idle", "compare"}
          /\ ops' = [u \in DOMAIN ops |-> << >>] /\ restart' = << >>
          /\ UNCHANGED <<counter, rtc1, swi0, latest, elapsed>>
      BY <1>6 DEF Swi0Insertions
    <2>2. BootTimer \in ToSet(list') /\ rtc' = rtc /\ (~ rtc => at' = "compare")
      BY <1>6, BootInserts
    <2>3. \A u \in DOMAIN ops' : ops'[u] = << >> /\ Len(ops'[u]) = 0
      BY <2>1
    <2>4. Len(restart') = 0
      BY <2>1
    <2>5. QED
      BY <2>1, <2>2, <2>3, <2>4 DEF CoreInv, NoRequestForgotten, BootInv
  <1>7. CASE Swi0Compare
    <2>1. at = "compare" /\ at' = "check" /\ rtc' = TRUE
          /\ UNCHANGED <<swi0, ops, list, restart>>
      BY <1>7 DEF Swi0Compare, listVars, localVars
    <2>2. BootTimer \in ToSet(list)
      BY <2>1 DEF CoreInv, BootInv
    <2>3. QED
      BY <2>1, <2>2 DEF CoreInv, NoRequestForgotten, BootInv
  <1>8. CASE Swi0Check
    <2>1. at = "check" /\ at' = "idle" /\ UNCHANGED <<counter, latest, elapsed, rtc, swi0, ops, list, restart>>
      BY <1>8 DEF Swi0Check, listVars, rtcVars
    <2>2. QED
      BY <2>1 DEF CoreInv, NoRequestForgotten, BootInv
  <1>9. CASE LowResTimerStart \/ LowRequest \/ Edge
    <2>1. PICK u, new : Asking(u, new)
      BY <1>9, RequestCases DEF CoreInv
    <2>2. QED
      BY <2>1, RequestCore
  <1>10. CASE UNCHANGED vars
    <2>1. UNCHANGED <<counter, rtc, rtc1, swi0, ops, list, latest, elapsed, at, restart>>
      BY <1>10 DEF vars, rtcVars, listVars, localVars
    <2>2. QED
      BY <2>1 DEF CoreInv, NoRequestForgotten, BootInv, BootQueued
  <1>11. QED
    BY <1>2, <1>3, <1>4, <1>5, <1>6, <1>7, <1>8, <1>9, <1>10 DEF Next, Handlers

LEMMA CoreHolds ==
  Spec => []CoreInv
  <1>1. Init => CoreInv
    BY InitCore
  <1>2. CoreInv /\ [Next]_vars => CoreInv'
    BY NextCore
  <1>3. QED
    BY <1>1, <1>2, PTL DEF Spec

THEOREM TypeCorrect ==
  Spec => []TypeOK
  <1>1. CoreInv => TypeOK
    BY DEF CoreInv, TypeInv
  <1>2. QED
    BY <1>1, CoreHolds, PTL

THEOREM RequestsServed ==
  Spec => []NoRequestForgotten
  <1>1. CoreInv => NoRequestForgotten
    BY DEF CoreInv
  <1>2. QED
    BY <1>1, CoreHolds, PTL

THEOREM TickStays ==
  Spec => []TickNeverLost
  <1>1. CoreInv => TickNeverLost
    BY DEF CoreInv, BootInv, TickNeverLost, Running
  <1>2. QED
    BY <1>1, CoreHolds, PTL

-------------------------------------------------------------------------------
(*****************************************************************************)
(* The arithmetic of counter values.                                        *)
(*****************************************************************************)

\* All counter values count from any one of them.
LEMMA DiffBetween ==
  ASSUME NEW x \in Counts, NEW y \in Counts, NEW b \in Counts
  PROVE  Diff(x, y) = IF Diff(y, b) <= Diff(x, b) THEN Diff(x, b) - Diff(y, b)
                      ELSE Diff(x, b) - Diff(y, b) + Wrap
  <1>1. /\ Diff(x, y) = IF y <= x THEN x - y ELSE x - y + Wrap
        /\ Diff(y, b) = IF b <= y THEN y - b ELSE y - b + Wrap
        /\ Diff(x, b) = IF b <= x THEN x - b ELSE x - b + Wrap
    BY DiffFacts
  <1>2. x \in Nat /\ y \in Nat /\ b \in Nat /\ x < Wrap /\ y < Wrap /\ b < Wrap /\ Wrap \in Nat
    BY Parameters DEF Counts
  <1> DEFINE p == Diff(x, y)
             q == Diff(y, b)
             r == Diff(x, b)
  <1> HIDE DEF p, q, r
  <1>3. /\ p = IF y <= x THEN x - y ELSE x - y + Wrap
        /\ q = IF b <= y THEN y - b ELSE y - b + Wrap
        /\ r = IF b <= x THEN x - b ELSE x - b + Wrap
    BY <1>1 DEF p, q, r
  <1>4. p = IF q <= r THEN r - q ELSE r - q + Wrap
    BY <1>2, <1>3
  <1>5. QED
    BY <1>4 DEF p, q, r

LEMMA LaterDiff ==
  ASSUME NEW b \in Counts, NEW k \in Counts
  PROVE  /\ Later(b, k) \in Counts
         /\ Diff(Later(b, k), b) = k
  <1> DEFINE z == Later(b, k)
  <1>1. z \in Counts /\ z = IF b + k < Wrap THEN b + k ELSE b + k - Wrap
    BY LaterFacts
  <1> HIDE DEF z
  <1>2. Diff(z, b) = IF b <= z THEN z - b ELSE z - b + Wrap
    BY <1>1, DiffFacts
  <1>3. b \in Nat /\ k \in Nat /\ b < Wrap /\ k < Wrap /\ Wrap \in Nat
    BY Parameters DEF Counts
  <1>4. (IF b <= z THEN z - b ELSE z - b + Wrap) = k
    BY <1>1, <1>3
  <1>5. QED
    BY <1>1, <1>2, <1>4 DEF z

LEMMA DiffLater ==
  ASSUME NEW x \in Counts, NEW b \in Counts
  PROVE  Later(b, Diff(x, b)) = x
  <1> DEFINE k == Diff(x, b)
  <1>1. k \in Counts /\ k = IF b <= x THEN x - b ELSE x - b + Wrap
    BY DiffFacts
  <1> HIDE DEF k
  <1>2. Later(b, k) = IF b + k < Wrap THEN b + k ELSE b + k - Wrap
    BY <1>1, LaterFacts
  <1>3. b \in Nat /\ x \in Nat /\ k \in Nat /\ b < Wrap /\ x < Wrap /\ Wrap \in Nat
    BY <1>1, Parameters DEF Counts
  <1>4. (IF b + k < Wrap THEN b + k ELSE b + k - Wrap) = x
    BY <1>1, <1>3
  <1>5. QED
    BY <1>2, <1>4 DEF k

LEMMA LaterLater ==
  ASSUME NEW b \in Counts, NEW k \in Counts, NEW n \in Counts, k + n \in Counts
  PROVE  Later(Later(b, k), n) = Later(b, k + n)
  <1> DEFINE z == Later(b, k)
             s == k + n
  <1>1. z \in Counts /\ z = IF b + k < Wrap THEN b + k ELSE b + k - Wrap
    BY LaterFacts
  <1>2. s \in Counts /\ s = k + n
    OBVIOUS
  <1> HIDE DEF z, s
  <1>3. Later(z, n) = IF z + n < Wrap THEN z + n ELSE z + n - Wrap
    BY <1>1, LaterFacts
  <1>4. Later(b, s) = IF b + s < Wrap THEN b + s ELSE b + s - Wrap
    BY <1>2, LaterFacts
  <1>5. b \in Nat /\ k \in Nat /\ n \in Nat /\ s < Wrap /\ b < Wrap /\ k < Wrap /\ Wrap \in Nat
    BY <1>2, Parameters DEF Counts
  <1>6. (IF z + n < Wrap THEN z + n ELSE z + n - Wrap) = (IF b + s < Wrap THEN b + s ELSE b + s - Wrap)
    BY <1>1, <1>2, <1>5
  <1>7. QED
    BY <1>3, <1>4, <1>6 DEF z, s

\* One tick of RTC1.
LEMMA TickFacts ==
  ASSUME NEW n \in Counts, NEW x \in Counts
  PROVE  /\ Later(n, 1) \in Counts
         /\ Diff(n, x) + 1 < Wrap => Diff(Later(n, 1), x) = Diff(n, x) + 1
         /\ Diff(x, n) >= 1 => Diff(x, Later(n, 1)) = Diff(x, n) - 1
         /\ Later(n, 1) = x <=> Diff(x, n) = 1
  <1> DEFINE z == Later(n, 1)
  <1>0. Wrap \in Nat /\ Wrap > 6 /\ 1 \in Counts
    BY Parameters DEF Counts
  <1>1. z \in Counts /\ z = IF n + 1 < Wrap THEN n + 1 ELSE n + 1 - Wrap
    BY <1>0, LaterFacts
  <1> HIDE DEF z
  <1>2. /\ Diff(z, x) = IF x <= z THEN z - x ELSE z - x + Wrap
        /\ Diff(n, x) = IF x <= n THEN n - x ELSE n - x + Wrap
        /\ Diff(x, z) = IF z <= x THEN x - z ELSE x - z + Wrap
        /\ Diff(x, n) = IF n <= x THEN x - n ELSE x - n + Wrap
    BY <1>1, DiffFacts
  <1> DEFINE p == Diff(z, x)
             q == Diff(n, x)
             r == Diff(x, z)
             s == Diff(x, n)
  <1> HIDE DEF p, q, r, s
  <1>3. n \in Nat /\ x \in Nat /\ z \in Nat /\ n < Wrap /\ x < Wrap /\ z < Wrap
    BY <1>0, <1>1 DEF Counts
  <1>4. p = (IF x <= z THEN z - x ELSE z - x + Wrap) /\ q = (IF x <= n THEN n - x ELSE n - x + Wrap)
    BY <1>2 DEF p, q
  <1>5. r = (IF z <= x THEN x - z ELSE x - z + Wrap) /\ s = (IF n <= x THEN x - n ELSE x - n + Wrap)
    BY <1>2 DEF r, s
  <1>6. q + 1 < Wrap => p = q + 1
    BY <1>0, <1>1, <1>3, <1>4
  <1>7. (s >= 1 => r = s - 1) /\ (z = x <=> s = 1)
    BY <1>0, <1>1, <1>3, <1>5
  <1>8. QED
    BY <1>1, <1>6, <1>7 DEF z, p, q, r, s

\* A start is counted right although m_ticks_latest lies between it and the counter,
\* on either side.
LEMMA ExpiryFacts ==
  ASSUME NEW start \in Counts, NEW t \in Timers, counter \in Counts, latest \in Counts,
         Diff(counter, start) <= Jitter,
         2 * (Diff(counter, latest) + 1) < Wrap
  PROVE  /\ TicksToExpire(start, Interval[t])
              = Diff(counter, latest) - Diff(counter, start) + Interval[t]
         /\ Later(start, Interval[t]) = Later(latest, TicksToExpire(start, Interval[t]))
  <1> DEFINE I == Interval[t]
             half == (Wrap - 1) \div 2
             ahead == Diff(start, latest)
             behind == Diff(latest, start)
             n == Diff(counter, latest)
             a == Diff(counter, start)
             x == TicksToExpire(start, I)
  <1>1. Wrap \in Nat /\ Wrap > 6 /\ I \in Nat /\ Jitter \in Nat /\ Jitter < I /\ 2 * (I + Jitter + 1) < Wrap
    BY Parameters
  <1>2. ahead \in Counts /\ behind \in Counts /\ n \in Counts /\ a \in Counts
    BY DiffFacts
  <1>3. half \in Nat /\ 2 * half <= Wrap - 1 /\ Wrap - 2 <= 2 * half
    <2> DEFINE w == Wrap - 1
    <2>1. w \in Nat
      BY <1>1
    <2> HIDE DEF w
    <2>2. w \div 2 \in Nat /\ 2 * (w \div 2) <= w /\ w <= 2 * (w \div 2) + 1
      BY <2>1
    <2>3. half = w \div 2
      BY DEF w
    <2> HIDE DEF half
    <2>4. QED
      BY <1>1, <2>2, <2>3 DEF w
  <1>4. x = IF ahead < half THEN ahead + I ELSE IF I > behind THEN I - behind ELSE 0
    BY DEF TicksToExpire
  <1>5. a = IF ahead <= n THEN n - ahead ELSE n - ahead + Wrap
    BY DiffBetween
  <1>6. ahead = (IF latest <= start THEN start - latest ELSE start - latest + Wrap)
        /\ behind = (IF start <= latest THEN latest - start ELSE latest - start + Wrap)
    BY DiffFacts
  <1>7. a <= Jitter /\ 2 * (n + 1) < Wrap
    OBVIOUS
  <1>8. x \in Counts
    BY ExpiryType
  <1>9. Later(latest, x) = (IF latest + x < Wrap THEN latest + x ELSE latest + x - Wrap)
    BY <1>8, LaterFacts
  <1>10. I \in Counts
    BY <1>1 DEF Counts
  <1>11. Later(start, I) = (IF start + I < Wrap THEN start + I ELSE start + I - Wrap)
    BY <1>10, LaterFacts
  <1>12. /\ start \in Nat /\ latest \in Nat /\ start < Wrap /\ latest < Wrap
         /\ n \in Nat /\ a \in Nat /\ ahead \in Nat /\ behind \in Nat /\ x \in Nat
         /\ ahead < Wrap /\ behind < Wrap /\ x < Wrap
    BY <1>1, <1>2, <1>8 DEF Counts
  <1> HIDE DEF I, half, ahead, behind, n, a, x
  <1>13. x = n - a + I /\ ahead \in {n - a, n - a + Wrap}
    <2>1. CASE ahead <= n
      <3>1. ahead = n - a
        BY <1>5, <1>12, <2>1
      <3>2. ahead < half
        BY <1>1, <1>3, <1>7, <1>12, <2>1
      <3>3. QED
        BY <1>4, <3>1, <3>2
    <2>2. CASE ~ (ahead <= n)
      <3>1. ahead = n - a + Wrap
        BY <1>1, <1>5, <1>12, <2>2
      <3>2. ~ (ahead < half)
        BY <1>1, <1>3, <1>7, <1>12, <3>1
      <3>3. behind = a - n
        <4>1. ahead # 0
          BY <1>1, <1>7, <1>12, <3>1
        <4>2. behind = Wrap - ahead
          BY <1>1, <1>6, <1>12, <4>1
        <4>3. QED
          BY <1>1, <1>12, <3>1, <4>2
      <3>4. I > behind
        BY <1>1, <1>7, <1>12, <3>3
      <3>5. x = I - behind
        BY <1>4, <3>2, <3>4
      <3>6. QED
        BY <1>1, <1>12, <3>1, <3>3, <3>5
    <2>3. QED
      BY <2>1, <2>2
  <1>14. (IF start + I < Wrap THEN start + I ELSE start + I - Wrap)
         = (IF latest + x < Wrap THEN latest + x ELSE latest + x - Wrap)
    <2>1. ahead = start - latest \/ ahead = start - latest + Wrap
      BY <1>6
    <2>2. latest + x = start + I \/ latest + x = start + I - Wrap \/ latest + x = start + I + Wrap
          \/ latest + x = start + I - Wrap - Wrap
      BY <1>1, <1>12, <1>13, <2>1
    <2>3. I < Wrap
      BY <1>1
    <2>4. QED
      BY <1>1, <1>12, <2>2, <2>3
  <1>15. QED
    BY <1>9, <1>11, <1>13, <1>14 DEF I, n, a, x

-------------------------------------------------------------------------------
(*****************************************************************************)
(* The invariant of the timing.                                             *)
(*****************************************************************************)

\* Ticks from m_ticks_latest to the expiry of a timer, to the counter, and to its
\* value when compare_reg_update began; and from the counter to CC[0].
Total(k) == SumTo(list, delta, k)
Now == Diff(counter, latest)
PreNow == Diff(pre, latest)
Gap == Diff(cc, counter)
Age(op) == Diff(counter, op.ticks_at_start)

\* How late a timer may be served: two ticks for each that can still be put before
\* it, two when it is the head itself, and the latency of the handlers.
Slack(k) == 2 + MaxLag + 2 * (Cardinality(Timers) - k)

\* The deltas add up, nobody waits longer than its interval.
DueInv ==
  \A k \in 1 .. Len(list) :
    /\ due[list[k]] = Later(latest, Total(k))
    /\ Total(k) <= Now + Interval[list[k]]
    /\ list[k] = BootTimer => Total(k) <= Interval[BootTimer]

OverdueInv == \A k \in 1 .. Len(list) : Now <= Total(k) + Slack(k) + lag

\* The starts that wait have not waited long.
AgeInv ==
  /\ \A u \in DOMAIN ops : \A i \in 1 .. Len(ops[u]) :
       ops[u][i].type = "start" => Age(ops[u][i]) <= lag
  /\ \A i \in 1 .. Len(restart) : Now <= Age(restart[i]) /\ Age(restart[i]) <= Slack(1) + lag
  /\ rtc \/ at = "compare" => ~ BootQueued

\* The compare register matches, and in time for each timer, with c ticks to spare.
Ahead(c) ==
  /\ armed /\ Gap >= 1
  /\ \A k \in 1 .. Len(list) : Now + Gap + c <= Total(k) + Slack(k)

\* ... and before any is due, unless it is close.
Waiting == Ahead(0) /\ (Gap <= 3 \/ \A k \in 1 .. Len(list) : Now + Gap <= Total(k))

\* No timer is later than the handlers are.
InTime == \A k \in 1 .. Len(list) : Now < Total(k) + lag

\* Taking n ticks leaves no timer that is.
Settled(n) == n <= Now /\ \A k \in 1 .. Len(list) : Total(k) <= n \/ Now < Total(k) + lag

\* What compare_reg_update writes, from m_ticks_latest.
Compared == IF Total(1) >= PreNow + 3 THEN Total(1) ELSE PreNow + 3

IdleInv ==
  /\ elapsed # None => swi0 /\ at \in {"idle", "rtc1"} /\ Settled(elapsed)
  /\ at = "rtc1" => Settled(expired)
  /\ at # "rtc1" => ran = {}
  /\ rtc /\ ~ rtc1 /\ at = "idle" /\ elapsed = None => Waiting

InsertInv ==
  /\ rtc /\ ~ rtc1 /\ at = "insertions" /\ ~ update => Waiting /\ restart = << >>
  /\ rtc /\ ~ rtc1 /\ at = "insertions" /\ update => InTime \/ Ahead(2)

CompareInv ==
  /\ at \in {"compare", "check"} => PreNow <= Now
  /\ at = "compare" => rtc1 \/ \A k \in 1 .. Len(list) : PreNow + 3 <= Total(k) + Slack(k)
  /\ at = "check" =>
       /\ cc = Later(latest, Compared)
       /\ Now + 3 <= Compared => armed
       /\ rtc1 \/ \A k \in 1 .. Len(list) : Compared <= Total(k) + Slack(k)

Timing == DueInv /\ OverdueInv /\ AgeInv /\ IdleInv /\ InsertInv /\ CompareInv
TimeInv == CoreInv /\ Timing

LEMMA LenBound ==
  ASSUME NEW l \in Seq(Timers), IsInjective(l)
  PROVE  Len(l) <= Cardinality(Timers)
  <1>1. Len(l) \in Nat /\ l \in [1 .. Len(l) -> Timers]
    OBVIOUS
  <1>2. l \in Injection(1 .. Len(l), Timers)
    BY <1>1 DEF Injection
  <1>3. IsFiniteSet(Timers)
    BY TimerAssumption
  <1>4. Cardinality(1 .. Len(l)) <= Cardinality(Timers)
    BY <1>2, <1>3, FS_Injection
  <1>5. Cardinality(1 .. Len(l)) = Len(l)
    <2>1. 1 \in Int /\ Len(l) \in Int
      BY <1>1
    <2>2. Cardinality(1 .. Len(l)) = IF 1 > Len(l) THEN 0 ELSE Len(l) - 1 + 1
      BY <2>1, FS_Interval
    <2>3. QED
      BY <1>1, <2>2
  <1>6. QED
    BY <1>4, <1>5

\* How the slack of the timers of a list compares.
LEMMA SlackFacts ==
  ASSUME Cardinality(Timers) >= 3, NEW l \in Seq(Timers), IsInjective(l)
  PROVE  /\ \A k \in 1 .. Len(l) : Slack(k) \in Nat /\ 2 + MaxLag <= Slack(k) /\ Slack(k) <= Slack(1)
         /\ \A j, k \in 1 .. Len(l) : j > k => Slack(j) + 2 <= Slack(k)
         /\ Slack(1) \in Nat /\ Slack(1) + MaxLag <= Jitter
  <1>1. Cardinality(Timers) \in Nat /\ MaxLag \in Nat
        /\ Jitter = 3 * (Cardinality(Timers) - 1) + 2 * MaxLag
    BY Parameters
  <1>2. Len(l) \in Nat /\ Len(l) <= Cardinality(Timers)
    BY LenBound
  <1> DEFINE N == Cardinality(Timers)
             S(k) == 2 + MaxLag + 2 * (N - k)
  <1> HIDE DEF N
  <1>3. N \in Nat /\ N >= 3 /\ Len(l) <= N /\ Len(l) \in Nat /\ MaxLag \in Nat
    BY <1>1, <1>2 DEF N
  <1>4. \A k : Slack(k) = S(k)
    BY DEF Slack, N
  <1>5. \A k \in 1 .. Len(l) : S(k) \in Nat /\ 2 + MaxLag <= S(k) /\ S(k) <= S(1)
    BY <1>3
  <1>6. \A j, k \in 1 .. Len(l) : j > k => S(j) + 2 <= S(k)
    BY <1>3
  <1>7. S(1) \in Nat /\ S(1) + MaxLag <= 3 * (N - 1) + 2 * MaxLag
    BY <1>3
  <1>8. Jitter = 3 * (N - 1) + 2 * MaxLag
    BY <1>1 DEF N
  <1> HIDE DEF S
  <1>9. QED
    BY <1>4, <1>5, <1>6, <1>7, <1>8

\* The sums of a list do not fall.
LEMMA TotalFacts ==
  ASSUME TypeInv
  PROVE  /\ \A k \in 1 .. Len(list) : Total(k) \in Nat /\ Total(k) < Wrap /\ Total(1) <= Total(k)
         /\ \A j, k \in 1 .. Len(list) : j <= k => Total(j) <= Total(k)
  <1>1. list \in Seq(Timers) /\ Len(list) \in Nat /\ delta \in [Timers -> Nat]
    BY TypeFacts
  <1>2. \A k \in 1 .. Len(list) : SumTo(list, delta, k) \in Counts
    BY DEF TypeInv
  <1>3. Wrap \in Nat
    BY Parameters
  <1>4. \A k \in 1 .. Len(list) : Total(k) \in Nat /\ Total(k) < Wrap
    BY <1>2, <1>3 DEF Counts, Total
  <1>5. \A j, k \in 0 .. Len(list) : j <= k => Total(j) <= Total(k)
    BY <1>1, SumGrows DEF Total
  <1>6. \A k \in 1 .. Len(list) : 1 \in 0 .. Len(list) /\ k \in 0 .. Len(list) /\ 1 <= k
    BY <1>1
  <1>7. QED
    BY <1>4, <1>5, <1>6

\* The counter is never so far from m_ticks_latest that ticks_diff_get is wrong.
Near ==
  /\ Now \in Nat /\ 2 * (Now + 1) < Wrap /\ Now \in Counts
  /\ lag \in Nat /\ lag <= MaxLag

LEMMA NearFacts ==
  ASSUME TimeInv, Cardinality(Timers) >= 3
  PROVE  Near
  <1>1. /\ counter \in Counts /\ latest \in Counts /\ list \in Seq(Timers) /\ lag \in 0 .. MaxLag
        /\ restart \in Seq(Requests) /\ Len(restart) \in Nat
    <2>1. TypeInv
      BY DEF TimeInv, CoreInv
    <2>2. restart \in Seq(Requests)
      BY <2>1 DEF TypeInv
    <2>3. QED
      BY <2>1, <2>2, TypeFacts
  <1>2. IsInjective(list)
    BY DEF TimeInv, CoreInv, TypeInv, IsTimerList
  <1>3. Now \in Counts
    BY <1>1, DiffFacts DEF Now
  <1>4. /\ Wrap \in Nat /\ Wrap > 6 /\ Jitter \in Nat /\ MaxLag \in Nat
        /\ Interval[BootTimer] \in Nat /\ 2 * (Interval[BootTimer] + Jitter + 1) < Wrap
    <2>1. BootTimer \in Timers
      BY TimerAssumption
    <2>2. QED
      BY <2>1, Parameters
  <1>5. Now \in Nat /\ lag \in Nat /\ lag <= MaxLag
    BY <1>1, <1>3, <1>4 DEF Counts
  <1>6. Slack(1) \in Nat /\ Slack(1) + MaxLag <= Jitter
    BY <1>1, <1>2, SlackFacts
  <1>7. CASE ~ rtc
    <2>1. counter = 0 /\ latest = 0
      BY <1>7 DEF TimeInv, CoreInv, BootInv
    <2>2. Now = 0
      BY <1>1, <2>1, DiffFacts DEF Now
    <2>3. QED
      BY <1>3, <1>4, <1>5, <2>2 DEF Near
  <1>8. CASE rtc /\ BootTimer \in ToSet(list)
    <2>1. PICK k \in 1 .. Len(list) : list[k] = BootTimer
      BY <1>1, <1>8, ToSetFacts
    <2>2. Total(k) <= Interval[BootTimer] /\ Now <= Total(k) + Slack(k) + lag
      BY <2>1 DEF TimeInv, Timing, DueInv, OverdueInv
    <2>3. Total(k) \in Nat
      BY TotalFacts DEF TimeInv, CoreInv
    <2>4. Slack(k) \in Nat /\ Slack(k) <= Slack(1)
      BY <1>1, <1>2, SlackFacts
    <2>5. Now <= Interval[BootTimer] + Jitter
      <3>1. Slack(k) + lag <= Jitter
        BY <1>4, <1>5, <1>6, <2>4
      <3> DEFINE I == Interval[BootTimer]
                 x == Total(k)
                 y == Slack(k)
      <3>2. x <= I /\ Now <= x + y + lag /\ y + lag <= Jitter /\ x \in Nat /\ y \in Nat /\ I \in Nat
        BY <1>4, <2>2, <2>3, <2>4, <3>1
      <3> HIDE DEF I, x, y
      <3>3. Now <= I + Jitter
        BY <1>4, <1>5, <3>2
      <3>4. QED
        BY <3>3 DEF I
    <2>6. 2 * (Now + 1) < Wrap
      BY <1>4, <1>5, <2>5
    <2>7. QED
      BY <1>3, <1>5, <2>6 DEF Near
  <1>9. CASE rtc /\ \E i \in 1 .. Len(restart) : restart[i].timer = BootTimer
    <2>1. PICK i \in 1 .. Len(restart) : restart[i].timer = BootTimer
      BY <1>9
    <2>2. Now <= Age(restart[i]) /\ Age(restart[i]) <= Slack(1) + lag
      BY <2>1 DEF TimeInv, Timing, AgeInv
    <2>3. Age(restart[i]) \in Nat
      <3>1. restart[i].ticks_at_start \in Counts
        <4>1. restart[i] \in Requests
          BY <1>1
        <4>2. QED
          BY <4>1 DEF Requests
      <3>2. Age(restart[i]) \in Counts
        BY <1>1, <3>1, DiffFacts DEF Age
      <3>3. QED
        BY <1>4, <3>2 DEF Counts
    <2>4. Now <= Jitter
      BY <1>4, <1>5, <1>6, <2>2, <2>3
    <2>5. 2 * (Now + 1) < Wrap
      BY <1>4, <1>5, <2>4
    <2>6. QED
      BY <1>3, <1>5, <2>5 DEF Near
  <1>10. QED
    <2>1. rtc /\ at # "insertions" => BootTimer \in ToSet(list)
      BY DEF TimeInv, CoreInv, BootInv
    <2>2. rtc /\ at = "insertions" => BootTimer \in ToSet(list)
                                      \/ \E i \in 1 .. Len(restart) : restart[i].timer = BootTimer
      BY DEF TimeInv, CoreInv, BootInv
    <2>3. QED
      BY <1>7, <1>8, <1>9, <2>1, <2>2

-------------------------------------------------------------------------------
(*****************************************************************************)
(* The timing is kept: a tick of the counter.                               *)
(*****************************************************************************)

LEMMA InitTime ==
  ASSUME Init, Cardinality(Timers) >= 3
  PROVE  TimeInv
  <1>1. CoreInv
    BY InitCore
  <1>2. /\ counter = 0 /\ latest = 0 /\ rtc = FALSE /\ at = "idle" /\ elapsed = None
        /\ list = << >> /\ restart = << >> /\ ran = {} /\ ops = [u \in ToSet(Users) |-> << >>]
    BY DEF Init
  <1>3. Len(list) = 0 /\ Len(restart) = 0 /\ \A u \in DOMAIN ops : Len(ops[u]) = 0
    BY <1>2
  <1>4. \A k \in 1 .. 0 : FALSE
    OBVIOUS
  <1>5. DueInv /\ OverdueInv
    BY <1>3, <1>4 DEF DueInv, OverdueInv
  <1>6. AgeInv
    BY <1>2, <1>3, <1>4 DEF AgeInv
  <1>7. IdleInv /\ InsertInv /\ CompareInv
    BY <1>2 DEF IdleInv, InsertInv, CompareInv
  <1>8. QED
    BY <1>1, <1>5, <1>6, <1>7 DEF TimeInv, Timing

LEMMA TickTime ==
  ASSUME TimeInv, Cardinality(Timers) >= 3, Tick
  PROVE  Timing'
  <1>1. /\ rtc /\ counter' = Later(counter, 1)
        /\ rtc1' = (rtc1 \/ (armed /\ counter' = cc))
        /\ (armed => armed')
        /\ lag' = IF Busy THEN lag + 1 ELSE 0
        /\ UNCHANGED <<cc, rtc, swi0, ops, list, delta, latest, elapsed, at, expired, update,
                       restart, pre, due, ran>>
    BY DEF Tick, listVars, localVars, ghostVars
  <1>2. TypeInv /\ Near
    BY NearFacts DEF TimeInv, CoreInv
  <1>3. /\ counter \in Counts /\ latest \in Counts /\ cc \in Counts
        /\ ops \in [ToSet(Users) -> Seq(Requests)]
        /\ list \in Seq(Timers) /\ Len(list) \in Nat
    BY <1>2, TypeFacts
  <1>4. restart \in Seq(Requests) /\ IsInjective(list)
    BY <1>2 DEF TypeInv, IsTimerList
  <1>5. Now \in Nat /\ 2 * (Now + 1) < Wrap /\ lag \in Nat /\ lag <= MaxLag
    BY <1>2 DEF Near
  <1>6. Wrap \in Nat /\ Jitter \in Nat /\ MaxLag \in Nat /\ 2 * Jitter + 2 < Wrap
    <2>1. BootTimer \in Timers
      BY TimerAssumption
    <2>2. /\ Wrap \in Nat /\ Jitter \in Nat /\ MaxLag \in Nat /\ Interval[BootTimer] \in Nat
          /\ 2 * (Interval[BootTimer] + Jitter + 1) < Wrap
      BY <2>1, Parameters
    <2>3. QED
      BY <2>2
  <1>7. Slack(1) \in Nat /\ Slack(1) + MaxLag <= Jitter
        /\ \A k \in 1 .. Len(list) : Slack(k) \in Nat
    BY <1>3, <1>4, SlackFacts
  <1>8. \A k \in 1 .. Len(list) : Total(k) \in Nat /\ Total(k)' = Total(k) /\ Slack(k)' = Slack(k)
    BY <1>1, <1>2, TotalFacts DEF Total, Slack
  <1>9. Now' = Now + 1
    BY <1>1, <1>3, <1>5, <1>6, TickFacts DEF Now
  <1>10. /\ Gap \in Nat /\ (Gap >= 1 => Gap' = Gap - 1) /\ (counter' = cc <=> Gap = 1)
    <2>1. Gap \in Counts
      BY <1>3, DiffFacts DEF Gap
    <2>2. QED
      BY <1>1, <1>3, <1>6, <2>1, TickFacts DEF Gap, Counts
  <1>11. ASSUME NEW op \in Requests, Age(op) <= Jitter
         PROVE  Age(op) \in Nat /\ Age(op)' = Age(op) + 1
    <2>1. op.ticks_at_start \in Counts
      BY DEF Requests
    <2>2. Age(op) \in Counts
      BY <1>3, <2>1, DiffFacts DEF Age
    <2>3. Age(op) \in Nat /\ Age(op) + 1 < Wrap
      BY <1>6, <1>11, <2>2 DEF Counts
    <2>4. QED
      BY <1>1, <1>3, <2>1, <2>3, TickFacts DEF Age
  <1>12. DueInv'
    <2>1. ASSUME NEW k \in 1 .. Len(list)
          PROVE  /\ due[list[k]] = Later(latest, Total(k))
                 /\ Total(k) <= Now + 1 + Interval[list[k]]
                 /\ list[k] = BootTimer => Total(k) <= Interval[BootTimer]
      <3>1. /\ due[list[k]] = Later(latest, Total(k))
            /\ Total(k) <= Now + Interval[list[k]]
            /\ list[k] = BootTimer => Total(k) <= Interval[BootTimer]
        BY DEF TimeInv, Timing, DueInv
      <3>2. Interval[list[k]] \in Nat
        <4>1. list[k] \in Timers
          BY <1>3
        <4>2. QED
          BY <4>1, Parameters
      <3>3. Total(k) \in Nat
        BY <1>8
      <3>4. Total(k) <= Now + 1 + Interval[list[k]]
        BY <1>5, <3>1, <3>2, <3>3
      <3>5. QED
        BY <3>1, <3>4
    <2>2. QED
      BY <1>1, <1>8, <1>9, <2>1 DEF DueInv
  <1>13. elapsed = None \/ Busy
    BY DEF TimeInv, Timing, IdleInv, Busy
  <1>14. Busy => lag' = lag + 1
    BY <1>1
  <1>15. ~ Busy => lag' = 0 /\ at = "idle" /\ ~ rtc1 /\ ~ swi0
    BY <1>1 DEF Busy
  <1>16. OverdueInv'
    <2>1. ASSUME NEW k \in 1 .. Len(list) PROVE Now + 1 <= Total(k) + Slack(k) + lag'
      <3>1. Total(k) \in Nat /\ Slack(k) \in Nat
        BY <1>7, <1>8
      <3>2. CASE Busy
        <4>1. Now <= Total(k) + Slack(k) + lag
          BY DEF TimeInv, Timing, OverdueInv
        <4>2. QED
          BY <1>5, <1>14, <3>1, <3>2, <4>1
      <3>3. CASE ~ Busy
        <4>1. Waiting
          BY <1>1, <1>13, <1>15, <3>3 DEF TimeInv, Timing, IdleInv
        <4>2. Now + Gap + 0 <= Total(k) + Slack(k) /\ Gap >= 1
          BY <4>1 DEF Waiting, Ahead
        <4>3. QED
          BY <1>5, <1>10, <1>15, <3>1, <3>3, <4>2
      <3>4. QED
        BY <3>2, <3>3
    <2>2. QED
      BY <1>1, <1>8, <1>9, <2>1 DEF OverdueInv
  <1>17. AgeInv'
    <2>1. ASSUME NEW u \in DOMAIN ops, NEW i \in 1 .. Len(ops[u]), ops[u][i].type = "start"
          PROVE  Age(ops[u][i])' <= lag'
      <3>1. ops[u] \in Seq(Requests) /\ ops[u][i] \in Requests
        BY <1>3
      <3>2. Age(ops[u][i]) <= lag
        BY <2>1 DEF TimeInv, Timing, AgeInv
      <3>3. Age(ops[u][i]) <= Jitter
        <4>1. Age(ops[u][i]) \in Counts
          <5>1. ops[u][i].ticks_at_start \in Counts
            BY <3>1 DEF Requests
          <5>2. QED
            BY <1>3, <5>1, DiffFacts DEF Age
        <4>2. Age(ops[u][i]) \in Nat
          BY <1>6, <4>1 DEF Counts
        <4>3. QED
          BY <1>5, <1>6, <1>7, <3>2, <4>2
      <3>4. Busy
        <4>1. ops[u] # << >>
          BY <3>1
        <4>2. swi0 \/ at = "insertions"
          BY <4>1 DEF TimeInv, CoreInv, NoRequestForgotten
        <4>3. QED
          BY <4>2 DEF Busy
      <3>5. Age(ops[u][i]) \in Nat /\ Age(ops[u][i])' = Age(ops[u][i]) + 1
        <4> DEFINE op == ops[u][i]
        <4>1. op' = op
          BY <1>1
        <4>2. op \in Requests /\ Age(op) <= Jitter
          BY <3>1, <3>3
        <4>3. Age(op) \in Nat /\ op.ticks_at_start \in Counts /\ Age(op) \in Counts
          <5>1. op.ticks_at_start \in Counts
            BY <4>2 DEF Requests
          <5>2. Age(op) \in Counts
            BY <1>3, <5>1, DiffFacts DEF Age
          <5>3. QED
            BY <1>6, <5>1, <5>2 DEF Counts
        <4>4. Age(op)' = Diff(Later(counter, 1), op.ticks_at_start)
          BY <1>1, <4>1 DEF Age
        <4>5. Age(op) + 1 < Wrap
          BY <1>6, <4>2, <4>3
        <4> HIDE DEF op
        <4>6. Diff(Later(counter, 1), op.ticks_at_start) = Diff(counter, op.ticks_at_start) + 1
          BY <1>3, <4>3, <4>5, TickFacts DEF Age
        <4>7. Age(op)' = Age(op) + 1
          BY <4>4, <4>6 DEF Age
        <4>8. QED
          BY <4>3, <4>7 DEF op
      <3>6. QED
        BY <1>5, <1>14, <3>2, <3>4, <3>5
    <2>2. ASSUME NEW i \in 1 .. Len(restart)
          PROVE  Now + 1 <= Age(restart[i])' /\ Age(restart[i])' <= Slack(1) + lag'
      <3> DEFINE op == restart[i]
      <3>1. op \in Requests /\ op' = op /\ restart # << >>
        BY <1>1, <1>4
      <3>2. Now <= Age(op) /\ Age(op) <= Slack(1) + lag
        BY DEF TimeInv, Timing, AgeInv
      <3>3. Busy
        BY <3>1 DEF TimeInv, CoreInv, BootInv, Busy
      <3>4. Age(op)' = Diff(Later(counter, 1), op.ticks_at_start)
        BY <1>1, <3>1 DEF Age
      <3> HIDE DEF op
      <3>5. op.ticks_at_start \in Counts /\ Age(op) \in Counts /\ Age(op) \in Nat
        <4>1. op.ticks_at_start \in Counts
          BY <3>1 DEF Requests
        <4>2. Age(op) \in Counts
          BY <1>3, <4>1, DiffFacts DEF Age
        <4>3. QED
          BY <1>6, <4>1, <4>2 DEF Counts
      <3>6. Age(op) + 1 < Wrap
        BY <1>5, <1>6, <1>7, <3>2, <3>5
      <3>7. Diff(Later(counter, 1), op.ticks_at_start) = Diff(counter, op.ticks_at_start) + 1
        BY <1>3, <3>5, <3>6, TickFacts DEF Age
      <3>8. Age(op)' = Age(op) + 1
        BY <3>4, <3>7 DEF Age
      <3>9. Now + 1 <= Age(op)' /\ Age(op)' <= Slack(1) + lag'
        BY <1>5, <1>7, <1>14, <3>2, <3>3, <3>5, <3>8
      <3>10. QED
        BY <3>9 DEF op
    <2>3. rtc \/ at = "compare" => ~ BootQueued
      BY DEF TimeInv, Timing, AgeInv
    <2>4. Slack(1)' = Slack(1) /\ BootQueued' = BootQueued
      BY <1>1 DEF Slack, BootQueued
    <2>5. QED
      BY <1>1, <1>9, <2>1, <2>2, <2>3, <2>4 DEF AgeInv
  <1>18. ASSUME NEW c \in {0, 2}, Ahead(c), ~ rtc1' PROVE Ahead(c)' /\ Gap' = Gap - 1
    <2>1. armed /\ Gap >= 1 /\ \A k \in 1 .. Len(list) : Now + Gap + c <= Total(k) + Slack(k)
      BY <1>18 DEF Ahead
    <2>2. Gap # 1
      BY <1>1, <1>10, <1>18, <2>1
    <2>3. Gap' = Gap - 1 /\ Gap' >= 1
      BY <1>10, <2>1, <2>2
    <2>4. Now + 1 + (Gap - 1) + c = Now + Gap + c
      BY <1>5, <1>10
    <2>5. \A k \in 1 .. Len(list') : Now' + Gap' + c <= Total(k)' + Slack(k)'
      BY <1>1, <1>8, <1>9, <2>1, <2>3, <2>4
    <2>6. QED
      BY <1>1, <2>1, <2>3, <2>5 DEF Ahead
  <1>19. ASSUME Waiting, ~ rtc1' PROVE Waiting'
    <2>1. Ahead(0) /\ (Gap <= 3 \/ \A k \in 1 .. Len(list) : Now + Gap <= Total(k))
      BY <1>19 DEF Waiting
    <2>2. Ahead(0)' /\ Gap' = Gap - 1
      BY <1>18, <1>19, <2>1
    <2>3. Gap <= 3 => Gap' <= 3
      BY <1>10, <2>2
    <2>4. Now' + Gap' = Now + Gap
      BY <1>5, <1>9, <1>10, <2>2
    <2>5. QED
      BY <1>1, <1>8, <2>1, <2>2, <2>3, <2>4 DEF Waiting
  <1>20. ASSUME NEW n \in Counts, Busy, n <= Now,
                \A k \in 1 .. Len(list) : Total(k) <= n \/ Now < Total(k) + lag
         PROVE  n <= Now' /\ \A k \in 1 .. Len(list') : Total(k)' <= n \/ Now' < Total(k)' + lag'
    <2>1. n \in Nat
      BY <1>6 DEF Counts
    <2>2. \A k \in 1 .. Len(list) : Total(k) <= n \/ Now + 1 < Total(k) + (lag + 1)
      BY <1>5, <1>8, <1>20, <2>1
    <2>3. n <= Now + 1
      BY <1>5, <1>20, <2>1
    <2>4. QED
      BY <1>1, <1>8, <1>9, <1>14, <1>20, <2>2, <2>3
  <1>21. IdleInv'
    <2>1. elapsed # None => swi0 /\ at \in {"idle", "rtc1"} /\ Settled(elapsed)'
      <3> SUFFICES ASSUME elapsed # None
                   PROVE  swi0 /\ at \in {"idle", "rtc1"} /\ Settled(elapsed)'
        OBVIOUS
      <3>1. swi0 /\ at \in {"idle", "rtc1"} /\ Settled(elapsed)
        BY DEF TimeInv, Timing, IdleInv
      <3>2. elapsed \in Counts
        BY <1>2, TypeFacts
      <3>3. Busy
        BY <3>1 DEF Busy
      <3>4. QED
        BY <1>1, <1>20, <3>1, <3>2, <3>3 DEF Settled
    <2>2. at = "rtc1" => Settled(expired)'
      <3> SUFFICES ASSUME at = "rtc1" PROVE Settled(expired)'
        OBVIOUS
      <3>1. Settled(expired) /\ expired \in Counts
        BY <1>2 DEF TimeInv, Timing, IdleInv, TypeInv
      <3>2. Busy
        BY DEF Busy
      <3>3. QED
        BY <1>1, <1>20, <3>1, <3>2 DEF Settled
    <2>3. at # "rtc1" => ran = {}
      BY DEF TimeInv, Timing, IdleInv
    <2>4. ~ rtc1' /\ at = "idle" /\ elapsed = None => Waiting'
      <3>1. ~ rtc1' => ~ rtc1
        BY <1>1
      <3>2. ~ rtc1 /\ at = "idle" /\ elapsed = None => Waiting
        BY <1>1 DEF TimeInv, Timing, IdleInv
      <3>3. QED
        BY <1>19, <3>1, <3>2
    <2>5. QED
      BY <1>1, <2>1, <2>2, <2>3, <2>4 DEF IdleInv
  <1>22. InsertInv'
    <2>1. ~ rtc1' => ~ rtc1
      BY <1>1
    <2>2. ~ rtc1' /\ at = "insertions" /\ ~ update => Waiting' /\ restart = << >>
      <3>1. ~ rtc1 /\ at = "insertions" /\ ~ update => Waiting /\ restart = << >>
        BY <1>1 DEF TimeInv, Timing, InsertInv
      <3>2. QED
        BY <1>19, <2>1, <3>1
    <2>3. ~ rtc1' /\ at = "insertions" /\ update => InTime' \/ Ahead(2)'
      <3> SUFFICES ASSUME ~ rtc1', at = "insertions", update PROVE InTime' \/ Ahead(2)'
        OBVIOUS
      <3>1. InTime \/ Ahead(2)
        BY <1>1, <2>1 DEF TimeInv, Timing, InsertInv
      <3>2. Busy
        BY DEF Busy
      <3>3. CASE InTime
        <4>1. \A k \in 1 .. Len(list) : Now < Total(k) + lag
          BY <3>3 DEF InTime
        <4>2. \A k \in 1 .. Len(list) : Now + 1 < Total(k) + (lag + 1)
          BY <1>5, <1>8, <4>1
        <4>3. QED
          BY <1>1, <1>8, <1>9, <1>14, <3>2, <4>2 DEF InTime
      <3>4. CASE Ahead(2)
        BY <1>18, <3>4
      <3>5. QED
        BY <3>1, <3>3, <3>4
    <2>4. QED
      BY <1>1, <2>2, <2>3 DEF InsertInv
  <1>23. CompareInv'
    <2>1. PreNow' = PreNow /\ PreNow \in Nat
      <3>1. pre \in Counts
        BY <1>2, TypeFacts
      <3>2. PreNow \in Counts
        BY <1>3, <3>1, DiffFacts DEF PreNow
      <3>3. QED
        BY <1>1, <1>6, <3>2 DEF PreNow, Counts
    <2>2. Compared' = Compared
      BY <1>1, <2>1 DEF Compared, Total
    <2>3. at = "check" => Compared \in Nat
      <3> SUFFICES ASSUME at = "check" PROVE Compared \in Nat
        OBVIOUS
      <3>1. list # << >>
        BY <1>2 DEF TypeInv
      <3>2. 1 \in 1 .. Len(list)
        BY <1>3, <3>1
      <3>3. QED
        BY <1>8, <2>1, <3>2 DEF Compared
    <2>4. at \in {"compare", "check"} => PreNow <= Now
      BY DEF TimeInv, Timing, CompareInv
    <2>5. at \in {"compare", "check"} => PreNow <= Now + 1
      BY <1>5, <2>1, <2>4
    <2>6. at = "compare" => rtc1 \/ \A k \in 1 .. Len(list) : PreNow + 3 <= Total(k) + Slack(k)
      BY DEF TimeInv, Timing, CompareInv
    <2>7. at = "check" =>
            /\ cc = Later(latest, Compared)
            /\ Now + 3 <= Compared => armed
            /\ rtc1 \/ \A k \in 1 .. Len(list) : Compared <= Total(k) + Slack(k)
      BY DEF TimeInv, Timing, CompareInv
    <2>8. at = "check" => (Now + 1 + 3 <= Compared => armed')
      BY <1>1, <1>5, <2>3, <2>7
    <2>9. rtc1 => rtc1'
      BY <1>1
    <2>10. QED
      BY <1>1, <1>8, <1>9, <2>1, <2>2, <2>5, <2>6, <2>7, <2>8, <2>9 DEF CompareInv
  <1>24. QED
    BY <1>12, <1>16, <1>17, <1>21, <1>22, <1>23 DEF Timing

-------------------------------------------------------------------------------
(*****************************************************************************)
(* The timing is kept: a request.                                           *)
(*****************************************************************************)

LEMMA RequestTime ==
  ASSUME TimeInv, Cardinality(Timers) >= 3, NEW u, NEW new, Asking(u, new)
  PROVE  Timing'
  <1> DEFINE r == Enqueue(ops[u], new)
  <1>1. /\ u \in ToSet(Users) /\ new \in Seq(Requests) /\ new # << >> /\ Len(ops[u]) < OpQueueSize
        /\ ops' = [ops EXCEPT ![u] = r]
        /\ lag' = IF Busy THEN lag ELSE 0
        /\ swi0' = TRUE
        /\ UNCHANGED <<counter, cc, armed, rtc, rtc1, list, delta, latest, elapsed, at, expired,
                       update, restart, pre, due, ran>>
    BY DEF Asking, Request, rtcVars, listVars, localVars, ghostVars, PendsSwi0
  <1>2. TypeInv /\ Near
    BY NearFacts DEF TimeInv, CoreInv
  <1>3. /\ counter \in Counts /\ latest \in Counts /\ ops \in [ToSet(Users) -> Seq(Requests)]
        /\ list \in Seq(Timers) /\ Len(list) \in Nat
    BY <1>2, TypeFacts
  <1>4. EnqueuedTo(r, ops[u], new)
    <2>1. ops[u] \in Seq(Requests)
      BY <1>1, <1>3
    <2>2. QED
      BY <1>1, <2>1, EnqueueFacts
  <1> HIDE DEF r
  <1>5. DOMAIN ops' = DOMAIN ops /\ ops'[u] = r /\ \A v \in DOMAIN ops : v # u => ops'[v] = ops[v]
    BY <1>1, <1>3
  <1>6. Now \in Nat /\ lag \in Nat
    BY <1>2 DEF Near
  <1>7. Now' = Now /\ Gap' = Gap /\ PreNow' = PreNow
    BY <1>1 DEF Now, Gap, PreNow
  <1>8. \A k \in 1 .. Len(list) : Total(k)' = Total(k) /\ Slack(k)' = Slack(k) /\ Total(k) \in Nat
    BY <1>1, <1>2, TotalFacts DEF Total, Slack
  <1>9. Busy => lag' = lag
    BY <1>1
  <1>10. ~ Busy => lag' = 0 /\ at = "idle" /\ ~ rtc1 /\ ~ swi0
    BY <1>1 DEF Busy
  <1>11. DueInv'
    BY <1>1, <1>7, <1>8 DEF TimeInv, Timing, DueInv
  <1>12. OverdueInv'
    <2>1. ASSUME NEW k \in 1 .. Len(list) PROVE Now <= Total(k) + Slack(k) + lag'
      <3>1. CASE Busy
        BY <1>9, <3>1 DEF TimeInv, Timing, OverdueInv
      <3>2. CASE ~ Busy
        <4>1. rtc
          <5>1. list # << >>
            BY <1>3
          <5>2. QED
            BY <1>10, <3>2, <5>1 DEF TimeInv, CoreInv, BootInv
        <4>2. Waiting
          BY <1>10, <3>2, <4>1 DEF TimeInv, Timing, IdleInv
        <4>3. Now + Gap + 0 <= Total(k) + Slack(k) /\ Gap >= 1 /\ armed
          BY <4>2 DEF Waiting, Ahead
        <4>4. Gap \in Int /\ Slack(k) \in Int
          <5>1. cc \in Counts
            BY <1>2, TypeFacts
          <5>2. Gap \in Counts
            BY <1>3, <5>1, DiffFacts DEF Gap
          <5>3. IsInjective(list)
            BY <1>2 DEF TypeInv, IsTimerList
          <5>4. Slack(k) \in Nat
            BY <1>3, <5>3, SlackFacts
          <5>5. QED
            BY <5>2, <5>4, Parameters DEF Counts
        <4>5. QED
          BY <1>6, <1>8, <1>10, <3>2, <4>3, <4>4
      <3>3. QED
        BY <3>1, <3>2
    <2>2. QED
      BY <1>1, <1>7, <1>8, <2>1 DEF OverdueInv
  <1>13. Busy \/ \A v \in DOMAIN ops : Len(ops[v]) = 0
    <2>1. (\E v \in DOMAIN ops : ops[v] # << >>) => Busy
      BY DEF TimeInv, CoreInv, NoRequestForgotten, Busy
    <2>2. Len(<< >>) = 0
      OBVIOUS
    <2>3. QED
      BY <2>1, <2>2
  <1>14. AgeInv'
    <2>1. ASSUME NEW v \in DOMAIN ops', NEW i \in 1 .. Len(ops'[v]), ops'[v][i].type = "start"
          PROVE  Diff(counter, ops'[v][i].ticks_at_start) <= lag'
      <3>1. ASSUME NEW w \in DOMAIN ops, NEW j \in 1 .. Len(ops[w]), ops'[v][i] = ops[w][j]
            PROVE  Diff(counter, ops'[v][i].ticks_at_start) <= lag'
        <4>1. Busy
          BY <1>13
        <4>2. ops[w][j].type = "start" => Diff(counter, ops[w][j].ticks_at_start) <= lag
          BY DEF TimeInv, Timing, AgeInv, Age
        <4>3. QED
          BY <1>9, <2>1, <3>1, <4>1, <4>2
      <3>2. CASE v # u
        <4>1. v \in DOMAIN ops /\ ops'[v] = ops[v]
          BY <1>5, <3>2
        <4>2. QED
          BY <3>1, <4>1
      <3>3. CASE v = u
        <4>1. CASE \E x \in 1 .. Len(ops[u]) : r[i] = ops[u][x]
          <5>1. u \in DOMAIN ops
            BY <1>1, <1>3
          <5>2. QED
            BY <1>5, <3>1, <3>3, <4>1, <5>1
        <4>2. CASE \E x \in 1 .. Len(new) : r[i] = new[x]
          <5>1. ops'[v][i].ticks_at_start = counter
            BY <1>5, <2>1, <3>3, <4>2 DEF Asking
          <5>2. Diff(counter, counter) = 0
            <6>1. Wrap \in Nat
              BY Parameters
            <6>2. counter - counter = 0
              BY <1>3, <6>1 DEF Counts
            <6>3. counter <= counter
              BY <1>3, <6>1 DEF Counts
            <6>4. QED
              BY <1>3, <6>2, <6>3, DiffFacts
          <5>3. 0 <= lag'
            BY <1>6, <1>9, <1>10
          <5>4. QED
            BY <5>1, <5>2, <5>3
        <4>3. QED
          BY <1>4, <1>5, <3>3, <4>1, <4>2 DEF EnqueuedTo
      <3>4. QED
        BY <3>2, <3>3
    <2>2. ASSUME NEW i \in 1 .. Len(restart)
          PROVE  Now <= Age(restart[i]) /\ Age(restart[i]) <= Slack(1) + lag'
      <3>1. restart # << >>
        <4>1. Len(<< >>) = 0
          OBVIOUS
        <4>2. QED
          BY <4>1
      <3>2. Busy
        BY <3>1 DEF TimeInv, CoreInv, BootInv, Busy
      <3>3. Now <= Age(restart[i]) /\ Age(restart[i]) <= Slack(1) + lag
        BY DEF TimeInv, Timing, AgeInv
      <3>4. QED
        BY <1>9, <3>2, <3>3
    <2>3. ASSUME rtc \/ at = "compare", BootQueued' PROVE FALSE
      <3>1. ~ BootQueued
        BY <2>3 DEF TimeInv, Timing, AgeInv
      <3>2. PICK v \in DOMAIN ops' : \E i \in 1 .. Len(ops'[v]) : ops'[v][i].timer = BootTimer
        BY <2>3 DEF BootQueued
      <3>3. PICK i \in 1 .. Len(ops'[v]) : ops'[v][i].timer = BootTimer
        BY <3>2
      <3>4. u # "thread"
        BY <2>3 DEF Asking
      <3>5. \A x \in 1 .. Len(new) : new[x].timer # BootTimer
        BY <3>4 DEF Asking
      <3>6. CASE v # u
        BY <1>5, <3>1, <3>3, <3>6 DEF BootQueued
      <3>7. CASE v = u
        <4>1. u \in DOMAIN ops
          BY <1>1, <1>3
        <4>2. \E x \in 1 .. Len(ops[u]) : r[i] = ops[u][x]
          BY <1>4, <1>5, <3>3, <3>5, <3>7 DEF EnqueuedTo
        <4>3. QED
          BY <1>5, <3>1, <3>3, <3>7, <4>1, <4>2 DEF BootQueued
      <3>8. QED
        BY <3>6, <3>7
    <2>4. \A v \in DOMAIN ops' : \A i \in 1 .. Len(ops'[v]) :
            ops'[v][i].type = "start" => Age(ops[v][i])' <= lag'
      BY <1>1, <2>1 DEF Age
    <2>5. \A i \in 1 .. Len(restart') :
            Now' <= Age(restart[i])' /\ Age(restart[i])' <= Slack(1)' + lag'
      BY <1>1, <1>7, <2>2 DEF Age, Slack
    <2>6. rtc' \/ at' = "compare" => ~ BootQueued'
      BY <1>1, <2>3
    <2>7. QED
      BY <2>4, <2>5, <2>6 DEF AgeInv
  <1>15. Waiting' = Waiting /\ Ahead(2)' = Ahead(2)
    <2>1. \A k \in 1 .. Len(list) : Total(k)' = Total(k) /\ Slack(k)' = Slack(k)
      BY <1>8
    <2>2. Ahead(0)' = Ahead(0) /\ Ahead(2)' = Ahead(2)
      BY <1>1 DEF Ahead, Now, Gap, Total, Slack
    <2>3. QED
      BY <1>1, <2>2 DEF Waiting, Now, Gap, Total
  <1>16. IdleInv'
    <2>1. elapsed # None => swi0 /\ at \in {"idle", "rtc1"} /\ Settled(elapsed)
      BY DEF TimeInv, Timing, IdleInv
    <2>2. at = "rtc1" => Settled(expired)
      BY DEF TimeInv, Timing, IdleInv
    <2>3. Busy => Settled(elapsed)' = Settled(elapsed) /\ Settled(expired)' = Settled(expired)
      BY <1>1, <1>9 DEF Settled, Now, Total
    <2>4. (elapsed # None => Settled(elapsed)') /\ (at = "rtc1" => Settled(expired)')
      BY <2>1, <2>2, <2>3 DEF Busy
    <2>5. QED
      BY <1>1, <1>15, <2>1, <2>4 DEF TimeInv, Timing, IdleInv
  <1>17. InsertInv'
    <2>1. Busy => InTime' = InTime
      BY <1>1, <1>9 DEF InTime, Now, Total
    <2>2. at = "insertions" => Busy
      BY DEF Busy
    <2>3. QED
      BY <1>1, <1>15, <2>1, <2>2 DEF TimeInv, Timing, InsertInv
  <1>18. CompareInv'
    <2>1. Compared' = Compared
      BY <1>1 DEF Compared, PreNow, Total
    <2>2. QED
      BY <1>1, <1>7, <1>8, <2>1 DEF TimeInv, Timing, CompareInv
  <1>19. QED
    BY <1>11, <1>12, <1>14, <1>16, <1>17, <1>18 DEF Timing

\* What does not change while the counter stands and the list and the queues stay.
LEMMA StandingTime ==
  ASSUME TimeInv, UNCHANGED <<counter, lag, ops, list, delta, latest, restart, due>>
  PROVE  /\ DueInv' /\ OverdueInv'
         /\ (rtc' \/ at' = "compare" => rtc \/ at = "compare") => AgeInv'
         /\ \A k \in 1 .. Len(list) : Total(k)' = Total(k) /\ Slack(k)' = Slack(k)
         /\ Now' = Now
  <1>1. \A k \in 1 .. Len(list) : Total(k)' = Total(k) /\ Slack(k)' = Slack(k)
    BY DEF Total, Slack
  <1>2. Now' = Now
    BY DEF Now
  <1>3. DueInv' /\ OverdueInv'
    BY <1>1, <1>2 DEF TimeInv, Timing, DueInv, OverdueInv
  <1>4. (rtc' \/ at' = "compare" => rtc \/ at = "compare") => AgeInv'
    <2>1. BootQueued' = BootQueued
      BY DEF BootQueued
    <2>2. QED
      BY <1>2, <2>1 DEF TimeInv, Timing, AgeInv, Age, Slack
  <1>5. QED
    BY <1>1, <1>2, <1>3, <1>4

-------------------------------------------------------------------------------
(*****************************************************************************)
(* The timing is kept: RTC1, and the compare register.                      *)
(*****************************************************************************)

LEMMA HandlerTime ==
  ASSUME TimeInv, Cardinality(Timers) >= 3, Rtc1Handler
  PROVE  Timing' /\ list # << >>
  <1>1. TypeInv /\ Near
    BY NearFacts DEF TimeInv, CoreInv
  <1>2. at = "idle" /\ rtc1
    BY DEF Rtc1Handler
  <1>3. rtc /\ list \in Seq(Timers) /\ Len(list) \in Nat /\ delta \in [Timers -> Nat]
    BY <1>1, <1>2, TypeFacts DEF TimeInv, CoreInv, BootInv
  <1>4. list # << >>
    <2>1. BootTimer \in ToSet(list)
      BY <1>2, <1>3 DEF TimeInv, CoreInv, BootInv
    <2>2. PICK n \in 1 .. Len(list) : list[n] = BootTimer
      BY <1>3, <2>1, ToSetFacts
    <2>3. QED
      BY <1>3, <2>2
  <1>5. /\ UNCHANGED <<counter, cc, armed, rtc, lag, ops, list, delta, latest, restart, due, swi0,
                       elapsed>>
        /\ at' = "rtc1"
    BY <1>4 DEF Rtc1Handler, rtcVars, listVars
  <1>6. /\ DueInv' /\ OverdueInv' /\ AgeInv' /\ Now' = Now
        /\ \A k \in 1 .. Len(list) : Total(k)' = Total(k)
    BY <1>3, <1>5, StandingTime
  <1> DEFINE K == ExpiredIn(list, delta, TicksElapsed)
  <1>7. /\ K \in 0 .. Len(list)
        /\ \A n \in 1 .. Len(list) : n <= K <=> Total(n) <= Now
        /\ expired' = SumTo(list, delta, K) /\ expired' <= Now /\ expired' \in Counts
    BY <1>1, <1>4, Rtc1Facts DEF TicksElapsed, Total, Now
  <1> HIDE DEF K
  <1>8. Now \in Nat /\ lag \in Nat /\ \A k \in 1 .. Len(list) : Total(k) \in Nat
    BY <1>1, TotalFacts DEF Near
  <1>9. \A n \in 1 .. Len(list) : Total(n) <= expired' \/ Now < Total(n) + lag
    <2> SUFFICES ASSUME NEW n \in 1 .. Len(list) PROVE Total(n) <= expired' \/ Now < Total(n) + lag
      OBVIOUS
    <2>1. CASE n <= K
      <3>1. n \in 0 .. Len(list)
        BY <1>3
      <3>2. SumTo(list, delta, n) <= SumTo(list, delta, K)
        BY <1>3, <1>7, <2>1, <3>1, SumGrows
      <3>3. QED
        BY <1>7, <3>2 DEF Total
    <2>2. CASE ~ (n <= K)
      <3>1. ~ (Total(n) <= Now)
        BY <1>7, <2>2
      <3>2. QED
        BY <1>8, <3>1
    <2>3. QED
      BY <2>1, <2>2
  <1>10. Settled(expired)'
    BY <1>5, <1>6, <1>7, <1>9 DEF Settled
  <1>11. elapsed # None => swi0 /\ Settled(elapsed)'
    BY <1>5, <1>6 DEF TimeInv, Timing, IdleInv, Settled
  <1>12. IdleInv' /\ InsertInv' /\ CompareInv'
    BY <1>5, <1>10, <1>11 DEF IdleInv, InsertInv, CompareInv
  <1>13. QED
    BY <1>4, <1>6, <1>12 DEF Timing

LEMMA QueueTime ==
  ASSUME TimeInv, Rtc1Queue
  PROVE  Timing'
  <1>1. /\ UNCHANGED <<counter, cc, armed, rtc, lag, ops, list, delta, latest, restart, due>>
        /\ at = "rtc1" /\ at' = "idle" /\ elapsed' = expired /\ swi0' = TRUE /\ ran' = {}
    BY DEF Rtc1Queue, rtcVars, listVars
  <1>2. /\ DueInv' /\ OverdueInv' /\ AgeInv' /\ Now' = Now
        /\ \A k \in 1 .. Len(list) : Total(k)' = Total(k)
    BY <1>1, StandingTime
  <1>3. Settled(expired)
    BY <1>1 DEF TimeInv, Timing, IdleInv
  <1>4. Settled(elapsed)'
    BY <1>1, <1>2, <1>3 DEF Settled
  <1>5. elapsed' # None
    <2>1. expired \in Counts
      BY DEF TimeInv, CoreInv, TypeInv
    <2>2. None \notin Nat /\ Wrap \in Nat
      BY TimerAssumption
    <2>3. QED
      BY <1>1, <2>1, <2>2 DEF Counts
  <1>6. IdleInv' /\ InsertInv' /\ CompareInv'
    BY <1>1, <1>4, <1>5 DEF IdleInv, InsertInv, CompareInv
  <1>7. QED
    BY <1>2, <1>6 DEF Timing

\* The compare value, counted from m_ticks_latest.
LEMMA ComparedFacts ==
  ASSUME TimeInv, Cardinality(Timers) >= 3, at \in {"compare", "check"}
  PROVE  /\ PreNow \in Nat /\ PreNow <= Now
         /\ 1 \in 1 .. Len(list)
         /\ Compared \in Nat /\ Compared \in Counts
         /\ Total(1) <= Compared /\ PreNow + 3 <= Compared
         /\ Compared = Total(1) \/ Compared = PreNow + 3
         /\ Diff(Later(latest, Compared), latest) = Compared
  <1>1. TypeInv /\ Near
    BY NearFacts DEF TimeInv, CoreInv
  <1>2. pre \in Counts /\ latest \in Counts /\ list \in Seq(Timers) /\ Len(list) \in Nat
    BY <1>1, TypeFacts
  <1>3. 1 \in 1 .. Len(list)
    <2>1. list # << >>
      BY <1>1 DEF TypeInv
    <2>2. QED
      BY <1>2, <2>1
  <1>4. Wrap \in Nat /\ Wrap > 6
    BY Parameters
  <1>5. PreNow \in Nat
    <2>1. PreNow \in Counts
      BY <1>2, DiffFacts DEF PreNow
    <2>2. QED
      BY <1>4, <2>1 DEF Counts
  <1>6. PreNow <= Now
    BY DEF TimeInv, Timing, CompareInv
  <1>7. Total(1) \in Nat /\ Total(1) < Wrap
    BY <1>1, <1>3, TotalFacts
  <1>8. Now \in Nat /\ 2 * (Now + 1) < Wrap
    BY <1>1 DEF Near
  <1>9. /\ Compared \in Nat /\ Compared < Wrap
        /\ Total(1) <= Compared /\ PreNow + 3 <= Compared
        /\ Compared = Total(1) \/ Compared = PreNow + 3
    BY <1>4, <1>5, <1>6, <1>7, <1>8 DEF Compared
  <1>10. Compared \in Counts
    BY <1>4, <1>9 DEF Counts
  <1>11. Diff(Later(latest, Compared), latest) = Compared
    BY <1>2, <1>10, LaterDiff
  <1>12. QED
    BY <1>3, <1>5, <1>6, <1>9, <1>10, <1>11

LEMMA CompareTime ==
  ASSUME TimeInv, Cardinality(Timers) >= 3, Swi0Compare
  PROVE  Timing'
  <1>1. /\ UNCHANGED <<counter, lag, ops, list, delta, latest, restart, due, rtc1, swi0, elapsed, pre, ran>>
        /\ at = "compare" /\ at' = "check" /\ cc' = Later(latest, CompareTicks) /\ rtc' = TRUE
        /\ armed' \in IF Diff(cc', counter) \in {0, 1} THEN BOOLEAN ELSE {TRUE}
    BY DEF Swi0Compare, listVars, localVars, ghostVars
  <1>2. TypeInv /\ Near
    BY NearFacts DEF TimeInv, CoreInv
  <1>3. counter \in Counts /\ latest \in Counts /\ Len(list) \in Nat
    BY <1>2, TypeFacts
  <1>4. /\ DueInv' /\ OverdueInv' /\ AgeInv' /\ Now' = Now
        /\ \A k \in 1 .. Len(list) : Total(k)' = Total(k) /\ Slack(k)' = Slack(k)
    BY <1>1, StandingTime
  <1>5. /\ PreNow \in Nat /\ PreNow <= Now /\ 1 \in 1 .. Len(list)
        /\ Compared \in Nat /\ Compared \in Counts
        /\ Compared = Total(1) \/ Compared = PreNow + 3
        /\ Diff(Later(latest, Compared), latest) = Compared
    BY <1>1, ComparedFacts
  <1>6. CompareTicks = Compared
    <2>1. CompareTicks = IF delta[list[1]] >= PreNow + 3 THEN delta[list[1]] ELSE PreNow + 3
      BY <1>1, <1>2, CompareFacts DEF OffsetMin, PreNow
    <2>2. delta[list[1]] = Total(1)
      BY <1>1, <1>2, CompareFacts DEF Total
    <2>3. QED
      BY <2>1, <2>2 DEF Compared
  <1>7. Compared' = Compared /\ PreNow' = PreNow
    BY <1>1 DEF Compared, PreNow, Total
  <1>8. Now \in Nat /\ Wrap \in Nat
    BY <1>2, Parameters DEF Near
  <1>9. Now + 3 <= Compared => armed'
    <2> SUFFICES ASSUME Now + 3 <= Compared PROVE armed'
      OBVIOUS
    <2>1. cc' = Later(latest, Compared) /\ cc' \in Counts /\ Diff(cc', latest) = Compared
      BY <1>1, <1>3, <1>5, <1>6, LaterDiff
    <2>2. Diff(cc', counter) = Compared - Now
      <3>1. Diff(cc', counter) = IF Diff(counter, latest) <= Diff(cc', latest)
                                 THEN Diff(cc', latest) - Diff(counter, latest)
                                 ELSE Diff(cc', latest) - Diff(counter, latest) + Wrap
        BY <1>3, <2>1, DiffBetween
      <3>2. Now <= Compared
        BY <1>5, <1>8
      <3>3. QED
        BY <2>1, <3>1, <3>2 DEF Now
    <2>3. Diff(cc', counter) \notin {0, 1}
      BY <1>5, <1>8, <2>2
    <2>4. armed' \in {TRUE}
      BY <1>1, <2>3
    <2>5. QED
      BY <2>4
  <1>10. rtc1 \/ \A k \in 1 .. Len(list) : Compared <= Total(k) + Slack(k)
    <2> SUFFICES ASSUME ~ rtc1, NEW k \in 1 .. Len(list) PROVE Compared <= Total(k) + Slack(k)
      OBVIOUS
    <2>1. PreNow + 3 <= Total(k) + Slack(k)
      BY <1>1 DEF TimeInv, Timing, CompareInv
    <2>2. Total(1) <= Total(k) /\ Total(k) \in Nat /\ Total(1) \in Nat
      BY <1>2, <1>5, TotalFacts
    <2>3. Slack(k) \in Nat
      <3>1. list \in Seq(Timers) /\ IsInjective(list)
        BY <1>2 DEF TypeInv, IsTimerList
      <3>2. QED
        BY <3>1, SlackFacts
    <2>4. QED
      BY <1>5, <2>1, <2>2, <2>3
  <1>11. CompareInv'
    BY <1>1, <1>4, <1>5, <1>6, <1>7, <1>9, <1>10 DEF CompareInv
  <1>12. IdleInv' /\ InsertInv'
    <2>1. elapsed = None /\ ran = {}
      BY <1>1 DEF TimeInv, Timing, IdleInv
    <2>2. QED
      BY <1>1, <2>1 DEF IdleInv, InsertInv
  <1>13. QED
    BY <1>4, <1>11, <1>12 DEF Timing

LEMMA CheckTime ==
  ASSUME TimeInv, Cardinality(Timers) >= 3, Swi0Check
  PROVE  Timing'
  <1>1. /\ UNCHANGED <<counter, cc, armed, rtc, lag, ops, list, delta, latest, restart, due, swi0,
                       elapsed, ran>>
        /\ at = "check" /\ at' = "idle" /\ rtc1' = (rtc1 \/ Forced)
    BY DEF Swi0Check, rtcVars, listVars, ghostVars
  <1>2. TypeInv /\ Near
    BY NearFacts DEF TimeInv, CoreInv
  <1>3. counter \in Counts /\ latest \in Counts /\ pre \in Counts /\ cc \in Counts /\ Len(list) \in Nat
    BY <1>2, TypeFacts
  <1>4. /\ DueInv' /\ OverdueInv' /\ AgeInv' /\ Now' = Now
        /\ \A k \in 1 .. Len(list) : Total(k)' = Total(k) /\ Slack(k)' = Slack(k)
    BY <1>1, StandingTime
  <1>5. /\ PreNow \in Nat /\ PreNow <= Now /\ 1 \in 1 .. Len(list)
        /\ Compared \in Nat /\ Compared \in Counts /\ PreNow + 3 <= Compared
        /\ Compared = Total(1) \/ Compared = PreNow + 3
        /\ Diff(Later(latest, Compared), latest) = Compared
    BY <1>1, ComparedFacts
  <1>6. Now \in Nat /\ Wrap \in Nat
    BY <1>2, Parameters DEF Near
  <1>7. /\ cc = Later(latest, Compared)
        /\ Now + 3 <= Compared => armed
        /\ rtc1 \/ \A k \in 1 .. Len(list) : Compared <= Total(k) + Slack(k)
    BY <1>1 DEF TimeInv, Timing, CompareInv
  <1>8. ~ Forced => Now + 3 <= Compared
    <2>1. Diff(counter, pre) = Now - PreNow
      <3>1. Diff(counter, pre) = IF PreNow <= Now THEN Now - PreNow ELSE Now - PreNow + Wrap
        BY <1>3, DiffBetween DEF Now, PreNow
      <3>2. QED
        BY <1>5, <3>1
    <2>2. Diff(cc, pre) = Compared - PreNow
      <3>1. Diff(cc, pre) = IF Diff(pre, latest) <= Diff(cc, latest) THEN Diff(cc, latest) - Diff(pre, latest)
                            ELSE Diff(cc, latest) - Diff(pre, latest) + Wrap
        BY <1>3, DiffBetween
      <3>2. Diff(cc, latest) = Compared /\ Diff(pre, latest) = PreNow
        BY <1>5, <1>7 DEF PreNow
      <3>3. PreNow <= Compared
        BY <1>5
      <3>4. QED
        BY <3>1, <3>2, <3>3
    <2>3. Forced <=> Now - PreNow + 3 > Compared - PreNow
      BY <2>1, <2>2 DEF Forced, OffsetMin
    <2>4. QED
      BY <1>5, <1>6, <2>3
  <1>9. Now <= Compared => Gap = Compared - Now
    <2>1. Gap = IF Diff(counter, latest) <= Diff(cc, latest) THEN Diff(cc, latest) - Diff(counter, latest)
                ELSE Diff(cc, latest) - Diff(counter, latest) + Wrap
      BY <1>3, DiffBetween DEF Gap
    <2>2. Diff(cc, latest) = Compared /\ Diff(counter, latest) = Now
      BY <1>5, <1>7 DEF Now
    <2>3. QED
      BY <2>1, <2>2
  <1>10. ASSUME ~ rtc1' PROVE Waiting'
    <2>1. ~ rtc1 /\ ~ Forced
      BY <1>1, <1>10
    <2>2. Now + 3 <= Compared /\ armed
      BY <1>7, <1>8, <2>1
    <2>3. Gap = Compared - Now /\ Gap >= 1 /\ Now + Gap = Compared
      BY <1>5, <1>6, <1>9, <2>2
    <2>4. Gap <= 3 \/ \A k \in 1 .. Len(list) : Now + Gap <= Total(k)
      <3>1. CASE Compared = PreNow + 3
        BY <1>5, <1>6, <2>3, <3>1
      <3>2. CASE Compared = Total(1)
        <4>1. \A k \in 1 .. Len(list) : Total(1) <= Total(k)
          BY <1>2, TotalFacts
        <4>2. QED
          BY <2>3, <3>2, <4>1
      <3>3. QED
        BY <1>5, <3>1, <3>2
    <2>5. \A k \in 1 .. Len(list) : Now + Gap + 0 <= Total(k) + Slack(k)
      <3>1. Now + Gap + 0 = Compared
        BY <1>5, <2>3
      <3>2. QED
        BY <1>7, <2>1, <3>1
    <2>6. Gap' = Gap
      BY <1>1 DEF Gap
    <2>7. QED
      BY <1>1, <1>4, <2>2, <2>3, <2>4, <2>5, <2>6 DEF Waiting, Ahead
  <1>11. elapsed = None /\ ran = {}
    BY <1>1 DEF TimeInv, Timing, IdleInv
  <1>12. IdleInv' /\ InsertInv' /\ CompareInv'
    BY <1>1, <1>10, <1>11 DEF IdleInv, InsertInv, CompareInv
  <1>13. QED
    BY <1>4, <1>12 DEF Timing

LEMMA StutterTime ==
  ASSUME TimeInv, UNCHANGED vars
  PROVE  Timing'
  <1>1. /\ UNCHANGED <<counter, cc, armed, rtc, rtc1, swi0, ops, list, delta, latest, elapsed, at>>
        /\ UNCHANGED <<expired, update, restart, pre, lag, due, ran>>
    BY DEF vars, rtcVars, listVars, localVars, ghostVars
  <1>2. DueInv' /\ OverdueInv' /\ AgeInv'
    BY <1>1, StandingTime
  <1>3. IdleInv' /\ InsertInv' /\ CompareInv'
    BY <1>1 DEF TimeInv, Timing, IdleInv, InsertInv, CompareInv, Settled, Waiting, Ahead, InTime,
                Now, Total, Gap, PreNow, Slack, Compared
  <1>4. QED
    BY <1>2, <1>3 DEF Timing

-------------------------------------------------------------------------------
(*****************************************************************************)
(* The timing is kept: the deletions.                                       *)
(*****************************************************************************)

\* A time at which a timer of the list was due, seen from the counter.
LEMMA SinceDue ==
  ASSUME counter \in Counts, latest \in Counts, NEW n \in Counts, n <= Now
  PROVE  Diff(counter, Later(latest, n)) = Now - n
  <1>1. Later(latest, n) \in Counts /\ Diff(Later(latest, n), latest) = n
    BY LaterDiff
  <1>2. Diff(counter, Later(latest, n))
          = IF Diff(Later(latest, n), latest) <= Diff(counter, latest)
            THEN Diff(counter, latest) - Diff(Later(latest, n), latest)
            ELSE Diff(counter, latest) - Diff(Later(latest, n), latest) + Wrap
    BY <1>1, DiffBetween
  <1>3. QED
    BY <1>1, <1>2 DEF Now

LEMMA DeletionsTime ==
  ASSUME TimeInv, Cardinality(Timers) >= 3, Swi0Deletions
  PROVE  Timing'
  <1>1. TypeInv /\ TypeInv' /\ Near
    BY NearFacts, NextType DEF TimeInv, CoreInv, Next, Handlers
  <1>2. PICK kept, k, ticks : Deletes(kept, k, ticks)
    BY <1>1, DeletesFacts
  <1>3. LeftPlaces(ticks) /\ RestartPlaces(ticks)
    BY <1>1, <1>2, DeletesPlaces
  <1>4. /\ at = "idle" /\ at' = "insertions" /\ elapsed' = None /\ swi0
        /\ latest' = Later(latest, ticks)
        /\ UNCHANGED <<counter, cc, armed, rtc, rtc1, ops, lag, due, ran, expired, pre>>
        /\ ~ rtc1 /\ restart' \in Seq(Requests)
    <2>1. ticks = IF elapsed = None THEN 0 ELSE elapsed
      BY <1>2 DEF Deletes
    <2>2. restart' \in Seq(Requests)
      BY <1>1 DEF TypeInv
    <2>3. QED
      BY <2>1, <2>2 DEF Swi0Deletions, rtcVars, ghostVars
  <1>5. /\ counter \in Counts /\ latest \in Counts /\ list \in Seq(Timers) /\ Len(list) \in Nat
        /\ list' \in Seq(Timers) /\ Len(list') \in Nat
    BY <1>1, TypeFacts DEF TypeInv, IsTimerList
  <1>6. IsInjective(list)
    BY <1>1 DEF TypeInv, IsTimerList
  <1>7. Now \in Nat /\ lag \in Nat /\ Wrap \in Nat /\ MaxLag \in Nat /\ lag <= MaxLag
    BY <1>1, Parameters DEF Near
  <1>8. ticks \in Counts /\ ticks \in Nat /\ ticks <= Now
        /\ (elapsed # None => ticks = elapsed) /\ (elapsed = None => ticks = 0)
    <2>1. ticks \in Counts /\ ticks = IF elapsed = None THEN 0 ELSE elapsed
      BY <1>2 DEF Deletes
    <2>2. elapsed # None => elapsed <= Now
      BY DEF TimeInv, Timing, IdleInv, Settled
    <2>3. ticks \in Nat
      BY <1>7, <2>1 DEF Counts
    <2>4. ticks <= Now
      <3>1. CASE elapsed = None
        <4>1. ticks = 0
          BY <2>1, <3>1
        <4>2. QED
          BY <1>7, <4>1
      <3>2. CASE elapsed # None
        BY <2>1, <2>2, <3>2
      <3>3. QED
        BY <3>1, <3>2
    <2>5. QED
      BY <2>1, <2>3, <2>4
  <1>9. Now' = Now - ticks
    BY <1>4, <1>5, <1>8, SinceDue DEF Now
  <1>10. Gap' = Gap /\ \A n : Slack(n)' = Slack(n)
    BY <1>4 DEF Gap, Slack
  <1>11. \A n \in 1 .. Len(list) : Total(n) \in Nat /\ Total(n) \in Counts
    <2>1. \A n \in 1 .. Len(list) : Total(n) \in Nat /\ Total(n) < Wrap
      BY <1>1, TotalFacts
    <2>2. QED
      BY <1>7, <2>1 DEF Counts
  <1>12. \A n \in 1 .. Len(list') : Total(n)' \in Nat
    <2>1. \A n \in 1 .. Len(list') : SumTo(list', delta', n) \in Counts
      BY <1>1 DEF TypeInv
    <2>2. QED
      BY <1>7, <2>1 DEF Total, Counts
  <1>13. \A n \in 1 .. Len(list) : Slack(n) \in Nat /\ 2 + MaxLag <= Slack(n) /\ Slack(n) <= Slack(1)
    BY <1>5, <1>6, SlackFacts
  <1>14. \A j, n \in 1 .. Len(list) : j > n => Slack(j) + 2 <= Slack(n)
    BY <1>5, <1>6, SlackFacts
  \* Where a timer of the new list was.
  <1>15. ASSUME NEW n \in 1 .. Len(list')
         PROVE  \E j \in 1 .. Len(list) :
                  /\ list'[n] = list[j] /\ Total(n)' = Total(j) - ticks
                  /\ elapsed # None => Total(j) > ticks
                  /\ j > n \/ ~ update' \/ elapsed # None
                  /\ n \in 1 .. Len(list) /\ Slack(n) \in Nat /\ Slack(j) <= Slack(n)
                  /\ j > n => Slack(j) + 2 <= Slack(n)
    <2>1. PICK j \in n .. Len(list) :
            /\ list'[n] = list[j]
            /\ SumTo(list', delta', n) = SumTo(list, delta, j) - ticks
            /\ elapsed # None => SumTo(list, delta, j) > ticks
            /\ j > n \/ ~ update' \/ elapsed # None
      BY <1>3 DEF LeftPlaces
    <2>2. j \in 1 .. Len(list) /\ n \in 1 .. Len(list) /\ (j = n \/ j > n)
      BY <1>5
    <2>3. Slack(n) \in Nat /\ Slack(j) \in Nat /\ (j > n => Slack(j) + 2 <= Slack(n))
      BY <1>13, <1>14, <2>2
    <2>4. Slack(j) <= Slack(n)
      BY <2>2, <2>3
    <2>5. Total(n)' = Total(j) - ticks /\ (elapsed # None => Total(j) > ticks)
      BY <2>1 DEF Total
    <2>6. QED
      BY <2>1, <2>2, <2>3, <2>4, <2>5
  <1>16. DueInv'
    <2>1. ASSUME NEW n \in 1 .. Len(list')
          PROVE  /\ due[list'[n]] = Later(latest', Total(n)')
                 /\ Total(n)' <= Now' + Interval[list'[n]]
                 /\ list'[n] = BootTimer => Total(n)' <= Interval[BootTimer]
      <3>1. PICK j \in 1 .. Len(list) : list'[n] = list[j] /\ Total(n)' = Total(j) - ticks
        BY <1>15
      <3>2. /\ due[list[j]] = Later(latest, Total(j))
            /\ Total(j) <= Now + Interval[list[j]]
            /\ list[j] = BootTimer => Total(j) <= Interval[BootTimer]
        BY DEF TimeInv, Timing, DueInv
      <3>3. Interval[list[j]] \in Nat /\ Interval[BootTimer] \in Nat
        <4>1. list[j] \in Timers /\ BootTimer \in Timers
          BY <1>5, TimerAssumption
        <4>2. QED
          BY <4>1, Parameters
      <3>4. Total(n)' \in Nat /\ Total(j) \in Nat /\ Total(j) \in Counts
        BY <1>11, <1>12
      <3>5. Later(latest', Total(n)') = Later(latest, Total(j))
        <4> DEFINE x == Total(n)'
        <4>1. x \in Counts /\ ticks + x = Total(j)
          <5>1. SumTo(list', delta', n) \in Counts
            BY <1>1 DEF TypeInv
          <5>2. QED
            BY <1>8, <3>1, <3>4, <5>1 DEF Total
        <4> HIDE DEF x
        <4>2. Later(Later(latest, ticks), x) = Later(latest, ticks + x)
          BY <1>5, <1>8, <3>4, <4>1, LaterLater
        <4>3. QED
          BY <1>4, <4>1, <4>2 DEF x
      <3>6. Total(n)' <= Now' + Interval[list[j]]
        <4> DEFINE I == Interval[list[j]]
                   x == Total(j)
        <4>1. x <= Now + I /\ x \in Nat /\ I \in Nat
          BY <3>2, <3>3, <3>4
        <4> HIDE DEF I, x
        <4>2. x - ticks <= (Now - ticks) + I
          BY <1>7, <1>8, <4>1
        <4>3. QED
          BY <1>9, <3>1, <4>2 DEF I, x
      <3>7. list[j] = BootTimer => Total(n)' <= Interval[BootTimer]
        BY <1>8, <3>1, <3>2, <3>3, <3>4
      <3>8. QED
        BY <3>1, <3>2, <3>5, <3>6, <3>7
    <2>2. QED
      BY <1>4, <2>1 DEF DueInv
  <1>17. OverdueInv'
    <2>1. ASSUME NEW n \in 1 .. Len(list') PROVE Now' <= Total(n)' + Slack(n) + lag
      <3>1. PICK j \in 1 .. Len(list) : Total(n)' = Total(j) - ticks /\ Slack(n) \in Nat /\ Slack(j) <= Slack(n)
        BY <1>15
      <3>2. Now <= Total(j) + Slack(j) + lag
        BY DEF TimeInv, Timing, OverdueInv
      <3>3. Total(j) \in Nat /\ Slack(j) \in Nat
        BY <1>11, <1>13
      <3> DEFINE x == Total(j)
                 y == Slack(j)
                 z == Slack(n)
      <3>4. Now <= x + y + lag /\ y <= z /\ x \in Nat /\ y \in Nat /\ z \in Nat
        BY <3>1, <3>2, <3>3
      <3> HIDE DEF x, y, z
      <3>5. Now - ticks <= (x - ticks) + z + lag
        BY <1>7, <1>8, <3>4
      <3>6. QED
        BY <1>9, <3>1, <3>5 DEF x, z
    <2>2. QED
      BY <1>4, <1>10, <2>1 DEF OverdueInv
  <1>18. ASSUME NEW i \in 1 .. Len(restart')
         PROVE  /\ elapsed # None
                /\ Now' <= Diff(counter, restart'[i].ticks_at_start)
                /\ Diff(counter, restart'[i].ticks_at_start) <= Slack(1) + lag
    <2>1. PICK j \in 1 .. Len(list) :
            /\ restart'[i] = [type |-> "start", timer |-> list[j],
                              ticks_at_start |-> Later(latest, SumTo(list, delta, j))]
            /\ elapsed # None /\ SumTo(list, delta, j) <= ticks
      BY <1>3 DEF RestartPlaces
    <2>2. restart'[i].ticks_at_start = Later(latest, Total(j)) /\ Total(j) <= ticks
      BY <2>1 DEF Total
    <2>3. Total(j) \in Nat /\ Total(j) \in Counts /\ Slack(j) \in Nat /\ Slack(j) <= Slack(1)
      BY <1>11, <1>13
    <2>4. Total(j) <= Now
      BY <1>7, <1>8, <2>2, <2>3
    <2>5. Diff(counter, restart'[i].ticks_at_start) = Now - Total(j)
      BY <1>5, <2>2, <2>3, <2>4, SinceDue
    <2>6. Now <= Total(j) + Slack(j) + lag
      BY DEF TimeInv, Timing, OverdueInv
    <2>7. Slack(1) \in Nat
      BY <1>5, <1>6, SlackFacts
    <2> DEFINE x == Total(j)
               y == Slack(j)
               z == Slack(1)
    <2>8. /\ Now <= x + y + lag /\ y <= z /\ x <= ticks /\ x \in Nat /\ y \in Nat /\ z \in Nat
          /\ Diff(counter, restart'[i].ticks_at_start) = Now - x
      BY <2>2, <2>3, <2>5, <2>6, <2>7
    <2> HIDE DEF x, y, z
    <2>9. Now - ticks <= Now - x /\ Now - x <= z + lag
      BY <1>7, <1>8, <2>8
    <2>10. QED
      BY <1>9, <2>1, <2>8, <2>9 DEF z
  <1>19. AgeInv'
    <2>1. \A u \in DOMAIN ops' : \A i \in 1 .. Len(ops'[u]) :
            ops'[u][i].type = "start" => Age(ops[u][i])' <= lag'
      BY <1>4 DEF TimeInv, Timing, AgeInv, Age
    <2>2. \A i \in 1 .. Len(restart') : Now' <= Age(restart[i])' /\ Age(restart[i])' <= Slack(1)' + lag'
      BY <1>4, <1>10, <1>18 DEF Age
    <2>3. rtc' \/ at' = "compare" => ~ BootQueued'
      BY <1>4 DEF TimeInv, Timing, AgeInv, BootQueued
    <2>4. QED
      BY <2>1, <2>2, <2>3 DEF AgeInv
  <1>20. IdleInv'
    BY <1>4 DEF TimeInv, Timing, IdleInv
  <1>21. Gap \in Int
    <2>1. cc \in Counts
      BY <1>1, TypeFacts
    <2>2. Gap \in Counts
      BY <1>5, <2>1, DiffFacts DEF Gap
    <2>3. QED
      BY <1>7, <2>2 DEF Counts
  <1>22. ASSUME rtc, ~ update' PROVE Waiting' /\ restart' = << >>
    <2>1. elapsed = None
      <3>1. elapsed # None => update'
        BY <1>2 DEF Deletes
      <3>2. QED
        BY <1>22, <3>1
    <2>2. Waiting
      BY <1>4, <1>22, <2>1 DEF TimeInv, Timing, IdleInv
    <2>3. ticks = 0 /\ Now' = Now
      BY <1>7, <1>8, <1>9, <2>1
    <2>4. ASSUME NEW n \in 1 .. Len(list') PROVE Now + Gap + 0 <= Total(n)' + Slack(n)
      <3>1. PICK j \in 1 .. Len(list) : Total(n)' = Total(j) - ticks /\ Slack(n) \in Nat /\ Slack(j) <= Slack(n)
        BY <1>15
      <3>2. Now + Gap + 0 <= Total(j) + Slack(j)
        BY <2>2 DEF Waiting, Ahead
      <3>3. Total(j) \in Nat /\ Slack(j) \in Nat
        BY <1>11, <1>13
      <3>4. QED
        BY <1>7, <1>21, <2>3, <3>1, <3>2, <3>3
    <2>5. ASSUME NEW n \in 1 .. Len(list'), ~ (Gap <= 3) PROVE Now + Gap <= Total(n)'
      <3>1. PICK j \in 1 .. Len(list) : Total(n)' = Total(j) - ticks
        BY <1>15
      <3>2. Now + Gap <= Total(j) /\ Total(j) \in Nat
        BY <1>11, <2>2, <2>5 DEF Waiting
      <3>3. QED
        BY <1>7, <1>21, <2>3, <3>1, <3>2
    <2>6. armed /\ Gap >= 1
      BY <2>2 DEF Waiting, Ahead
    <2>7. Waiting'
      BY <1>4, <1>10, <2>3, <2>4, <2>5, <2>6 DEF Waiting, Ahead
    <2>8. restart' = << >>
      <3>1. Len(restart') \in Nat
        BY <1>4
      <3>2. Len(restart') = 0
        <4>1. Len(restart') # 0 => 1 \in 1 .. Len(restart')
          BY <3>1
        <4>2. QED
          BY <1>18, <2>1, <4>1
      <3>3. QED
        BY <1>4, <3>2
    <2>9. QED
      BY <2>7, <2>8
  <1>23. ASSUME rtc, update' PROVE InTime' \/ Ahead(2)'
    <2>1. CASE elapsed # None
      <3>1. ASSUME NEW n \in 1 .. Len(list') PROVE Now' < Total(n)' + lag
        <4>1. PICK j \in 1 .. Len(list) : Total(n)' = Total(j) - ticks /\ Total(j) > ticks
          BY <1>15, <2>1
        <4>2. Settled(elapsed)
          BY <2>1 DEF TimeInv, Timing, IdleInv
        <4>3. Total(j) <= ticks \/ Now < Total(j) + lag
          BY <1>8, <2>1, <4>2 DEF Settled
        <4>4. Total(j) \in Nat
          BY <1>11
        <4>5. QED
          BY <1>7, <1>8, <1>9, <4>1, <4>3, <4>4
      <3>2. InTime'
        BY <1>4, <3>1 DEF InTime
      <3>3. QED
        BY <3>2
    <2>2. CASE elapsed = None
      <3>1. Waiting
        BY <1>4, <1>23, <2>2 DEF TimeInv, Timing, IdleInv
      <3>2. ticks = 0 /\ Now' = Now
        BY <1>7, <1>8, <1>9, <2>2
      <3>3. ASSUME NEW n \in 1 .. Len(list') PROVE Now + Gap + 2 <= Total(n)' + Slack(n)
        <4>1. PICK j \in 1 .. Len(list) : /\ Total(n)' = Total(j) - ticks
                                          /\ Slack(n) \in Nat /\ Slack(j) + 2 <= Slack(n)
          BY <1>15, <1>23, <2>2
        <4>2. Now + Gap + 0 <= Total(j) + Slack(j)
          BY <3>1 DEF Waiting, Ahead
        <4>3. Total(j) \in Nat /\ Slack(j) \in Nat
          BY <1>11, <1>13
        <4>4. QED
          BY <1>7, <1>21, <3>2, <4>1, <4>2, <4>3
      <3>4. armed /\ Gap >= 1
        BY <3>1 DEF Waiting, Ahead
      <3>5. Ahead(2)'
        BY <1>4, <1>10, <3>2, <3>3, <3>4 DEF Ahead
      <3>6. QED
        BY <3>5
    <2>3. QED
      BY <2>1, <2>2
  <1>24. InsertInv' /\ CompareInv'
    BY <1>4, <1>22, <1>23 DEF InsertInv, CompareInv
  <1>25. QED
    BY <1>16, <1>17, <1>19, <1>20, <1>24 DEF Timing

-------------------------------------------------------------------------------
(*****************************************************************************)
(* Where the insertions put a timer.                                        *)
(*****************************************************************************)

\* When a start that waits is to expire.
Expires(op) ==
  /\ Expiry(op) \in Nat
  /\ Now + 1 <= Expiry(op) /\ Expiry(op) <= Now + Interval[op.timer]
  /\ op.timer = BootTimer => Expiry(op) <= Interval[BootTimer]
  /\ Later(op.ticks_at_start, Interval[op.timer]) = Later(latest, Expiry(op))

LEMMA AskedFacts ==
  ASSUME TimeInv, Cardinality(Timers) >= 3, at = "insertions",
         NEW i \in 1 .. Len(Asked), Asked[i].type = "start"
  PROVE  Expires(Asked[i])
  <1> DEFINE op == Asked[i]
  <1>1. TypeInv /\ Near
    BY NearFacts DEF TimeInv, CoreInv
  <1>2. /\ counter \in Counts /\ latest \in Counts /\ Asked \in Seq(Requests)
        /\ ops \in [ToSet(Users) -> Seq(Requests)] /\ Queued \in Seq(Requests)
        /\ list \in Seq(Timers) /\ IsInjective(list) /\ restart \in Seq(Requests)
    <2>1. restart \in Seq(Requests) /\ IsInjective(list)
      BY <1>1 DEF TypeInv, IsTimerList
    <2>2. QED
      BY <1>1, <2>1, TypeFacts
  <1>3. op \in Requests
    BY <1>2
  <1>4. op.ticks_at_start \in Counts /\ op.timer \in Timers
    BY <1>3 DEF Requests
  <1>5. /\ Now \in Nat /\ lag \in Nat /\ lag <= MaxLag /\ 2 * (Now + 1) < Wrap
        /\ MaxLag \in Nat /\ Wrap \in Nat /\ Jitter \in Nat
        /\ Interval[op.timer] \in Nat /\ Jitter < Interval[op.timer]
    BY <1>1, <1>4, Parameters DEF Near
  <1>6. Slack(1) \in Nat /\ Slack(1) + MaxLag <= Jitter
    BY <1>2, SlackFacts
  <1>7. Age(op) \in Nat
    <2>1. Age(op) \in Counts
      BY <1>2, <1>4, DiffFacts DEF Age
    <2>2. QED
      BY <1>5, <2>1 DEF Counts
  <1>8. Age(op) <= Jitter /\ (op.timer = BootTimer => Now <= Age(op))
    <2>1. Joined(Asked, restart, Queued)
      BY <1>2, JoinedFacts DEF Asked
    <2>2. CASE \E j \in 1 .. Len(restart) : Asked[i] = restart[j]
      <3>1. PICK j \in 1 .. Len(restart) : Asked[i] = restart[j]
        BY <2>2
      <3>2. Now <= Age(restart[j]) /\ Age(restart[j]) <= Slack(1) + lag
        BY DEF TimeInv, Timing, AgeInv
      <3>3. Now <= Age(op) /\ Age(op) <= Slack(1) + lag
        BY <3>1, <3>2
      <3> HIDE DEF op
      <3>4. QED
        BY <1>5, <1>6, <1>7, <3>3
    <2>3. CASE \E j \in 1 .. Len(Queued) : Asked[i] = Queued[j]
      <3>1. PICK j \in 1 .. Len(Queued) : Asked[i] = Queued[j]
        BY <2>3
      <3>2. PICK u \in DOMAIN ops : \E x \in 1 .. Len(ops[u]) : Queued[j] = ops[u][x]
        BY <1>2, QueuedFacts
      <3>3. PICK x \in 1 .. Len(ops[u]) : Queued[j] = ops[u][x]
        BY <3>2
      <3>4. op = ops[u][x]
        BY <3>1, <3>3
      <3>5. Age(op) <= lag
        BY <3>4 DEF TimeInv, Timing, AgeInv
      <3>6. op.timer = BootTimer => Now = 0
        <4> SUFFICES ASSUME op.timer = BootTimer PROVE Now = 0
          OBVIOUS
        <4>1. BootQueued
          BY <3>4 DEF BootQueued
        <4>2. ~ rtc
          BY <4>1 DEF TimeInv, Timing, AgeInv
        <4>3. counter = 0 /\ latest = 0
          BY <4>2 DEF TimeInv, CoreInv, BootInv
        <4>4. QED
          BY <1>2, <4>3, DiffFacts DEF Now
      <3> HIDE DEF op
      <3>7. QED
        BY <1>5, <1>6, <1>7, <3>5, <3>6
    <2>4. QED
      BY <2>1, <2>2, <2>3 DEF Joined
  <1>9. /\ Expiry(op) = Now - Age(op) + Interval[op.timer]
        /\ Later(op.ticks_at_start, Interval[op.timer]) = Later(latest, Expiry(op))
    <2>1. Diff(counter, op.ticks_at_start) <= Jitter /\ 2 * (Diff(counter, latest) + 1) < Wrap
      BY <1>5, <1>8 DEF Age, Now
    <2> HIDE DEF op
    <2>2. QED
      BY <1>2, <1>4, <2>1, ExpiryFacts DEF Expiry, Age, Now
  <1> DEFINE I == Interval[op.timer]
             x == Expiry(op)
             a == Age(op)
  <1>10. x = Now - a + I /\ I \in Nat /\ a \in Nat /\ a <= Jitter /\ Jitter < I
         /\ (op.timer = BootTimer => Now <= a)
    BY <1>5, <1>7, <1>8, <1>9
  <1>11. op.timer = BootTimer => I = Interval[BootTimer]
    OBVIOUS
  <1> HIDE DEF I, x, a, op
  <1>12. x \in Nat /\ Now + 1 <= x /\ x <= Now + I /\ (op.timer = BootTimer => x <= I)
    BY <1>5, <1>10
  <1>13. Expires(op)
    BY <1>9, <1>11, <1>12 DEF Expires, I, x
  <1>14. QED
    BY <1>13 DEF op

\* A timer after the insertions: it expires in the future, or it is one of the list,
\* at its place; the head is one of these if it was in the list.
Placed(n) ==
  /\ Total(n)' \in Nat
  /\ \/ Now + 1 <= Total(n)'
     \/ n \in 1 .. Len(list) /\ list'[n] = list[n] /\ Total(n)' = Total(n)
  /\ n = 1 /\ list'[1] \in ToSet(list) => Total(1)' = Total(1)
  /\ due'[list'[n]] = Later(latest, Total(n)')
  /\ Total(n)' <= Now + Interval[list'[n]]
  /\ list'[n] = BootTimer => Total(n)' <= Interval[BootTimer]

LEMMA InsertionsPlaces ==
  ASSUME TimeInv, TypeInv', Cardinality(Timers) >= 3, Swi0Insertions, NEW n \in 1 .. Len(list')
  PROVE  Placed(n)
  <1> DEFINE s == Inserted
             q == Asked
  <1>1. Inserts(s)
    BY InsertsFacts DEF TimeInv, CoreInv
  <1>2. at = "insertions"
    BY DEF Swi0Insertions
  <1>3. Len(list) \in Nat /\ list' \in Seq(Timers) /\ Len(list') \in Nat /\ Wrap \in Nat
    <2>1. list' \in Seq(Timers)
      BY DEF TypeInv, IsTimerList
    <2>2. TypeInv
      BY DEF TimeInv, CoreInv
    <2>3. QED
      BY <2>1, <2>2, TypeFacts, Parameters
  <1>4. Total(n)' \in Nat
    <2>1. SumTo(list', delta', n) \in Counts
      BY DEF TypeInv
    <2>2. QED
      BY <1>3, <2>1 DEF Total, Counts
  <1>5. list' = s.list /\ delta' = s.delta /\ due' = s.due /\ InsertedFrom(s, q)
    BY <1>1 DEF Inserts
  <1>6. \A i \in 1 .. Len(q) : q[i].type = "start" => Expires(q[i])
    BY <1>2, AskedFacts
  <1> HIDE DEF s, q
  <1>7. CASE Fresh(s, n, q)
    <2>1. PICK i \in 1 .. Len(q) :
            /\ q[i].type = "start" /\ q[i].timer = s.list[n] /\ q[i].timer \notin ToSet(list)
            /\ SumTo(s.list, s.delta, n) = Expiry(q[i])
            /\ s.due[s.list[n]] = Later(q[i].ticks_at_start, Interval[s.list[n]])
      BY <1>7 DEF Fresh
    <2>2. Expires(q[i])
      BY <1>6, <2>1
    <2>3. Total(n)' = Expiry(q[i]) /\ list'[n] = q[i].timer
          /\ due'[list'[n]] = Later(q[i].ticks_at_start, Interval[q[i].timer])
      BY <1>5, <2>1 DEF Total
    <2>4. list'[n] \notin ToSet(list)
      BY <2>1, <2>3
    <2>5. QED
      BY <1>4, <2>2, <2>3, <2>4 DEF Expires, Placed
  <1>8. CASE Stays(s, n, q)
    <2>1. PICK j \in 1 .. Len(list) :
            /\ j <= n /\ s.list[n] = list[j]
            /\ SumTo(s.list, s.delta, n) = SumTo(list, delta, j)
            /\ s.due[list[j]] = due[list[j]]
            /\ j = n \/ Before(s, n, q)
      BY <1>8 DEF Stays
    <2>2. list'[n] = list[j] /\ Total(n)' = Total(j) /\ due'[list'[n]] = due[list[j]]
      BY <1>5, <2>1 DEF Total
    <2>3. /\ due[list[j]] = Later(latest, Total(j))
          /\ Total(j) <= Now + Interval[list[j]]
          /\ list[j] = BootTimer => Total(j) <= Interval[BootTimer]
      BY DEF TimeInv, Timing, DueInv
    <2>4. Before(s, n, q) => Now + 1 <= Total(n)'
      <3> SUFFICES ASSUME Before(s, n, q) PROVE Now + 1 <= Total(n)'
        OBVIOUS
      <3>1. PICK i \in 1 .. Len(q) : q[i].type = "start" /\ Expiry(q[i]) <= SumTo(s.list, s.delta, n)
        BY DEF Before
      <3>2. Expires(q[i])
        BY <1>6, <3>1
      <3>3. Now + 1 <= Expiry(q[i]) /\ Expiry(q[i]) \in Nat /\ Expiry(q[i]) <= Total(n)'
        BY <1>5, <3>1, <3>2 DEF Expires, Total
      <3>4. Now \in Nat
        BY NearFacts DEF Near
      <3>5. QED
        BY <1>4, <3>3, <3>4
    <2>5. (Now + 1 <= Total(n)')
          \/ (n \in 1 .. Len(list) /\ list'[n] = list[n] /\ Total(n)' = Total(n))
      <3>1. CASE j = n
        BY <2>2, <3>1
      <3>2. CASE j # n
        BY <2>1, <2>4, <3>2
      <3>3. QED
        BY <3>1, <3>2
    <2>6. /\ due'[list'[n]] = Later(latest, Total(n)')
          /\ Total(n)' <= Now + Interval[list'[n]]
          /\ list'[n] = BootTimer => Total(n)' <= Interval[BootTimer]
      BY <2>2, <2>3
    <2>7. n = 1 => Total(1)' = Total(1)
      <3> SUFFICES ASSUME n = 1 PROVE Total(1)' = Total(1)
        OBVIOUS
      <3>1. j = 1
        BY <2>1
      <3>2. QED
        BY <2>2, <3>1
    <2>8. QED
      BY <1>4, <2>5, <2>6, <2>7 DEF Placed
  <1>9. QED
    BY <1>5, <1>7, <1>8 DEF InsertedFrom

-------------------------------------------------------------------------------
(*****************************************************************************)
(* The timing is kept: the insertions; what follows.                        *)
(*****************************************************************************)

LEMMA InsertionsTime ==
  ASSUME TimeInv, Cardinality(Timers) >= 3, Swi0Insertions
  PROVE  Timing'
  <1>1. TypeInv /\ TypeInv' /\ Near /\ CoreInv
    BY NearFacts, NextType DEF TimeInv, CoreInv, Next, Handlers
  <1> DEFINE must == update \/ HeadOf(list') # HeadOf(list)
  <1>2. list' # << >> /\ rtc' = rtc /\ (~ rtc => at' = "compare")
    BY <1>1, BootInserts
  <1>3. /\ at = "insertions" /\ update' = FALSE
        /\ ops' = [u \in DOMAIN ops |-> << >>] /\ restart' = << >>
        /\ UNCHANGED <<counter, cc, armed, rtc1, swi0, latest, elapsed, expired, lag, ran>>
        /\ IF must THEN at' = "compare" /\ pre' = counter ELSE at' = "idle"
    <2> DEFINE s == Inserted
    <2>1. list' = s.list
      BY DEF Swi0Insertions, Inserted, Asked
    <2>2. IF (update \/ HeadOf(s.list) # HeadOf(list)) /\ s.list # << >>
          THEN at' = "compare" /\ pre' = counter ELSE at' = "idle"
      BY DEF Swi0Insertions, Inserted, Asked
    <2> HIDE DEF s
    <2>3. IF must THEN at' = "compare" /\ pre' = counter ELSE at' = "idle"
      BY <1>2, <2>1, <2>2
    <2>4. QED
      BY <2>3 DEF Swi0Insertions
  <1>4. /\ counter \in Counts /\ latest \in Counts /\ list \in Seq(Timers) /\ Len(list) \in Nat
        /\ list' \in Seq(Timers) /\ Len(list') \in Nat /\ delta' \in [Timers -> Nat] /\ cc \in Counts
    <2>1. list' \in Seq(Timers) /\ delta' \in [Timers -> Nat]
      BY <1>1 DEF TypeInv, IsTimerList
    <2>2. QED
      BY <1>1, <2>1, TypeFacts
  <1>5. IsInjective(list) /\ IsInjective(list')
    BY <1>1 DEF TypeInv, IsTimerList
  <1>6. Now \in Nat /\ lag \in Nat /\ lag <= MaxLag /\ MaxLag \in Nat /\ Wrap \in Nat
    BY <1>1, Parameters DEF Near
  <1>7. Now' = Now /\ Gap' = Gap /\ \A n : Slack(n)' = Slack(n)
    BY <1>3 DEF Now, Gap, Slack
  <1>8. \A n \in 1 .. Len(list') : Placed(n)
    BY <1>1, InsertionsPlaces
  <1>9. \A n \in 1 .. Len(list') : Slack(n) \in Nat /\ 2 + MaxLag <= Slack(n)
    BY <1>4, <1>5, SlackFacts
  <1>10. Gap \in Int
    <2>1. Gap \in Counts
      BY <1>4, DiffFacts DEF Gap
    <2>2. QED
      BY <1>6, <2>1 DEF Counts
  <1>11. DueInv'
    <2>1. \A n \in 1 .. Len(list') : /\ due'[list'[n]] = Later(latest, Total(n)')
                                     /\ Total(n)' <= Now + Interval[list'[n]]
                                     /\ list'[n] = BootTimer => Total(n)' <= Interval[BootTimer]
      BY <1>8 DEF Placed
    <2>2. QED
      BY <1>3, <1>7, <2>1 DEF DueInv
  <1> HIDE DEF must
  <1>12. \A n \in 1 .. Len(list') : Total(n)' \in Nat
    BY <1>8 DEF Placed
  <1>13. \A n \in 1 .. Len(list') :
           Now + 1 <= Total(n)' \/ (n \in 1 .. Len(list) /\ Total(n)' = Total(n))
    BY <1>8 DEF Placed
  <1>14. OverdueInv'
    <2>1. ASSUME NEW n \in 1 .. Len(list') PROVE Now <= Total(n)' + Slack(n) + lag
      <3>1. CASE Now + 1 <= Total(n)'
        BY <1>6, <1>9, <1>12, <3>1
      <3>2. CASE n \in 1 .. Len(list) /\ Total(n)' = Total(n)
        BY <3>2 DEF TimeInv, Timing, OverdueInv
      <3>3. QED
        BY <1>13, <3>1, <3>2
    <2>2. QED
      BY <1>3, <1>7, <2>1 DEF OverdueInv
  <1>15. AgeInv'
    <2>1. \A u \in DOMAIN ops' : Len(ops'[u]) = 0
      BY <1>3
    <2>2. Len(restart') = 0
      BY <1>3
    <2>3. \A i \in 1 .. 0 : FALSE
      OBVIOUS
    <2>4. ~ BootQueued'
      BY <2>1, <2>3 DEF BootQueued
    <2>5. QED
      BY <2>1, <2>2, <2>3, <2>4 DEF AgeInv
  <1>16. 1 \in 1 .. Len(list') /\ \A n \in 1 .. Len(list') : Total(1)' <= Total(n)'
    <2>1. 1 \in 1 .. Len(list')
      BY <1>2, <1>4
    <2>2. \A j, k \in 0 .. Len(list') : j <= k => SumTo(list', delta', j) <= SumTo(list', delta', k)
      BY <1>4, SumGrows
    <2>3. \A n \in 1 .. Len(list') : 1 \in 0 .. Len(list') /\ n \in 0 .. Len(list') /\ 1 <= n
      BY <1>4
    <2>4. QED
      BY <2>1, <2>2, <2>3 DEF Total
  \* A new head is in the future, and so are the timers behind it.
  <1>17. ASSUME HeadOf(list') # HeadOf(list) PROVE \A n \in 1 .. Len(list') : Now + 1 <= Total(n)'
    <2>1. Now + 1 <= Total(1)'
      <3>1. Placed(1)
        BY <1>8, <1>16
      <3>2. CASE 1 \in 1 .. Len(list) /\ list'[1] = list[1]
        <4>1. list # << >>
          BY <1>4, <3>2
        <4>2. HeadOf(list) = list[1] /\ HeadOf(list') = list'[1]
          BY <1>2, <4>1 DEF HeadOf
        <4>3. QED
          BY <1>17, <3>2, <4>2
      <3>3. QED
        BY <3>1, <3>2 DEF Placed
    <2>2. \A n \in 1 .. Len(list') : Total(1)' <= Total(n)' /\ Total(n)' \in Nat /\ Total(1)' \in Nat
      BY <1>12, <1>16
    <2>3. QED
      BY <1>6, <2>1, <2>2
  <1>18. ASSUME ~ must, rtc, ~ rtc1 PROVE Waiting'
    <2>1. ~ update /\ HeadOf(list') = HeadOf(list)
      BY <1>18 DEF must
    <2>2. Waiting
      BY <1>3, <1>18, <2>1 DEF TimeInv, Timing, InsertInv
    <2>3. armed /\ Gap >= 1 /\ \A n \in 1 .. Len(list) : Now + Gap + 0 <= Total(n) + Slack(n)
      BY <2>2 DEF Waiting, Ahead
    <2>4. 1 \in 1 .. Len(list) /\ Total(1)' = Total(1)
      <3>1. HeadOf(list') = list'[1] /\ list'[1] \in Timers
        BY <1>2, <1>4, <1>16 DEF HeadOf
      <3>2. None \notin Timers
        BY TimerAssumption
      <3>3. list # << >>
        BY <2>1, <3>1, <3>2 DEF HeadOf
      <3>4. 1 \in 1 .. Len(list) /\ list'[1] = list[1]
        BY <1>4, <2>1, <3>1, <3>3 DEF HeadOf
      <3>5. list'[1] \in ToSet(list)
        BY <1>4, <3>4, ToSetFacts
      <3>6. Placed(1)
        BY <1>8, <1>16
      <3>7. QED
        BY <3>4, <3>5, <3>6 DEF Placed
    <2>5. ASSUME ~ (Gap <= 3), NEW n \in 1 .. Len(list') PROVE Now + Gap <= Total(n)'
      <3>1. Now + Gap <= Total(1)
        BY <2>2, <2>4, <2>5 DEF Waiting
      <3>2. Total(1)' <= Total(n)' /\ Total(1)' \in Nat /\ Total(n)' \in Nat
        BY <1>12, <1>16
      <3>3. QED
        BY <1>6, <1>10, <2>4, <3>1, <3>2
    <2>6. ASSUME NEW n \in 1 .. Len(list') PROVE Now + Gap + 0 <= Total(n)' + Slack(n)
      <3>1. Total(n)' \in Nat /\ Slack(n) \in Nat /\ 2 + MaxLag <= Slack(n)
        BY <1>9, <1>12
      <3>2. CASE n \in 1 .. Len(list) /\ Total(n)' = Total(n)
        BY <2>3, <3>2
      <3>3. CASE Now + 1 <= Total(n)' /\ Gap <= 3
        BY <1>6, <1>10, <3>1, <3>3
      <3>4. CASE ~ (Gap <= 3)
        <4>1. Now + Gap <= Total(n)'
          BY <2>5, <3>4
        <4>2. QED
          BY <1>6, <1>10, <3>1, <4>1
      <3>5. QED
        BY <1>13, <3>2, <3>3, <3>4
    <2>7. QED
      BY <1>3, <1>7, <2>3, <2>5, <2>6 DEF Waiting, Ahead
  <1>19. ASSUME must, ~ rtc1 PROVE \A n \in 1 .. Len(list') : Now + 3 <= Total(n)' + Slack(n)
    <2> SUFFICES ASSUME NEW n \in 1 .. Len(list') PROVE Now + 3 <= Total(n)' + Slack(n)
      OBVIOUS
    <2>1. Total(n)' \in Nat /\ Slack(n) \in Nat /\ 2 + MaxLag <= Slack(n)
      BY <1>9, <1>12
    <2>2. CASE Now + 1 <= Total(n)'
      BY <1>6, <2>1, <2>2
    <2>3. CASE n \in 1 .. Len(list) /\ Total(n)' = Total(n)
      <3>1. CASE HeadOf(list') # HeadOf(list)
        BY <1>17, <2>2, <3>1
      <3>2. CASE HeadOf(list') = HeadOf(list)
        <4>1. update
          BY <1>19, <3>2 DEF must
        <4>2. rtc
          <5>1. list # << >>
            BY <1>4, <2>3
          <5>2. QED
            BY <1>1, <1>3, <5>1 DEF CoreInv, BootInv
        <4>3. InTime \/ Ahead(2)
          BY <1>3, <1>19, <4>1, <4>2 DEF TimeInv, Timing, InsertInv
        <4>4. CASE InTime
          <5>1. Now < Total(n) + lag
            BY <2>3, <4>4 DEF InTime
          <5>2. QED
            BY <1>6, <2>1, <2>3, <5>1
        <4>5. CASE Ahead(2)
          <5>1. Now + Gap + 2 <= Total(n) + Slack(n) /\ Gap >= 1
            BY <2>3, <4>5 DEF Ahead
          <5>2. QED
            BY <1>6, <1>10, <2>1, <2>3, <5>1
        <4>6. QED
          BY <4>3, <4>4, <4>5
      <3>3. QED
        BY <3>1, <3>2
    <2>4. QED
      BY <1>13, <2>2, <2>3
  <1>20. CompareInv'
    <2>1. CASE must
      <3>1. at' = "compare" /\ PreNow' = Now
        BY <1>3, <2>1 DEF PreNow, Now
      <3>2. rtc1' \/ \A n \in 1 .. Len(list') : PreNow' + 3 <= Total(n)' + Slack(n)'
        BY <1>3, <1>7, <1>19, <2>1, <3>1
      <3>3. PreNow' <= Now'
        BY <1>6, <1>7, <3>1
      <3>4. QED
        BY <3>1, <3>2, <3>3 DEF CompareInv
    <2>2. CASE ~ must
      BY <1>3, <2>2 DEF CompareInv
    <2>3. QED
      BY <2>1, <2>2
  <1>21. IdleInv' /\ InsertInv'
    <2>1. elapsed = None /\ ran = {} /\ at' \in {"idle", "compare"}
      BY <1>3 DEF TimeInv, Timing, IdleInv
    <2>2. rtc' /\ ~ rtc1' /\ at' = "idle" => Waiting'
      BY <1>2, <1>3, <1>18
    <2>3. QED
      BY <1>3, <2>1, <2>2 DEF IdleInv, InsertInv
  <1>22. QED
    BY <1>11, <1>14, <1>15, <1>20, <1>21 DEF Timing

LEMMA NextTime ==
  ASSUME TimeInv, Cardinality(Timers) >= 3, [Next]_vars
  PROVE  TimeInv'
  <1>1. CoreInv'
    BY NextCore DEF TimeInv
  <1>2. CASE LowResTimerStart \/ LowRequest \/ Edge
    <2>1. PICK u, new : Asking(u, new)
      BY <1>2, RequestCases DEF TimeInv, CoreInv
    <2>2. QED
      BY <1>1, <2>1, RequestTime DEF TimeInv
  <1>3. CASE Tick
    BY <1>1, <1>3, TickTime DEF TimeInv
  <1>4. CASE Rtc1Handler
    BY <1>1, <1>4, HandlerTime DEF TimeInv
  <1>5. CASE Rtc1Queue
    BY <1>1, <1>5, QueueTime DEF TimeInv
  <1>6. CASE Swi0Deletions
    BY <1>1, <1>6, DeletionsTime DEF TimeInv
  <1>7. CASE Swi0Insertions
    BY <1>1, <1>7, InsertionsTime DEF TimeInv
  <1>8. CASE Swi0Compare
    BY <1>1, <1>8, CompareTime DEF TimeInv
  <1>9. CASE Swi0Check
    BY <1>1, <1>9, CheckTime DEF TimeInv
  <1>10. CASE UNCHANGED vars
    BY <1>1, <1>10, StutterTime DEF TimeInv
  <1>11. QED
    BY <1>2, <1>3, <1>4, <1>5, <1>6, <1>7, <1>8, <1>9, <1>10 DEF Next, Handlers

LEMMA TimeHolds ==
  ASSUME Cardinality(Timers) >= 3
  PROVE  Spec => []TimeInv
  <1>1. Init => TimeInv
    BY InitTime
  <1>2. TimeInv /\ [Next]_vars => TimeInv'
    BY NextTime
  <1>3. QED
    BY <1>1, <1>2, PTL DEF Spec

\* How late a running timer is, when the deltas add up.
LEMMA LateFacts ==
  ASSUME TimeInv, Cardinality(Timers) >= 3, NEW k \in 1 .. Len(list)
  PROVE  /\ Total(k) <= Now => Late(counter, list[k]) <= Jitter
         /\ ~ (Total(k) <= Now) => 2 * Late(counter, list[k]) > Wrap
  <1>1. TypeInv /\ Near
    BY NearFacts DEF TimeInv, CoreInv
  <1>2. /\ counter \in Counts /\ latest \in Counts /\ list \in Seq(Timers) /\ IsInjective(list)
        /\ list[k] \in Timers
    BY <1>1, TypeFacts DEF TypeInv, IsTimerList
  <1>3. /\ Now \in Nat /\ lag \in Nat /\ lag <= MaxLag /\ MaxLag \in Nat /\ Wrap \in Nat
        /\ Jitter \in Nat /\ Interval[list[k]] \in Nat
        /\ 2 * (Interval[list[k]] + Jitter + 1) < Wrap
    BY <1>1, <1>2, Parameters DEF Near
  <1>4. Total(k) \in Nat /\ Total(k) \in Counts
    <2>1. SumTo(list, delta, k) \in Counts
      BY <1>1 DEF TypeInv
    <2>2. QED
      BY <1>3, <2>1 DEF Total, Counts
  <1>5. /\ due[list[k]] = Later(latest, Total(k))
        /\ Total(k) <= Now + Interval[list[k]] /\ Now <= Total(k) + Slack(k) + lag
    BY DEF TimeInv, Timing, DueInv, OverdueInv
  <1>6. Slack(k) \in Nat /\ Slack(k) + MaxLag <= Jitter
    <2>1. Slack(k) \in Nat /\ Slack(k) <= Slack(1) /\ Slack(1) \in Nat /\ Slack(1) + MaxLag <= Jitter
      BY <1>2, SlackFacts
    <2>2. QED
      BY <1>3, <2>1
  <1>7. Later(latest, Total(k)) \in Counts /\ Diff(Later(latest, Total(k)), latest) = Total(k)
    BY <1>2, <1>4, LaterDiff
  <1>8. Late(counter, list[k]) = IF Total(k) <= Now THEN Now - Total(k) ELSE Now - Total(k) + Wrap
    BY <1>2, <1>5, <1>7, DiffBetween DEF Late, Now
  <1>9. Total(k) <= Now => Late(counter, list[k]) <= Jitter
    BY <1>3, <1>4, <1>5, <1>6, <1>8
  <1>10. ~ (Total(k) <= Now) => 2 * Late(counter, list[k]) > Wrap
    <2> DEFINE L == Late(counter, list[k])
               I == Interval[list[k]]
    <2>1. ~ (Total(k) <= Now) => L = Now - Total(k) + Wrap
      BY <1>8
    <2>2. I \in Nat /\ 2 * (I + Jitter + 1) < Wrap /\ Total(k) <= Now + I
      BY <1>3, <1>5
    <2> HIDE DEF L, I
    <2>3. ~ (Total(k) <= Now) => 2 * L > Wrap
      BY <1>3, <1>4, <2>1, <2>2
    <2>4. QED
      BY <2>3 DEF L
  <1>11. QED
    BY <1>9, <1>10

\* The deltas of the list add up to the times the timers are due, through all that
\* the handlers of app_timer.c insert, remove and take from the front.
THEOREM SumsAreDue ==
  ASSUME Cardinality(Timers) >= 3
  PROVE  Spec => []DeltasAddUp
  <1>1. TimeInv => DeltasAddUp
    <2> SUFFICES ASSUME TimeInv PROVE DeltasAddUp
      OBVIOUS
    <2>1. list \in Seq(Timers)
      BY TypeFacts DEF TimeInv, CoreInv
    <2>2. \A k \in 1 .. Len(list) : due[list[k]] = Later(latest, SumTo(list, delta, k))
      BY DEF TimeInv, Timing, DueInv, Total
    <2>3. DOMAIN list = 1 .. Len(list)
      BY <2>1
    <2>4. QED
      BY <2>2, <2>3 DEF DeltasAddUp
  <1>2. QED
    BY <1>1, TimeHolds, PTL

\* No timer is overdue by more than the jitter: compare_reg_update loses no compare,
\* wherever the counter and app_button's requests get in between.
THEOREM NoCompareLost ==
  ASSUME Cardinality(Timers) >= 3
  PROVE  Spec => []NeverOverdue
  <1>1. TimeInv => NeverOverdue
    <2> SUFFICES ASSUME TimeInv, NEW t \in Running
                 PROVE  Late(counter, t) <= Jitter \/ 2 * Late(counter, t) > Wrap
      BY DEF NeverOverdue
    <2>1. list \in Seq(Timers)
      BY TypeFacts DEF TimeInv, CoreInv
    <2>2. PICK k \in 1 .. Len(list) : list[k] = t
      BY <2>1, ToSetFacts DEF Running
    <2>3. QED
      BY <2>2, LateFacts
  <1>2. QED
    BY <1>1, TimeHolds, PTL

\* timer_timeouts_check calls the handler of a timer at its time or up to the jitter
\* later, never before.
THEOREM HandlersInTime ==
  ASSUME Cardinality(Timers) >= 3
  PROVE  Spec => NeverEarly
  <1>1. TimeInv /\ [Next]_vars => [RunsInTime]_vars
    <2> SUFFICES ASSUME TimeInv, Next, NEW t \in ran' \ ran PROVE Late(counter, t) <= Jitter
      BY DEF RunsInTime
    <2>1. CASE Rtc1Handler
      <3>1. TypeInv /\ list # << >>
        BY <2>1, HandlerTime DEF TimeInv, CoreInv
      <3> DEFINE K == ExpiredIn(list, delta, TicksElapsed)
      <3>2. /\ K \in 0 .. Len(list) /\ ran' = {list[j] : j \in 1 .. K}
            /\ \A n \in 1 .. Len(list) : n <= K <=> SumTo(list, delta, n) <= TicksElapsed
        BY <2>1, <3>1, Rtc1Facts
      <3> HIDE DEF K
      <3>3. PICK k \in 1 .. K : list[k] = t
        BY <3>2
      <3>4. k \in 1 .. Len(list) /\ k <= K
        BY <3>2
      <3>5. Total(k) <= Now
        BY <3>2, <3>4 DEF Total, Now, TicksElapsed
      <3>6. QED
        BY <3>3, <3>4, <3>5, LateFacts
    <2>2. CASE ~ Rtc1Handler
      <3>1. ran' = ran \/ ran' = {}
        <4>1. LowResTimerStart \/ LowRequest \/ Edge => ran' = ran
          BY DEF LowResTimerStart, LowRequest, Edge, Request, ghostVars
        <4>2. QED
          BY <2>2, <4>1 DEF Next, Handlers, Tick, Rtc1Queue, Swi0Deletions, Swi0Insertions,
                            Swi0Compare, Swi0Check, ghostVars
      <3>2. QED
        BY <3>1
    <2>3. QED
      BY <2>1, <2>2
  <1>2. QED
    BY <1>1, TimeHolds, PTL DEF Spec, NeverEarly

===============================================================================
