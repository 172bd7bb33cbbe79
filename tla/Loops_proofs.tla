---------------------------- MODULE Loops_proofs ----------------------------
(***************************************************************************)
(* Facts about loops, for the proofs about the models that have them.  A   *)
(* loop is a function from the number of turns to what these have made.    *)
(***************************************************************************)
EXTENDS Integers, Sequences, WellFoundedInduction, TLAPS

(* A set of numbers that is not empty has a least element.                 *)
LEMMA LeastNumber ==
    ASSUME NEW S \in SUBSET Nat, S # {}
    PROVE  \E i \in S : \A j \in S : i <= j
  <1>1. PICK i \in S : \A j \in S : ~ (<<j, i>> \in OpToRel(<, Nat))
    BY WFMin, NatLessThanWellFounded, Zenon
  <1>2. \A j \in S : ~ (j < i)
    BY <1>1, Zenon DEF OpToRel
  <1> QED
    BY <1>2

(* What holds at 0, and at a number when it holds at the one before, holds *)
(* up to the bound.                                                        *)
LEMMA CountingUp ==
    ASSUME NEW N \in Nat, NEW S, 0 \in S,
           \A k \in 1..N : k - 1 \in S => k \in S
    PROVE  \A k \in 0..N : k \in S
  <1> DEFINE Bad == (0..N) \ S
  <1>1. SUFFICES ASSUME Bad # {} PROVE FALSE
    OBVIOUS
  <1>2. Bad \in SUBSET Nat
    OBVIOUS
  <1>3. PICK m \in Bad : \A j \in Bad : m <= j
    BY <1>1, <1>2, LeastNumber
  <1>4. m \in 1..N /\ m - 1 \in 0..N
    BY <1>3
  <1>5. m - 1 \in S
    BY <1>3, <1>4
  <1> QED
    BY <1>3, <1>4, <1>5

IsLoop(f, N, V, a, turn) ==
    /\ f \in [0..N -> V]
    /\ f[0] = a
    /\ \A n \in 1..N : f[n] = turn[n][f[n - 1]]

(* A loop that starts with a value and makes the next one from each has    *)
(* values for every number of turns.                                       *)
LEMMA LoopDefined ==
    ASSUME NEW N \in Nat, NEW V, NEW a \in V, NEW turn \in [1..N -> [V -> V]]
    PROVE  \E f : IsLoop(f, N, V, a, turn)
  <1> DEFINE Good(k, f) == f[0] = a /\ \A n \in 1..k : f[n] = turn[n][f[n - 1]]
             S == {k \in 0..N : \E f \in [0..k -> V] : Good(k, f)}
  <1>1. 0 \in S
    <2> DEFINE g == [n \in 0..0 |-> a]
    <2>1. g \in [0..0 -> V] /\ g[0] = a
      OBVIOUS
    <2>2. 1..0 = {}
      OBVIOUS
    <2> HIDE DEF g
    <2> QED
      BY <2>1, <2>2
  <1>2. ASSUME NEW k \in 1..N, k - 1 \in S
        PROVE  k \in S
    <2>1. PICK f \in [0..(k - 1) -> V] : Good(k - 1, f)
      BY <1>2
    <2> DEFINE g == [n \in 0..k |-> IF n = k THEN turn[k][f[k - 1]] ELSE f[n]]
    <2>2. g \in [0..k -> V]
      <3>1. turn[k][f[k - 1]] \in V
        OBVIOUS
      <3>2. \A n \in 0..k : n # k => f[n] \in V
        OBVIOUS
      <3> QED
        BY <3>1, <3>2
    <2>3. g[0] = a
      BY <2>1
    <2>4. ASSUME NEW n \in 1..k
          PROVE  g[n] = turn[n][g[n - 1]]
      <3>1. g[n - 1] = f[n - 1]
        OBVIOUS
      <3>2. CASE n = k
        <4>1. g[k] = turn[k][f[k - 1]]
          OBVIOUS
        <4> HIDE DEF g
        <4> QED
          BY <3>1, <3>2, <4>1
      <3>3. CASE n # k
        <4>1. n \in 1..(k - 1) /\ g[n] = f[n]
          BY <3>3
        <4>2. f[n] = turn[n][f[n - 1]]
          BY <2>1, <4>1
        <4> QED
          BY <3>1, <4>1, <4>2
      <3> QED
        BY <3>2, <3>3
    <2> HIDE DEF g
    <2> QED
      BY <2>2, <2>3, <2>4
  <1>3. \A k \in 1..N : k - 1 \in S => k \in S
    BY <1>2
  <1>4. N \in S
    <2> HIDE DEF S
    <2>1. \A k \in 0..N : k \in S
      BY <1>1, <1>3, CountingUp
    <2> QED
      BY <2>1
  <1>5. PICK f \in [0..N -> V] : Good(N, f)
    BY <1>4
  <1> QED
    BY <1>5 DEF IsLoop
=============================================================================
