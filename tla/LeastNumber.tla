------------------------------ MODULE LeastNumber ------------------------------
(***************************************************************************)
(* Induction over the natural numbers, with a set in place of a predicate: *)
(* what the proofs about recursive functions rest on.                      *)
(***************************************************************************)
EXTENDS Integers, WellFoundedInduction, TLAPS

\* A set of natural numbers that is not empty has a least element.
LEMMA LeastElement ==
    ASSUME NEW T, T \subseteq Nat, T # {}
    PROVE  \E m \in T : \A k \in T : m <= k
  <1> DEFINE R == {p \in Nat \X Nat : p[1] < p[2]}
  <1>1. IsWellFoundedOn(R, Nat)
    BY NatLessThanWellFounded DEF OpToRel
  <1>2. PICK x \in T : \A y \in T : ~(<<y, x>> \in R)
    BY <1>1, WFMin
  <1>3. ASSUME NEW k \in T PROVE x <= k
    <2>1. k \in Nat /\ x \in Nat /\ <<k, x>> \in Nat \X Nat
      OBVIOUS
    <2>2. ~(<<k, x>>[1] < <<k, x>>[2])
      BY <1>2, <2>1
    <2> QED
      BY <2>1, <2>2
  <1> QED
    BY <1>3

\* A set that holds zero, and with each number below n its successor, holds them all.
LEMMA SetInduction ==
    ASSUME NEW S, NEW n \in Nat, 0 \in S, \A k \in 0..(n - 1) : k \in S => k + 1 \in S
    PROVE  \A k \in 0..n : k \in S
  <1> DEFINE T == {k \in 0..n : k \notin S}
  <1> SUFFICES ASSUME T # {} PROVE FALSE
    OBVIOUS
  <1>1. PICK m \in T : \A k \in T : m <= k
    <2>1. T \subseteq Nat
      OBVIOUS
    <2> HIDE DEF T
    <2> QED
      BY <2>1, LeastElement
  <1>2. m \in 1..n /\ m - 1 \in 0..(n - 1) /\ m - 1 \in 0..n
    BY <1>1
  <1>3. m - 1 \in S
    BY <1>1, <1>2
  <1>4. (m - 1) + 1 \in S
    BY <1>2, <1>3
  <1> QED
    BY <1>1, <1>2, <1>4

\* A function may be defined by recursion on the numbers up to n: from its value at zero,
\* and what each number makes of the value at the one before.
Steps(n, V) == [1..n -> [V -> V]]
Recursion(n, V, start, g, f) ==
    f \in [0..n -> V] /\ f[0] = start /\ \A i \in 1..n : f[i] = g[i][f[i - 1]]

LEMMA RecursionExists ==
    ASSUME NEW n \in Nat, NEW V, NEW start \in V, NEW g \in Steps(n, V)
    PROVE  \E f : Recursion(n, V, start, g, f)
  <1> DEFINE Upto(k) == {f \in [0..k -> V] :
                            f[0] = start /\ \A i \in 1..k : f[i] = g[i][f[i - 1]]}
             S == {k \in 0..n : Upto(k) # {}}
  <1>1. 0 \in S
    <2>1. [i \in 0..0 |-> start] \in Upto(0)
      OBVIOUS
    <2> QED
      BY <2>1
  <1>2. ASSUME NEW k \in 0..(n - 1), k \in S PROVE k + 1 \in S
    <2>1. PICK f \in Upto(k) : TRUE
      BY <1>2
    <2>2. f \in [0..k -> V] /\ f[0] = start /\ \A i \in 1..k : f[i] = g[i][f[i - 1]]
      BY <2>1
    <2>3. g[k + 1][f[k]] \in V
      BY <2>2 DEF Steps
    <2> DEFINE h == [i \in 0..(k + 1) |-> IF i = k + 1 THEN g[k + 1][f[k]] ELSE f[i]]
    <2>4. h \in [0..(k + 1) -> V] /\ h[0] = start
      BY <2>2, <2>3
    <2>5. ASSUME NEW i \in 1..(k + 1) PROVE h[i] = g[i][h[i - 1]]
      <3>1. CASE i = k + 1
        <4>1. h[i - 1] = f[k]
          BY <3>1
        <4> QED
          BY <3>1, <4>1
      <3>2. CASE i # k + 1
        <4>1. i \in 1..k /\ i - 1 \in 0..k /\ i - 1 # k + 1
          BY <3>2
        <4>2. h[i - 1] = f[i - 1] /\ h[i] = f[i]
          BY <3>2, <4>1
        <4> QED
          BY <2>2, <4>1, <4>2
      <3> QED
        BY <3>1, <3>2
    <2> HIDE DEF h
    <2>6. h \in Upto(k + 1)
      BY <2>4, <2>5
    <2> QED
      BY <2>6
  <1>3. n \in S
    <2> HIDE DEF S
    <2>1. \A k \in 0..(n - 1) : k \in S => k + 1 \in S
      BY <1>2
    <2>2. \A k \in 0..n : k \in S
      BY <1>1, <2>1, SetInduction
    <2> QED
      BY <2>2
  <1>4. PICK f \in Upto(n) : TRUE
    BY <1>3
  <1> QED
    BY <1>4 DEF Recursion

===============================================================================
