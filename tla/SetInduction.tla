----------------------------- MODULE SetInduction -----------------------------
(* Induction and recursion on natural numbers with sets and functions where the theorems
   of the library have operators as parameters. *)
EXTENDS Naturals, WellFoundedInduction, TLAPS

\* Every set of natural numbers that is not empty has a least member.
LEMMA LeastMember ==
    ASSUME NEW S \in SUBSET Nat, S # {}
    PROVE  \E n \in S : \A m \in S : n <= m
  <1> DEFINE R == OpToRel(<, Nat)
  <1>1. IsWellFoundedOn(R, Nat)
    BY NatLessThanWellFounded, Zenon
  <1> HIDE DEF R
  <1>2. PICK n \in S : \A m \in S : ~(<<m, n>> \in R)
    BY <1>1, WFMin, Zenon
  <1>3. \A m \in S : n <= m
    <2> SUFFICES ASSUME NEW m \in S, ~(n <= m) PROVE FALSE
      OBVIOUS
    <2>1. <<m, n>> \in R
      BY DEF R, OpToRel
    <2> QED
      BY <1>2, <2>1
  <1> QED
    BY <1>3

\* Induction up to N for the members of a set.
LEMMA InductionUpTo ==
    ASSUME NEW N \in Nat, NEW S, 0 \in S, \A n \in 0 .. N : n < N /\ n \in S => n + 1 \in S
    PROVE  \A n \in 0 .. N : n \in S
  <1> DEFINE T == {n \in 0 .. N : n \notin S}
  <1> SUFFICES ASSUME T # {} PROVE FALSE
    OBVIOUS
  <1>1. T \in SUBSET Nat
    OBVIOUS
  <1>2. PICK n \in T : \A m \in T : n <= m
    BY <1>1, LeastMember
  <1>3. n # 0 /\ n - 1 \in 0 .. N /\ n - 1 < N
    BY <1>2
  <1>4. n - 1 \in S
    BY <1>2, <1>3
  <1>5. (n - 1) + 1 \in S
    BY <1>3, <1>4
  <1> QED
    BY <1>2, <1>3, <1>5

\* f[0] is t, and f[k] is made of f[k - 1] by the k-th of N steps.
MadeBySteps(f, N, T, t, step) ==
    /\ f \in [0 .. N -> T]
    /\ f[0] = t
    /\ \A k \in 1 .. N : f[k] = step[k][f[k - 1]]

StepMaps(N, T) == [1 .. N -> [T -> T]]

\* A function that is defined step by step exists.
LEMMA StepwiseFunction ==
    ASSUME NEW N \in Nat, NEW T, NEW t \in T, NEW step \in StepMaps(N, T)
    PROVE  \E f : MadeBySteps(f, N, T, t, step)
  <1> USE DEF StepMaps
  <1> DEFINE Good(n) == \E f \in [0 .. n -> T] :
                            f[0] = t /\ \A k \in 1 .. n : f[k] = step[k][f[k - 1]]
             S == {n \in 0 .. N : Good(n)}
  <1>1. 0 \in S
    <2> DEFINE g == [k \in 0 .. 0 |-> t]
    <2>1. g \in [0 .. 0 -> T] /\ g[0] = t /\ \A k \in 1 .. 0 : g[k] = step[k][g[k - 1]]
      OBVIOUS
    <2> HIDE DEF g
    <2>2. Good(0)
      BY <2>1
    <2> QED
      BY <2>2
  <1>2. ASSUME NEW n \in 0 .. N, n < N, n \in S PROVE n + 1 \in S
    <2>1. PICK f \in [0 .. n -> T] : f[0] = t /\ \A k \in 1 .. n : f[k] = step[k][f[k - 1]]
      BY <1>2
    <2> DEFINE g == [k \in 0 .. n + 1 |-> IF k <= n THEN f[k] ELSE step[n + 1][f[n]]]
    <2>2. step[n + 1][f[n]] \in T
      BY <1>2
    <2>3. g \in [0 .. n + 1 -> T]
      BY <2>2
    <2>4. g[0] = t
      BY <2>1
    <2>5. \A k \in 1 .. n + 1 : g[k] = step[k][g[k - 1]]
      <3> SUFFICES ASSUME NEW k \in 1 .. n + 1 PROVE g[k] = step[k][g[k - 1]]
        OBVIOUS
      <3>1. g[k - 1] = f[k - 1]
        OBVIOUS
      <3>2. CASE k <= n
        BY <2>1, <3>1, <3>2
      <3>3. CASE k = n + 1
        BY <3>1, <3>3
      <3> QED
        BY <3>2, <3>3
    <2> HIDE DEF g
    <2>6. Good(n + 1)
      BY <2>3, <2>4, <2>5
    <2>7. n + 1 \in 0 .. N
      BY <1>2
    <2> HIDE DEF Good
    <2> QED
      BY <2>6, <2>7
  <1>3. N \in S
    <2> HIDE DEF S
    <2>1. \A n \in 0 .. N : n < N /\ n \in S => n + 1 \in S
      BY <1>2
    <2>2. \A n \in 0 .. N : n \in S
      BY <1>1, <2>1, InductionUpTo
    <2> QED
      BY <2>2
  <1> QED
    BY <1>3 DEF MadeBySteps
=============================================================================
