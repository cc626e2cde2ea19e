------------------------------- MODULE Induction -------------------------------
(***************************************************************************)
(* Induction over the natural numbers and over what recursive functions    *)
(* compute, stated with sets and functions, so that no fact here takes an  *)
(* operator as a parameter.                                                *)
(***************************************************************************)
EXTENDS Integers, WellFoundedInduction, TLAPS

\* A set that 0 is in, and with a number the next one, has all numbers.
LEMMA NatSetInduction ==
    ASSUME NEW S, 0 \in S, \A n \in Nat : n \in S => n + 1 \in S
    PROVE  \A n \in Nat : n \in S
<1> DEFINE T == Nat \ S
<1> SUFFICES ASSUME T # {} PROVE FALSE
  OBVIOUS
<1>1. IsWellFoundedOn(OpToRel(<, Nat), Nat)
  BY NatLessThanWellFounded
<1>2. PICK n \in T : \A m \in T : ~ (<<m, n>> \in OpToRel(<, Nat))
  <2>1. T \subseteq Nat
    OBVIOUS
  <2> HIDE DEF T
  <2> QED BY <1>1, <2>1, WFMin
<1>3. \A m \in T : ~ (m < n)
  BY <1>2 DEF OpToRel
<1>4. n # 0 /\ n \in Nat
  OBVIOUS
<1>5. n - 1 \in Nat /\ n - 1 < n
  BY <1>4
<1>6. n - 1 \in S
  BY <1>3, <1>5
<1>7. (n - 1) + 1 \in S
  BY <1>5, <1>6
<1> QED BY <1>4, <1>7

\* The same up to a number.
LEMMA IntervalInduction ==
    ASSUME NEW S, NEW N \in Nat, 0 \in S,
           \A n \in 0 .. N : n < N /\ n \in S => n + 1 \in S
    PROVE  \A n \in 0 .. N : n \in S
<1> DEFINE T == {n \in Nat : n <= N => n \in S}
<1>1. 0 \in T
  OBVIOUS
<1>2. ASSUME NEW n \in Nat, n \in T PROVE n + 1 \in T
  BY <1>2
<1>3. \A n \in Nat : n \in T
  <2> HIDE DEF T
  <2> QED BY <1>1, <1>2, NatSetInduction
<1> QED BY <1>3

\* A function is determined by its value at 0 and each value by the one before.
LEMMA RecursionUnique ==
    ASSUME NEW N \in Nat, NEW f, NEW h, f[0] = h[0],
           \A n \in 0 .. N : n < N /\ f[n] = h[n] => f[n + 1] = h[n + 1]
    PROVE  \A n \in 0 .. N : f[n] = h[n]
<1> DEFINE S == {n \in 0 .. N : f[n] = h[n]}
<1>1. 0 \in S
  OBVIOUS
<1>2. ASSUME NEW n \in 0 .. N, n < N, n \in S PROVE n + 1 \in S
  BY <1>2
<1>3. \A n \in 0 .. N : n \in S
  <2> HIDE DEF S
  <2> QED BY <1>1, <1>2, IntervalInduction
<1> QED BY <1>3

\* The functions on 0 .. N that begin with base and go on with step.
Steps(V) == [V \X Nat -> V]
Follows(f, V, base, step, N) ==
    /\ f \in [0 .. N -> V] /\ f[0] = base
    /\ \A n \in 0 .. N : n < N => f[n + 1] = step[<<f[n], n + 1>>]

LEMMA RecursionExists ==
    ASSUME NEW V, NEW base \in V, NEW step \in Steps(V), NEW N \in Nat
    PROVE  \E f : Follows(f, V, base, step, N)
<1> DEFINE S == {n \in Nat : \E f : Follows(f, V, base, step, n)}
<1>0. step \in [V \X Nat -> V]
  BY DEF Steps
<1>1. 0 \in S
  <2>1. Follows([m \in 0 .. 0 |-> base], V, base, step, 0)
    BY DEF Follows
  <2> QED BY <2>1
<1>2. ASSUME NEW n \in Nat, n \in S PROVE n + 1 \in S
  <2>1. PICK f : Follows(f, V, base, step, n)
    BY <1>2
  <2> DEFINE h == [m \in 0 .. n + 1 |-> IF m = n + 1 THEN step[<<f[n], n + 1>>] ELSE f[m]]
  <2>2. n + 1 \in Nat /\ f[n] \in V /\ step[<<f[n], n + 1>>] \in V
    BY <1>0, <2>1 DEF Follows
  <2>3. h \in [0 .. n + 1 -> V]
    BY <2>1, <2>2 DEF Follows
  <2>4. h[0] = base
    BY <2>1 DEF Follows
  <2>5. ASSUME NEW m \in 0 .. n + 1, m < n + 1
        PROVE  h[m + 1] = step[<<h[m], m + 1>>]
    <3>1. h[m] = f[m] /\ m \in 0 .. n
      BY <2>5
    <3>2. CASE m = n
      BY <3>1, <3>2
    <3>3. CASE m < n
      BY <2>1, <3>1, <3>3 DEF Follows
    <3> QED BY <3>1, <3>2, <3>3
  <2>6. Follows(h, V, base, step, n + 1)
    BY <2>3, <2>4, <2>5 DEF Follows
  <2> QED BY <2>6
<1>3. N \in S
  <2> HIDE DEF S
  <2> QED BY <1>1, <1>2, NatSetInduction
<1> QED BY <1>3

\* A set of numbers with anything in it has a least one.
LEMMA LeastOf ==
    ASSUME NEW F, F \subseteq Nat, F # {}
    PROVE  \E a \in F : \A b \in F : a <= b
<1> SUFFICES ASSUME \A a \in F : \E b \in F : ~ (a <= b) PROVE FALSE
  OBVIOUS
<1> DEFINE T == {n \in Nat : \A b \in F : n <= b}
<1>1. 0 \in T
  OBVIOUS
<1>2. ASSUME NEW n \in Nat, n \in T PROVE n + 1 \in T
  <2>1. ASSUME NEW b \in F PROVE n + 1 <= b
    <3>1. PICK c \in F : ~ (b <= c)
      OBVIOUS
    <3>2. b \in Nat /\ c \in Nat /\ n <= c
      BY <1>2
    <3> QED BY <3>1, <3>2
  <2> QED BY <2>1
<1>3. \A n \in Nat : n \in T
  <2> HIDE DEF T
  <2> QED BY <1>1, <1>2, NatSetInduction
<1>4. PICK b \in F : b \in Nat
  OBVIOUS
<1>5. b + 1 \in T
  BY <1>3, <1>4
<1> QED BY <1>4, <1>5
=============================================================================
