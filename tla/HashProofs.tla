------------------------------ MODULE HashProofs ------------------------------
(***************************************************************************)
(* What holds of the hash table for every set of keys and of entries and   *)
(* every sequence of primes: it is the map of Dictionary, a loop over it   *)
(* comes to every entry once, and its keys are objects that exist.         *)
(***************************************************************************)
EXTENDS Hash, FiniteSetTheorems, SequenceTheorems, Induction

-----------------------------------------------------------------------------
(* Numbers, finite orders, sequences *)

\* A set of numbers that is not empty has a smallest one.
LEMMA Smallest ==
    ASSUME NEW X \in SUBSET Nat, X # {}
    PROVE  \E x \in X : \A y \in X : x <= y
<1>1. IsWellFoundedOn(OpToRel(<, Nat), Nat)
  BY NatLessThanWellFounded
<1>2. PICK x \in X : \A y \in X : ~ (<<y, x>> \in OpToRel(<, Nat))
  BY <1>1, WFMin
<1>3. \A y \in X : ~ (y < x)
  BY <1>2 DEF OpToRel
<1> QED BY <1>3

\* A strict total order.
Orders(R, S) ==
    /\ \A x \in S : x \notin R[x]
    /\ \A x, y, z \in S : y \in R[x] /\ z \in R[y] => z \in R[x]
    /\ \A x, y \in S : x # y => y \in R[x] \/ x \in R[y]

Enumerates(s, S, R) ==
    /\ s \in [1 .. Cardinality(S) -> S]
    /\ \A i, j \in 1 .. Cardinality(S) : i < j => s[i] \in R[s[j]]

Below(x, S, R) == {y \in S : y \in R[x]}

\* How many are below an element tells which one it is.
LEMMA BelowGrows ==
    ASSUME NEW S, NEW R, IsFiniteSet(S), Orders(R, S), NEW x \in S
    PROVE  /\ IsFiniteSet(Below(x, S, R))
           /\ Cardinality(Below(x, S, R)) \in 0 .. Cardinality(S) - 1
           /\ \A y \in S : y \in R[x] =>
                Cardinality(Below(y, S, R)) < Cardinality(Below(x, S, R))
<1> DEFINE B == Below(x, S, R)
<1>1. B \in SUBSET S /\ x \notin B
  BY DEF Below, Orders
<1>2. IsFiniteSet(B) /\ Cardinality(B) \in Nat /\ Cardinality(S) \in Nat
  BY <1>1, FS_Subset, FS_CardinalityType
<1>3. Cardinality(B) <= Cardinality(S) /\ (Cardinality(S) = Cardinality(B) => S = B)
  BY <1>1, FS_Subset
<1>4. Cardinality(B) \in 0 .. Cardinality(S) - 1
  <2>1. Cardinality(S) # Cardinality(B)
    BY <1>1, <1>3
  <2> HIDE DEF B
  <2> QED BY <1>2, <1>3, <2>1
<1>5. ASSUME NEW y \in S, y \in R[x]
      PROVE  Cardinality(Below(y, S, R)) < Cardinality(B)
  <2> DEFINE C == Below(y, S, R)
  <2>1. C \in SUBSET B /\ y \in B /\ y \notin C
    BY <1>5 DEF Below, Orders
  <2>2. Cardinality(C) <= Cardinality(B) /\ (Cardinality(B) = Cardinality(C) => B = C)
    <3> HIDE DEF B, C
    <3> QED BY <1>2, <2>1, FS_Subset
  <2>3. Cardinality(C) \in Nat
    <3> HIDE DEF B, C
    <3> QED BY <1>2, <2>1, FS_Subset, FS_CardinalityType
  <2>4. Cardinality(C) # Cardinality(B)
    BY <2>1, <2>2
  <2>5. Cardinality(C) < Cardinality(B)
    <3> HIDE DEF B, C
    <3> QED BY <1>2, <2>2, <2>3, <2>4
  <2> QED BY <2>5
<1> QED BY <1>2, <1>4, <1>5

\* A finite set can be put in any order.
LEMMA CanBeEnumerated ==
    ASSUME NEW S, NEW R, IsFiniteSet(S), Orders(R, S)
    PROVE  \E s : Enumerates(s, S, R)
<1>1. PICK n \in Nat : n = Cardinality(S)
  BY FS_CardinalityType
<1> DEFINE rank == [x \in S |-> Cardinality(Below(x, S, R)) + 1]
<1>2. rank \in [S -> 1 .. n]
  <2>1. \A x \in S : Cardinality(Below(x, S, R)) \in 0 .. n - 1
    BY <1>1, BelowGrows
  <2>2. \A x \in S : Cardinality(Below(x, S, R)) + 1 \in 1 .. n
    BY <2>1
  <2> QED BY <2>2
<1>3. ASSUME NEW x \in S, NEW y \in S, y \in R[x] PROVE rank[y] < rank[x]
  <2>1. Cardinality(Below(y, S, R)) < Cardinality(Below(x, S, R))
    BY <1>3, BelowGrows
  <2>2. Cardinality(Below(y, S, R)) \in Nat /\ Cardinality(Below(x, S, R)) \in Nat
    BY BelowGrows, FS_CardinalityType
  <2> QED BY <2>1, <2>2
<1>4. \A x, y \in S : x # y => rank[x] # rank[y]
  <2> SUFFICES ASSUME NEW x \in S, NEW y \in S, x # y PROVE rank[x] # rank[y]
    OBVIOUS
  <2>1. rank[x] \in Nat /\ rank[y] \in Nat
    <3> HIDE DEF rank
    <3> QED BY <1>2
  <2>2. y \in R[x] \/ x \in R[y]
    BY DEF Orders
  <2> HIDE DEF rank
  <2> QED BY <1>3, <2>1, <2>2
<1> HIDE DEF rank
<1>5. rank \in Injection(S, 1 .. n)
  BY <1>2, <1>4 DEF Injection, IsInjective
<1>6. rank \in Surjection(S, 1 .. n)
  <2>1. IsFiniteSet(1 .. n) /\ Cardinality(1 .. n) = n
    BY FS_Interval
  <2> QED BY <1>1, <1>5, <2>1, FS_Injection
<1>7. \A i \in 1 .. n : \E x \in S : rank[x] = i
  BY <1>6 DEF Surjection
<1> DEFINE s == [i \in 1 .. n |-> CHOOSE x \in S : rank[x] = i]
<1>8. \A i \in 1 .. n : s[i] \in S /\ rank[s[i]] = i
  BY <1>7
<1>9. s \in [1 .. n -> S]
  BY <1>8
<1>10. ASSUME NEW i \in 1 .. n, NEW j \in 1 .. n, i < j PROVE s[i] \in R[s[j]]
  <2>1. PICK x \in S : x = s[i] /\ rank[x] = i
    BY <1>8
  <2>2. PICK y \in S : y = s[j] /\ rank[y] = j
    BY <1>8
  <2>3. ~ (rank[y] < rank[x]) /\ x # y
    BY <1>10, <2>1, <2>2
  <2>4. y \notin R[x]
    BY <1>3, <2>3
  <2> HIDE DEF s
  <2> QED BY <2>1, <2>2, <2>3, <2>4 DEF Orders
<1>11. Enumerates(s, S, R)
  <2> HIDE DEF s
  <2> QED BY <1>1, <1>9, <1>10 DEF Enumerates
<1> QED BY <1>11

\* One more at the front.
LEMMA Pushed ==
    ASSUME NEW S, NEW e \in S, NEW s \in Seq(S)
    PROVE  /\ <<e>> \o s \in Seq(S) /\ Len(s) \in Nat
           /\ Len(<<e>> \o s) = Len(s) + 1
           /\ (<<e>> \o s)[1] = e
           /\ \A i \in 1 .. Len(s) : (<<e>> \o s)[i + 1] = s[i]
<1>1. <<e>> \in Seq(S) /\ Len(<<e>>) = 1 /\ <<e>>[1] = e /\ Len(s) \in Nat
  BY LenProperties
<1> DEFINE t == <<e>> \o s
<1>2. /\ t \in Seq(S) /\ Len(t) = 1 + Len(s)
      /\ \A i \in 1 .. 1 + Len(s) : t[i] = IF i <= 1 THEN <<e>>[i] ELSE s[i - 1]
  BY <1>1, ConcatProperties
<1> HIDE DEF t
<1>3. t[1] = e
  BY <1>1, <1>2
<1>4. ASSUME NEW i \in 1 .. Len(s) PROVE t[i + 1] = s[i]
  <2>1. i + 1 \in 1 .. 1 + Len(s) /\ ~ (i + 1 <= 1) /\ (i + 1) - 1 = i
    BY <1>1
  <2> QED BY <1>2, <2>1
<1>5. t \in Seq(S) /\ Len(s) \in Nat /\ Len(t) = Len(s) + 1
  BY <1>1, <1>2
<1> QED BY <1>3, <1>4, <1>5 DEF t

\* All but the one at a place.
Without(s, p) == SubSeq(s, 1, p - 1) \o SubSeq(s, p + 1, Len(s))

LEMMA WithoutOne ==
    ASSUME NEW S, NEW s \in Seq(S), NEW p \in 1 .. Len(s)
    PROVE  /\ Without(s, p) \in Seq(S) /\ Len(s) \in Nat
           /\ Len(Without(s, p)) = Len(s) - 1
           /\ \A i \in 1 .. Len(s) - 1 :
                Without(s, p)[i] = IF i < p THEN s[i] ELSE s[i + 1]
<1> DEFINE a == SubSeq(s, 1, p - 1)
           b == SubSeq(s, p + 1, Len(s))
<1>1. Len(s) \in Nat /\ \A i \in 1 .. Len(s) : s[i] \in S
  BY LenProperties
<1>2. /\ 1 \in Int /\ p - 1 \in Int /\ \A i \in 1 .. p - 1 : s[i] \in S
      /\ p + 1 \in Int /\ Len(s) \in Int /\ \A i \in p + 1 .. Len(s) : s[i] \in S
  BY <1>1
<1>3. a \in Seq(S) /\ Len(a) = p - 1 /\ \A i \in 1 .. p - 1 : a[i] = s[i]
  <2>1. /\ a \in Seq(S) /\ Len(a) = IF 1 <= p - 1 THEN (p - 1) - 1 + 1 ELSE 0
        /\ \A i \in 1 .. (p - 1) - 1 + 1 : a[i] = s[1 + i - 1]
    BY <1>2, SubSeqProperties
  <2> HIDE DEF a
  <2> QED BY <2>1
<1>4. b \in Seq(S) /\ Len(b) = Len(s) - p /\ \A i \in 1 .. Len(s) - p : b[i] = s[p + i]
  <2>1. /\ b \in Seq(S) /\ Len(b) = IF p + 1 <= Len(s) THEN Len(s) - (p + 1) + 1 ELSE 0
        /\ \A i \in 1 .. Len(s) - (p + 1) + 1 : b[i] = s[(p + 1) + i - 1]
    BY <1>2, SubSeqProperties
  <2> HIDE DEF b
  <2> QED BY <1>1, <2>1
<1> HIDE DEF a, b
<1>5. /\ a \o b \in Seq(S) /\ Len(a \o b) = Len(a) + Len(b)
      /\ \A i \in 1 .. Len(a) + Len(b) : (a \o b)[i] = IF i <= Len(a) THEN a[i] ELSE b[i - Len(a)]
  BY <1>3, <1>4, ConcatProperties
<1>6. ASSUME NEW i \in 1 .. Len(s) - 1
      PROVE  (a \o b)[i] = IF i < p THEN s[i] ELSE s[i + 1]
  <2>1. i \in 1 .. Len(a) + Len(b)
    BY <1>1, <1>3, <1>4
  <2>2. CASE i < p
    <3>1. i <= Len(a) /\ i \in 1 .. p - 1
      BY <1>3, <2>2
    <3> QED BY <1>3, <1>5, <2>1, <2>2, <3>1
  <2>3. CASE ~ (i < p)
    <3>1. ~ (i <= Len(a)) /\ i - Len(a) \in 1 .. Len(s) - p /\ p + (i - Len(a)) = i + 1
      BY <1>1, <1>3, <2>3
    <3> QED BY <1>4, <1>5, <2>1, <2>3, <3>1
  <2> QED BY <2>2, <2>3
<1>7. Without(s, p) = a \o b
  BY DEF Without, a, b
<1>8. Len(a \o b) = Len(s) - 1
  BY <1>1, <1>3, <1>4, <1>5
<1> QED BY <1>1, <1>5, <1>6, <1>7, <1>8

-----------------------------------------------------------------------------
(* Chains *)

\* C are n chains through the entries of E: each entry is once in the chain of
\* its index, and in no other.
Chained(E, C, n) ==
    /\ C \in [0 .. n - 1 -> Seq(DOMAIN E)]
    /\ \A e \in DOMAIN E : E[e].index \in 0 .. n - 1
    /\ \A i \in 0 .. n - 1 : \A p \in 1 .. Len(C[i]) : E[C[i][p]].index = i
    /\ \A i \in 0 .. n - 1 : \A p, q \in 1 .. Len(C[i]) : C[i][p] = C[i][q] => p = q
    /\ \A e \in DOMAIN E : \E p \in 1 .. Len(C[E[e].index]) : C[E[e].index][p] = e

\* F is E with e, and D is C with e at the head of a chain.
PushedTo(E, C, F, D, e, i) ==
    /\ e \notin DOMAIN E /\ DOMAIN F = DOMAIN E \cup {e} /\ F[e].index = i
    /\ \A f \in DOMAIN E : F[f] = E[f]
    /\ D = [C EXCEPT ![i] = <<e>> \o C[i]]

LEMMA ChainedAdd ==
    ASSUME NEW n \in Nat, NEW E, NEW C, Chained(E, C, n),
           NEW F, NEW D, NEW e, NEW i \in 0 .. n - 1, PushedTo(E, C, F, D, e, i)
    PROVE  Chained(F, D, n)
<1>0. /\ e \notin DOMAIN E /\ DOMAIN F = DOMAIN E \cup {e} /\ F[e].index = i
      /\ \A f \in DOMAIN E : F[f] = E[f]
      /\ D = [C EXCEPT ![i] = <<e>> \o C[i]]
  BY DEF PushedTo
<1> DEFINE S == DOMAIN E \cup {e}
<1>1. DOMAIN F = S /\ F[e].index = i /\ \A f \in DOMAIN E : F[f] = E[f]
  BY <1>0
<1>2. /\ C \in [0 .. n - 1 -> Seq(DOMAIN E)]
      /\ \A j \in 0 .. n - 1 : Len(C[j]) \in Nat /\ C[j] \in Seq(S)
      /\ \A j \in 0 .. n - 1 : \A p \in 1 .. Len(C[j]) : C[j][p] \in DOMAIN E
  <2>1. C \in [0 .. n - 1 -> Seq(DOMAIN E)]
    BY DEF Chained
  <2> QED BY <2>1, LenProperties
<1>3. /\ D[i] \in Seq(S) /\ Len(D[i]) = Len(C[i]) + 1 /\ D[i][1] = e
      /\ \A p \in 1 .. Len(C[i]) : D[i][p + 1] = C[i][p]
  <2>1. D[i] = <<e>> \o C[i]
    BY <1>0, <1>2
  <2> QED BY <1>2, <2>1, Pushed
<1>4. \A j \in 0 .. n - 1 : j # i => D[j] = C[j]
  BY <1>0, <1>2
<1>5. D \in [0 .. n - 1 -> Seq(S)]
  BY <1>0, <1>2, <1>3, <1>4
<1> HIDE DEF S
<1>6. \A f \in S : F[f].index \in 0 .. n - 1
  BY <1>1 DEF Chained, S
<1>7. \A p \in 1 .. Len(D[i]) : p = 1 \/ (p - 1 \in 1 .. Len(C[i]) /\ D[i][p] = C[i][p - 1])
  <2> TAKE p \in 1 .. Len(D[i])
  <2>1. p = 1 \/ (p - 1 \in 1 .. Len(C[i]) /\ (p - 1) + 1 = p)
    BY <1>2, <1>3
  <2> QED BY <1>3, <2>1
<1>8. ASSUME NEW j \in 0 .. n - 1, NEW p \in 1 .. Len(D[j]) PROVE F[D[j][p]].index = j
  <2>1. CASE j = i
    <3>1. CASE p = 1
      BY <1>1, <1>3, <2>1, <3>1
    <3>2. CASE p # 1
      <4>1. PICK q \in 1 .. Len(C[i]) : D[i][p] = C[i][q]
        BY <1>7, <2>1, <3>2
      <4> QED BY <1>1, <1>2, <2>1, <4>1 DEF Chained
    <3> QED BY <3>1, <3>2
  <2>2. CASE j # i
    <3>1. p \in 1 .. Len(C[j]) /\ D[j][p] = C[j][p]
      BY <1>4, <2>2
    <3>2. C[j][p] \in DOMAIN E /\ E[C[j][p]].index = j
      BY <1>2, <3>1 DEF Chained
    <3>3. F[C[j][p]] = E[C[j][p]]
      BY <1>1, <3>2
    <3> QED BY <3>1, <3>2, <3>3
  <2> QED BY <2>1, <2>2
<1>9. ASSUME NEW j \in 0 .. n - 1, NEW p \in 1 .. Len(D[j]), NEW q \in 1 .. Len(D[j]),
             D[j][p] = D[j][q]
      PROVE  p = q
  <2>1. CASE j = i
    <3>1. CASE p = 1 \/ q = 1
      <4>1. \A t \in 1 .. Len(C[i]) : C[i][t] # e
        BY <1>0, <1>2
      <4>2. \A t \in 1 .. Len(D[i]) : D[i][t] = e => t = 1
        BY <1>7, <4>1
      <4>3. D[i][p] = e /\ D[i][q] = e
        BY <1>3, <1>9, <2>1, <3>1
      <4> QED BY <2>1, <4>2, <4>3
    <3>2. CASE p # 1 /\ q # 1
      <4>1. /\ p - 1 \in 1 .. Len(C[i]) /\ D[i][p] = C[i][p - 1]
            /\ q - 1 \in 1 .. Len(C[i]) /\ D[i][q] = C[i][q - 1]
        BY <1>7, <2>1, <3>2
      <4>2. C[i][p - 1] = C[i][q - 1]
        BY <1>9, <2>1, <4>1
      <4>3. p - 1 = q - 1
        BY <4>1, <4>2 DEF Chained
      <4> QED BY <4>3
    <3> QED BY <3>1, <3>2
  <2>2. CASE j # i
    BY <1>4, <1>9, <2>2 DEF Chained
  <2> QED BY <2>1, <2>2
<1>10. ASSUME NEW f \in S PROVE \E p \in 1 .. Len(D[F[f].index]) : D[F[f].index][p] = f
  <2>1. CASE f = e
    <3>1. 1 \in 1 .. Len(D[i]) /\ F[f].index = i
      BY <1>1, <1>2, <1>3, <2>1
    <3> QED BY <1>3, <2>1, <3>1
  <2>2. CASE f # e
    <3>1. f \in DOMAIN E /\ F[f] = E[f]
      BY <1>1, <2>2 DEF S
    <3>2. PICK p \in 1 .. Len(C[E[f].index]) : C[E[f].index][p] = f
      BY <3>1 DEF Chained
    <3>3. CASE E[f].index = i
      <4>1. p + 1 \in 1 .. Len(D[i]) /\ D[i][p + 1] = f
        BY <1>2, <1>3, <3>2, <3>3
      <4> QED BY <3>1, <3>3, <4>1
    <3>4. CASE E[f].index # i
      <4>1. D[E[f].index] = C[E[f].index]
        BY <1>4, <3>1, <3>4 DEF Chained
      <4> QED BY <3>1, <3>2, <4>1
    <3> QED BY <3>3, <3>4
  <2> QED BY <2>1, <2>2
<1>11. D \in [0 .. n - 1 -> Seq(DOMAIN F)]
  BY <1>1, <1>5
<1> HIDE DEF Chained
<1>12. DOMAIN F = S
  BY <1>1
<1> QED BY <1>6, <1>8, <1>9, <1>10, <1>11, <1>12 DEF Chained

\* A sequence is one over the set that its elements are in.
LEMMA SequenceOver ==
    ASSUME NEW S, NEW T, NEW s \in Seq(S), \A p \in 1 .. Len(s) : s[p] \in T
    PROVE  s \in Seq(T)
<1>1. Len(s) \in Nat /\ s \in [1 .. Len(s) -> S]
  BY LenProperties
<1>2. s \in [1 .. Len(s) -> T]
  BY <1>1
<1> QED BY <1>1, <1>2

\* F is E without e, and D is C without the place p of its chain.
TakenFrom(E, C, F, D, e, i, p) ==
    /\ e \in DOMAIN E /\ i = E[e].index
    /\ p \in 1 .. Len(C[i]) /\ C[i][p] = e
    /\ DOMAIN F = DOMAIN E \ {e}
    /\ \A f \in DOMAIN F : F[f] = E[f]
    /\ D = [C EXCEPT ![i] = Without(C[i], p)]

LEMMA ChainedWithout ==
    ASSUME NEW n \in Nat, NEW E, NEW C, Chained(E, C, n),
           NEW F, NEW D, NEW e, NEW i, NEW p, TakenFrom(E, C, F, D, e, i, p)
    PROVE  Chained(F, D, n)
<1>0. /\ e \in DOMAIN E /\ i = E[e].index
      /\ p \in 1 .. Len(C[i]) /\ C[i][p] = e
      /\ DOMAIN F = DOMAIN E \ {e}
      /\ \A f \in DOMAIN F : F[f] = E[f]
      /\ D = [C EXCEPT ![i] = Without(C[i], p)]
  BY DEF TakenFrom
<1> DEFINE S == DOMAIN E \ {e}
<1>1. /\ DOMAIN F = S /\ \A f \in S : F[f] = E[f] /\ f \in DOMAIN E /\ f # e
      /\ i \in 0 .. n - 1
  BY <1>0 DEF Chained
<1>2. /\ C \in [0 .. n - 1 -> Seq(DOMAIN E)]
      /\ \A j \in 0 .. n - 1 : Len(C[j]) \in Nat
      /\ \A j \in 0 .. n - 1 : \A q \in 1 .. Len(C[j]) : C[j][q] \in DOMAIN E
  <2>1. C \in [0 .. n - 1 -> Seq(DOMAIN E)]
    BY DEF Chained
  <2> QED BY <2>1, LenProperties
<1>3. /\ D[i] \in Seq(DOMAIN E) /\ Len(D[i]) = Len(C[i]) - 1
      /\ \A q \in 1 .. Len(C[i]) - 1 : D[i][q] = IF q < p THEN C[i][q] ELSE C[i][q + 1]
  <2>1. D[i] = Without(C[i], p) /\ C[i] \in Seq(DOMAIN E)
    BY <1>0, <1>1, <1>2
  <2>2. p \in 1 .. Len(C[i])
    BY <1>0
  <2> QED BY <2>1, <2>2, WithoutOne
<1>4. \A j \in 0 .. n - 1 : j # i => D[j] = C[j]
  BY <1>0, <1>2
<1> DEFINE from(q) == IF q < p THEN q ELSE q + 1
<1>5. \A q \in 1 .. Len(D[i]) : /\ from(q) \in 1 .. Len(C[i]) /\ from(q) # p
                                /\ D[i][q] = C[i][from(q)]
  <2> TAKE q \in 1 .. Len(D[i])
  <2>1. Len(C[i]) \in Nat /\ q \in 1 .. Len(C[i]) - 1 /\ p \in 1 .. Len(C[i])
    BY <1>0, <1>1, <1>2, <1>3
  <2>2. from(q) \in 1 .. Len(C[i]) /\ from(q) # p
    BY <2>1
  <2> QED BY <1>3, <2>1, <2>2
<1>6. \A q \in 1 .. Len(C[i]) : q # p => C[i][q] # e
  <2> SUFFICES ASSUME NEW q \in 1 .. Len(C[i]), C[i][q] = e PROVE q = p
    OBVIOUS
  <2>1. C[i][q] = C[i][p] /\ p \in 1 .. Len(C[i])
    BY <1>0
  <2> QED BY <1>1, <2>1 DEF Chained
<1>7. \A q \in 1 .. Len(D[i]) : D[i][q] \in S
  <2> HIDE DEF from
  <2> QED BY <1>1, <1>2, <1>5, <1>6
<1>8. ASSUME NEW j \in 0 .. n - 1, j # i, NEW q \in 1 .. Len(C[j]) PROVE C[j][q] \in S
  <2>1. E[C[j][q]].index = j /\ C[j][q] \in DOMAIN E
    BY <1>2 DEF Chained
  <2> QED BY <1>0, <1>8, <2>1
<1>9. D \in [0 .. n - 1 -> Seq(S)]
  <2>1. D[i] \in Seq(S)
    BY <1>3, <1>7, SequenceOver
  <2>2. ASSUME NEW j \in 0 .. n - 1, j # i PROVE D[j] \in Seq(S)
    <3>1. C[j] \in Seq(S)
      BY <1>2, <1>8, <2>2, SequenceOver
    <3> QED BY <1>4, <2>2, <3>1
  <2>3. D = [j \in 0 .. n - 1 |-> D[j]]
    BY <1>0, <1>2
  <2> QED BY <2>1, <2>2, <2>3
<1>10. \A f \in S : F[f].index \in 0 .. n - 1
  BY <1>1 DEF Chained
<1>11. ASSUME NEW j \in 0 .. n - 1, NEW q \in 1 .. Len(D[j]) PROVE F[D[j][q]].index = j
  <2>1. CASE j = i
    <3>1. PICK t \in 1 .. Len(C[i]) : D[i][q] = C[i][t]
      BY <1>5, <2>1
    <3>2. E[C[i][t]].index = i /\ D[i][q] \in S
      BY <1>1, <1>7, <2>1, <3>1 DEF Chained
    <3> QED BY <1>1, <2>1, <3>1, <3>2
  <2>2. CASE j # i
    <3>1. q \in 1 .. Len(C[j]) /\ D[j][q] = C[j][q]
      BY <1>4, <2>2
    <3>2. C[j][q] \in S /\ E[C[j][q]].index = j
      BY <1>8, <2>2, <3>1 DEF Chained
    <3> QED BY <1>1, <3>1, <3>2
  <2> QED BY <2>1, <2>2
<1>12. ASSUME NEW j \in 0 .. n - 1, NEW q \in 1 .. Len(D[j]), NEW t \in 1 .. Len(D[j]),
              D[j][q] = D[j][t]
       PROVE  q = t
  <2>1. CASE j = i
    <3>1. /\ from(q) \in 1 .. Len(C[i]) /\ D[i][q] = C[i][from(q)]
          /\ from(t) \in 1 .. Len(C[i]) /\ D[i][t] = C[i][from(t)]
      <4> HIDE DEF from
      <4> QED BY <1>5, <2>1
    <3>2. C[i][from(q)] = C[i][from(t)]
      BY <1>12, <2>1, <3>1
    <3>3. from(q) = from(t)
      <4> HIDE DEF from
      <4> QED BY <1>1, <3>1, <3>2 DEF Chained
    <3>4. q \in Int /\ t \in Int /\ p \in Int
      BY <1>0, <1>1, <1>2, <1>3
    <3> QED BY <3>3, <3>4
  <2>2. CASE j # i
    BY <1>4, <1>12, <2>2 DEF Chained
  <2> QED BY <2>1, <2>2
<1>13. ASSUME NEW f \in S PROVE \E q \in 1 .. Len(D[F[f].index]) : D[F[f].index][q] = f
  <2>1. f \in DOMAIN E /\ F[f] = E[f] /\ f # e
    BY <1>1
  <2>2. PICK q \in 1 .. Len(C[E[f].index]) : C[E[f].index][q] = f
    BY <2>1 DEF Chained
  <2>3. CASE E[f].index = i
    <3>1. q # p /\ q \in 1 .. Len(C[i]) /\ Len(C[i]) \in Nat /\ p \in 1 .. Len(C[i])
      BY <1>0, <1>1, <1>2, <2>1, <2>2, <2>3
    <3>2. CASE q < p
      <4>1. q \in 1 .. Len(D[i]) /\ q \in 1 .. Len(C[i]) - 1
        BY <1>3, <3>1, <3>2
      <4>2. D[i][q] = f
        BY <1>3, <2>2, <2>3, <3>2, <4>1
      <4> QED BY <2>1, <2>3, <4>1, <4>2
    <3>3. CASE ~ (q < p)
      <4>1. /\ q - 1 \in 1 .. Len(D[i]) /\ q - 1 \in 1 .. Len(C[i]) - 1
            /\ ~ (q - 1 < p) /\ (q - 1) + 1 = q
        BY <1>3, <3>1, <3>3
      <4>2. D[i][q - 1] = f
        BY <1>3, <2>2, <2>3, <4>1
      <4> QED BY <2>1, <2>3, <4>1, <4>2
    <3> QED BY <3>2, <3>3
  <2>4. CASE E[f].index # i
    <3>1. D[E[f].index] = C[E[f].index]
      BY <1>4, <2>1, <2>4 DEF Chained
    <3> QED BY <2>1, <2>2, <3>1
  <2> QED BY <2>3, <2>4
<1> HIDE DEF S
<1>14. DOMAIN F = S
  BY <1>1
<1> QED BY <1>9, <1>10, <1>11, <1>12, <1>13, <1>14 DEF Chained

\* Where an entry is in its chain.
Place(E, C, e) == CHOOSE p \in DOMAIN C[E[e].index] : C[E[e].index][p] = e

LEMMA PlaceOf ==
    ASSUME NEW n \in Nat, NEW E, NEW C, Chained(E, C, n), NEW e \in DOMAIN E
    PROVE  /\ E[e].index \in 0 .. n - 1
           /\ C[E[e].index] \in Seq(DOMAIN E) /\ Len(C[E[e].index]) \in Nat
           /\ Place(E, C, e) \in 1 .. Len(C[E[e].index])
           /\ C[E[e].index][Place(E, C, e)] = e
           /\ \A p \in 1 .. Len(C[E[e].index]) :
                C[E[e].index][p] = e => p = Place(E, C, e)
<1>1. E[e].index \in 0 .. n - 1 /\ C[E[e].index] \in Seq(DOMAIN E)
  BY DEF Chained
<1>2. Len(C[E[e].index]) \in Nat /\ DOMAIN C[E[e].index] = 1 .. Len(C[E[e].index])
  BY <1>1, LenProperties
<1>3. \E p \in DOMAIN C[E[e].index] : C[E[e].index][p] = e
  BY <1>2 DEF Chained
<1>4. Place(E, C, e) \in 1 .. Len(C[E[e].index]) /\ C[E[e].index][Place(E, C, e)] = e
  BY <1>2, <1>3 DEF Place
<1>5. \A p \in 1 .. Len(C[E[e].index]) : C[E[e].index][p] = e => p = Place(E, C, e)
  BY <1>1, <1>4, SMTT(40) DEF Chained
<1> QED BY <1>1, <1>2, <1>4, <1>5

\* The order of a loop over the chains.
Before(E, C, e, f) ==
    \/ E[e].index < E[f].index
    \/ E[e].index = E[f].index /\ Place(E, C, e) < Place(E, C, f)

Earlier(E, C) == [e \in DOMAIN E |-> {f \in DOMAIN E : Before(E, C, e, f)}]

LEMMA EarlierOrders ==
    ASSUME NEW n \in Nat, NEW E, NEW C, Chained(E, C, n), NEW S \in SUBSET DOMAIN E
    PROVE  Orders(Earlier(E, C), S)
<1>1. \A e \in S : /\ e \in DOMAIN E /\ E[e].index \in Int /\ Place(E, C, e) \in Int
                   /\ C[E[e].index][Place(E, C, e)] = e
  BY PlaceOf
<1>2. \A e, f \in S : f \in Earlier(E, C)[e] <=>
        \/ E[e].index < E[f].index
        \/ E[e].index = E[f].index /\ Place(E, C, e) < Place(E, C, f)
  <2> TAKE e \in S, f \in S
  <2>1. e \in DOMAIN E /\ f \in DOMAIN E
    OBVIOUS
  <2>2. f \in Earlier(E, C)[e] <=> Before(E, C, e, f)
    BY ONLY <2>1 DEF Earlier
  <2> QED BY <2>2 DEF Before
<1>3. \A e \in S : e \notin Earlier(E, C)[e]
  BY <1>1, <1>2
<1>4. ASSUME NEW e \in S, NEW f \in S, NEW g \in S,
             f \in Earlier(E, C)[e], g \in Earlier(E, C)[f]
      PROVE  g \in Earlier(E, C)[e]
  BY <1>1, <1>2, <1>4
<1>5. ASSUME NEW e \in S, NEW f \in S, e # f
      PROVE  f \in Earlier(E, C)[e] \/ e \in Earlier(E, C)[f]
  <2>1. E[e].index = E[f].index => Place(E, C, e) # Place(E, C, f)
    BY <1>1, <1>5
  <2> QED BY <1>1, <1>2, <2>1
<1> QED BY <1>3, <1>4, <1>5 DEF Orders

Once(s, S) ==
    /\ s \in Seq(S) /\ Len(s) \in Nat
    /\ \A i, j \in 1 .. Len(s) : s[i] = s[j] => i = j
    /\ \A x \in S : \E i \in 1 .. Len(s) : s[i] = x

\* What Enumerates says of the sequence: every element, once.
LEMMA EnumeratesOnce ==
    ASSUME NEW S, NEW R, IsFiniteSet(S), Orders(R, S), NEW s, Enumerates(s, S, R)
    PROVE  Once(s, S)
<1>1. PICK n \in Nat : n = Cardinality(S)
  BY FS_CardinalityType
<1>2. s \in [1 .. n -> S] /\ \A i, j \in 1 .. n : i < j => s[i] \in R[s[j]]
  BY <1>1 DEF Enumerates
<1>3. s \in Seq(S) /\ Len(s) = n
  BY <1>2
<1>4. \A i, j \in 1 .. n : i < j => s[i] # s[j]
  BY <1>2 DEF Orders
<1>5. \A i, j \in 1 .. n : s[i] = s[j] => i = j
  BY <1>4
<1>6. s \in Injection(1 .. n, S)
  BY <1>2, <1>5 DEF Injection, IsInjective
<1>7. IsFiniteSet(1 .. n) /\ Cardinality(1 .. n) = n
  BY FS_Interval
<1>8. s \in Surjection(1 .. n, S)
  BY <1>1, <1>6, <1>7, FS_Injection
<1>9. \A x \in S : \E i \in 1 .. n : s[i] = x
  BY <1>8 DEF Surjection
<1> QED BY <1>3, <1>5, <1>9 DEF Once

\* All entries put into m other chains.
PutAnew(E, C, F, D, m) ==
    /\ IsFiniteSet(DOMAIN E) /\ DOMAIN F = DOMAIN E
    /\ \A e \in DOMAIN E : F[e].index \in 0 .. m - 1
    /\ D = [k \in 0 .. m - 1 |->
              CHOOSE s : Enumerates(s, {e \in DOMAIN E : F[e].index = k}, Earlier(E, C))]

LEMMA ChainedAnew ==
    ASSUME NEW n \in Nat, NEW E, NEW C, Chained(E, C, n),
           NEW m \in Nat, NEW F, NEW D, PutAnew(E, C, F, D, m)
    PROVE  Chained(F, D, m)
<1> USE DEF PutAnew
<1> DEFINE moved(k) == {e \in DOMAIN E : F[e].index = k}
<1>1. ASSUME NEW k \in 0 .. m - 1
      PROVE  /\ D[k] \in Seq(DOMAIN E)
             /\ \A p \in 1 .. Len(D[k]) : F[D[k][p]].index = k
             /\ \A p, q \in 1 .. Len(D[k]) : D[k][p] = D[k][q] => p = q
             /\ \A e \in DOMAIN E : F[e].index = k => \E p \in 1 .. Len(D[k]) : D[k][p] = e
  <2> DEFINE S == moved(k)
  <2>1. S \in SUBSET DOMAIN E /\ IsFiniteSet(S)
    <3>1. S \in SUBSET DOMAIN E
      OBVIOUS
    <3> HIDE DEF S
    <3> QED BY <3>1, FS_Subset
  <2>2. D[k] = CHOOSE s : Enumerates(s, S, Earlier(E, C))
    OBVIOUS
  <2> HIDE DEF S
  <2>3. Orders(Earlier(E, C), S)
    BY <2>1, EarlierOrders
  <2>4. Enumerates(D[k], S, Earlier(E, C))
    BY <2>1, <2>2, <2>3, CanBeEnumerated
  <2>5. /\ D[k] \in Seq(S) /\ Len(D[k]) \in Nat
        /\ \A i, j \in 1 .. Len(D[k]) : D[k][i] = D[k][j] => i = j
        /\ \A x \in S : \E i \in 1 .. Len(D[k]) : D[k][i] = x
    <3>1. Once(D[k], S)
      BY <2>1, <2>3, <2>4, EnumeratesOnce
    <3> QED BY <3>1 DEF Once
  <2>6. \A p \in 1 .. Len(D[k]) : D[k][p] \in S
    BY <2>5, LenProperties
  <2>7. D[k] \in Seq(DOMAIN E)
    BY <2>1, <2>5, <2>6, SequenceOver
  <2> QED BY <2>5, <2>6, <2>7 DEF S
<1>2. D \in [0 .. m - 1 -> Seq(DOMAIN F)]
  BY <1>1
<1>3. \A i \in 0 .. m - 1 : \A p \in 1 .. Len(D[i]) : F[D[i][p]].index = i
  BY <1>1
<1>4. \A i \in 0 .. m - 1 : \A p, q \in 1 .. Len(D[i]) : D[i][p] = D[i][q] => p = q
  BY <1>1
<1>5. \A e \in DOMAIN F : /\ F[e].index \in 0 .. m - 1
                          /\ \E p \in 1 .. Len(D[F[e].index]) : D[F[e].index][p] = e
  <2> TAKE e \in DOMAIN F
  <2>1. PICK k \in 0 .. m - 1 : k = F[e].index
    OBVIOUS
  <2> QED BY <1>1, <2>1
<1> HIDE DEF moved
<1> QED BY ONLY <1>2, <1>3, <1>4, <1>5 DEF Chained

-----------------------------------------------------------------------------
(* Tables *)

HashFields == {"prime_index", "used_indexes_size", "length", "entry", "entries",
               "cursor_index", "cursor_entry"}

\* E are entries of a table of n chains: at most one for each content.
EntriesOK(E, n) ==
    /\ IsFiniteSet(DOMAIN E) /\ DOMAIN E \subseteq Entries
    /\ \A e \in DOMAIN E :
         /\ DOMAIN E[e] = {"index", "key", "value"}
         /\ E[e].key \in Keys /\ E[e].value \in Keys \cup HashValues
         /\ E[e].index = ContentOf(E[e].key) % n
    /\ \A e, f \in DOMAIN E : ContentOf(E[e].key) = ContentOf(E[f].key) => e = f

\* The table, whatever its cursor is.
IsTable(h) ==
    /\ DOMAIN h = HashFields
    /\ h.prime_index \in 1 .. Len(Primes)
    /\ h.used_indexes_size \in Nat
    /\ h.length = Cardinality(DOMAIN h.entry)
    /\ EntriesOK(h.entry, limit(h))
    /\ Chained(h.entry, h.entries, limit(h))

LEMMA LimitType ==
    /\ Len(Primes) \in Nat /\ 1 \in 1 .. Len(Primes)
    /\ \A p \in 1 .. Len(Primes) : Primes[p] \in Nat \ {0}
    /\ \A k \in Keys : /\ ContentOf(k) \in Nat
                       /\ \A n \in Nat \ {0} : ContentOf(k) % n \in 0 .. n - 1
<1>1. Primes \in Seq(Nat \ {0}) /\ Primes # <<>>
  BY HashAssumption
<1>2. Len(Primes) \in Nat /\ \A p \in 1 .. Len(Primes) : Primes[p] \in Nat \ {0}
  BY <1>1, LenProperties
<1>3. Len(Primes) # 0
  BY <1>1
<1>4. \A k \in Keys : ContentOf(k) \in Nat
  BY HashAssumption DEF ContentOf
<1>5. \A c \in Nat : \A n \in Nat \ {0} : c % n \in 0 .. n - 1
  OBVIOUS
<1>6. 1 \in 1 .. Len(Primes)
  BY <1>2, <1>3
<1>7. ASSUME NEW k \in Keys
      PROVE  /\ ContentOf(k) \in Nat
             /\ \A n \in Nat \ {0} : ContentOf(k) % n \in 0 .. n - 1
  BY <1>4, <1>5
<1> QED BY <1>2, <1>6, <1>7

LEMMA TableLimit == ASSUME NEW h, IsTable(h) PROVE limit(h) \in Nat \ {0}
  BY LimitType DEF IsTable, limit

\* The table of hash_init.
LEMMA MadeIsTable ==
    /\ IsTable(make_hash) /\ make_hash.entry = <<>> /\ DOMAIN make_hash.entry = {}
    /\ make_hash.cursor_index = 0 /\ make_hash.cursor_entry = NULL
<1> DEFINE h == make_hash
<1>1. /\ DOMAIN h = HashFields /\ h.prime_index = 1 /\ h.used_indexes_size = 0
      /\ h.length = 0 /\ h.entry = <<>>
      /\ h.entries = [i \in 0 .. Primes[1] - 1 |-> <<>>]
      /\ h.cursor_index = 0 /\ h.cursor_entry = NULL
  BY DEF make_hash, HashFields
<1>2. DOMAIN h.entry = {}
  BY <1>1
<1>3. EntriesOK(h.entry, limit(h))
  BY <1>2, FS_EmptySet DEF EntriesOK
<1>4. Chained(h.entry, h.entries, limit(h))
  <2>1. limit(h) = Primes[1] /\ Primes[1] \in Nat \ {0}
    BY <1>1, LimitType DEF limit
  <2>2. h.entries \in [0 .. limit(h) - 1 -> Seq(DOMAIN h.entry)]
    BY <1>1, <1>2, <2>1
  <2>3. \A i \in 0 .. limit(h) - 1 : Len(h.entries[i]) = 0
    BY <1>1, <2>1
  <2> HIDE DEF h
  <2> QED BY <1>2, <2>2, <2>3 DEF Chained
<1>5. h.length = Cardinality(DOMAIN h.entry)
  BY <1>1, <1>2, FS_EmptySet
<1> HIDE DEF h
<1>6. IsTable(h)
  BY <1>1, <1>3, <1>4, <1>5, LimitType DEF IsTable
<1> QED BY <1>1, <1>2, <1>6 DEF h

-----------------------------------------------------------------------------
(* hash_get_entry *)

\* e is what there is in E of a content.
Finds(E, c, e) ==
    \/ e = NULL /\ \A f \in DOMAIN E : ContentOf(E[f].key) # c
    \/ e \in DOMAIN E /\ ContentOf(E[e].key) = c

LEMMA GetEntryFinds ==
    ASSUME NEW h, IsTable(h), NEW k \in Keys
    PROVE  Finds(h.entry, ContentOf(k), hash_get_entry(h, k))
<1>1. PICK n \in Nat \ {0} : n = limit(h)
  BY TableLimit
<1>2. PICK E : E = h.entry
  OBVIOUS
<1>3. PICK C : C = h.entries
  OBVIOUS
<1>4. PICK c \in Nat : c = ContentOf(k) /\ c % n \in 0 .. n - 1
  BY LimitType
<1>5. EntriesOK(E, n) /\ Chained(E, C, n)
  BY <1>1, <1>2, <1>3 DEF IsTable
<1>6. PICK b : b = C[c % n]
  OBVIOUS
<1>7. b \in Seq(DOMAIN E) /\ Len(b) \in Nat /\ DOMAIN b = 1 .. Len(b)
  <2>1. b \in Seq(DOMAIN E)
    BY <1>4, <1>5, <1>6 DEF Chained
  <2> QED BY <2>1, LenProperties
<1> DEFINE found == {i \in DOMAIN b : ContentOf(E[b[i]].key) = c}
<1>8. hash_get_entry(h, k) =
        IF found = {} THEN NULL
        ELSE b[CHOOSE i \in found : \A j \in found : i <= j]
  BY <1>1, <1>2, <1>3, <1>4, <1>6 DEF hash_get_entry, hash_key_index
<1>9. CASE found = {}
  <2>1. ASSUME NEW f \in DOMAIN E, ContentOf(E[f].key) = c PROVE FALSE
    <3>1. E[f].index = c % n
      BY <1>5, <2>1 DEF EntriesOK
    <3>2. PICK p \in 1 .. Len(C[c % n]) : C[c % n][p] = f
      BY <1>5, <3>1 DEF Chained
    <3>3. p \in found
      BY <1>6, <1>7, <2>1, <3>2
    <3> QED BY <1>9, <3>3
  <2>2. hash_get_entry(h, k) = NULL
    BY <1>8, <1>9
  <2> QED BY <1>2, <1>4, <2>1, <2>2 DEF Finds
<1>10. CASE found # {}
  <2>1. found \in SUBSET Nat
    BY <1>7
  <2>2. \E i \in found : \A j \in found : i <= j
    <3> HIDE DEF found
    <3> QED BY <1>10, <2>1, Smallest
  <2>3. PICK i \in found : hash_get_entry(h, k) = b[i]
    <3> HIDE DEF found
    <3> QED BY <1>8, <1>10, <2>2
  <2>4. b[i] \in DOMAIN E /\ ContentOf(E[b[i]].key) = c
    BY <1>7
  <2> QED BY <1>2, <1>4, <2>3, <2>4 DEF Finds
<1> QED BY <1>9, <1>10

-----------------------------------------------------------------------------
(* The functions that change a table *)

SameCursor(h, g) == g.cursor_index = h.cursor_index /\ g.cursor_entry = h.cursor_entry

\* The table of a rehash: the entries are those there were, but for their index.
Rehashed(h, g) ==
    /\ IsTable(g) /\ g.prime_index = h.prime_index + 1
    /\ DOMAIN g.entry = DOMAIN h.entry
    /\ \A e \in DOMAIN h.entry : /\ g.entry[e].key = h.entry[e].key
                                 /\ g.entry[e].value = h.entry[e].value

LEMMA RehashIs ==
    ASSUME NEW h, IsTable(h), h.prime_index < Len(Primes)
    PROVE  Rehashed(h, hash_rehash(h))
<1>1. PICK n \in Nat \ {0} : n = limit(h)
  BY TableLimit
<1>2. PICK E : E = h.entry
  OBVIOUS
<1>3. PICK C : C = h.entries
  OBVIOUS
<1>4. PICK g : g = hash_rehash(h)
  OBVIOUS
<1>5. h.prime_index \in 1 .. Len(Primes) /\ Len(Primes) \in Nat /\ DOMAIN h = HashFields
  BY LimitType DEF IsTable
<1>6. PICK p \in 1 .. Len(Primes) : p = h.prime_index + 1
  BY <1>5
<1>7. PICK m \in Nat \ {0} : m = Primes[p]
  BY LimitType
<1>8. EntriesOK(E, n) /\ Chained(E, C, n) /\ h.length = Cardinality(DOMAIN E)
  BY <1>1, <1>2, <1>3 DEF IsTable
<1> DEFINE index(e) == ContentOf(E[e].key) % m
           F == [e \in DOMAIN E |-> [E[e] EXCEPT !.index = index(e)]]
           D == [k \in 0 .. m - 1 |-> Stacked(h, {e \in DOMAIN E : index(e) = k})]
           used == Cardinality({k \in 0 .. m - 1 : {e \in DOMAIN E : index(e) = k} # {}})
<1>9. /\ DOMAIN g = HashFields
      /\ g.prime_index = p /\ g.entries = D /\ g.entry = F
      /\ g.used_indexes_size = used /\ g.length = h.length
  <2>1. g = [h EXCEPT !.prime_index = p, !.entries = D, !.entry = F,
                      !.used_indexes_size = used]
    BY <1>2, <1>4, <1>6, <1>7 DEF hash_rehash
  <2> HIDE DEF D, F, used
  <2> QED BY <1>5, <2>1 DEF HashFields
<1>10. \A e \in DOMAIN E : index(e) \in 0 .. m - 1
  BY <1>8, LimitType DEF EntriesOK
<1>11. /\ DOMAIN F = DOMAIN E
       /\ \A e \in DOMAIN E : /\ DOMAIN F[e] = {"index", "key", "value"}
                              /\ F[e].index = index(e)
                              /\ F[e].key = E[e].key /\ F[e].value = E[e].value
  <2> HIDE DEF index
  <2> QED BY <1>8 DEF EntriesOK
<1>12. used \in Nat
  <2> DEFINE U == {k \in 0 .. m - 1 : {e \in DOMAIN E : index(e) = k} # {}}
  <2>1. U \in SUBSET (0 .. m - 1) /\ IsFiniteSet(0 .. m - 1)
    BY FS_Interval
  <2> HIDE DEF U
  <2>2. Cardinality(U) \in Nat
    BY <2>1, FS_Subset, FS_CardinalityType
  <2> QED BY <2>2 DEF U
<1>13. D = [k \in 0 .. m - 1 |->
              CHOOSE s : Enumerates(s, {e \in DOMAIN E : F[e].index = k}, Earlier(E, C))]
  <2>1. ASSUME NEW k \in 0 .. m - 1
        PROVE  D[k] = CHOOSE s : Enumerates(s, {e \in DOMAIN E : F[e].index = k},
                                              Earlier(E, C))
    <3> DEFINE S == {e \in DOMAIN E : index(e) = k}
    <3>1. S = {e \in DOMAIN E : F[e].index = k}
      <4> HIDE DEF index, F
      <4> QED BY <1>11
    <3>2. S \subseteq DOMAIN E
      OBVIOUS
    <3>3. D[k] = Stacked(h, S)
      OBVIOUS
    <3> HIDE DEF S, D
    <3>4. \A e, f \in S : precedes(h, e, f) <=> f \in Earlier(E, C)[e]
      BY <1>2, <1>3, <3>2 DEF precedes, Earlier, Before, place_of, Place
    <3>5. \A s \in [1 .. Cardinality(S) -> S] :
            (\A i, j \in 1 .. Cardinality(S) : i < j => precedes(h, s[j], s[i]))
              <=> (\A i, j \in 1 .. Cardinality(S) : i < j => s[i] \in Earlier(E, C)[s[j]])
      BY <3>4
    <3>6. Stacked(h, S) = CHOOSE s : Enumerates(s, S, Earlier(E, C))
      BY <3>5 DEF Stacked, Enumerates
    <3> QED BY <3>1, <3>3, <3>6
  <2> QED BY <2>1
<1> HIDE DEF index, F, D, used
<1>14. Chained(F, D, m)
  <2>1. PutAnew(E, C, F, D, m)
    BY <1>8, <1>10, <1>11, <1>13 DEF EntriesOK, PutAnew
  <2>2. n \in Nat /\ m \in Nat
    OBVIOUS
  <2> QED BY <1>8, <2>1, <2>2, ChainedAnew
<1>15. EntriesOK(F, m)
  <2>1. \A e \in DOMAIN F : F[e].index = ContentOf(F[e].key) % m
    BY <1>11 DEF index
  <2> QED BY <1>8, <1>11, <2>1 DEF EntriesOK
<1>16. limit(g) = m
  BY <1>7, <1>9 DEF limit
<1>17. IsTable(g)
  BY <1>8, <1>9, <1>11, <1>12, <1>14, <1>15, <1>16 DEF IsTable
<1>18. Rehashed(h, g)
  BY <1>2, <1>6, <1>9, <1>11, <1>17 DEF Rehashed
<1> QED BY <1>4, <1>18

\* The table with one more entry, at the head of its chain.
Added(h, g, e, k, v) ==
    /\ e \in Entries \ DOMAIN h.entry
    /\ IsTable(g) /\ g.prime_index = h.prime_index /\ SameCursor(h, g)
    /\ DOMAIN g.entry = DOMAIN h.entry \cup {e}
    /\ g.entry[e].key = k /\ g.entry[e].value = v
    /\ \A f \in DOMAIN h.entry : g.entry[f] = h.entry[f]
    /\ g.entries = [h.entries EXCEPT ![g.entry[e].index] =
                      <<e>> \o h.entries[g.entry[e].index]]

LEMMA SetEntryAdds ==
    ASSUME NEW h, IsTable(h), NEW k \in Keys, NEW v \in Keys \cup HashValues,
           DOMAIN h.entry # Entries, Finds(h.entry, ContentOf(k), NULL)
    PROVE  \E e : Added(h, set_entry(h, k, v), e, k, v)
<1>1. PICK n \in Nat \ {0} : n = limit(h)
  BY TableLimit
<1>2. PICK E : E = h.entry
  OBVIOUS
<1>3. PICK C : C = h.entries
  OBVIOUS
<1>4. PICK g : g = set_entry(h, k, v)
  OBVIOUS
<1>5. /\ EntriesOK(E, n) /\ Chained(E, C, n) /\ h.length = Cardinality(DOMAIN E)
      /\ DOMAIN h = HashFields /\ h.used_indexes_size \in Nat
  BY <1>1, <1>2, <1>3 DEF IsTable
<1>6. PICK i \in 0 .. n - 1 : i = hash_key_index(h, k) /\ i = ContentOf(k) % n
  BY <1>1, LimitType DEF hash_key_index
<1>7. PICK e \in Entries \ DOMAIN E :
        e = CHOOSE x \in Entries \ DOMAIN h.entry : \A y \in Entries \ DOMAIN h.entry : x <= y
  <2> DEFINE X == Entries \ DOMAIN E
  <2>1. X \in SUBSET Nat /\ X # {}
    BY <1>2, <1>5, HashAssumption DEF EntriesOK
  <2>2. \E x \in X : \A y \in X : x <= y
    <3> HIDE DEF X
    <3> QED BY <2>1, Smallest
  <2> QED BY <1>2, <2>2
<1> DEFINE r == [index |-> i, key |-> k, value |-> v]
           F == [f \in DOMAIN E \cup {e} |-> IF f = e THEN r ELSE E[f]]
           D == [C EXCEPT ![i] = <<e>> \o C[i]]
           used == IF C[i] = <<>> THEN (h.used_indexes_size + 1) % SizeRange
                   ELSE h.used_indexes_size
<1>8. /\ DOMAIN g = HashFields
      /\ g.entry = F /\ g.entries = D
      /\ g.used_indexes_size = used /\ g.length = h.length + 1
      /\ g.prime_index = h.prime_index /\ SameCursor(h, g)
  <2>1. g = [h EXCEPT !.entry = F, !.entries = D, !.used_indexes_size = used,
                      !.length = h.length + 1]
    BY <1>2, <1>3, <1>4, <1>6, <1>7 DEF set_entry
  <2> HIDE DEF D, F, used
  <2> QED BY <1>5, <2>1 DEF HashFields, SameCursor
<1>9. /\ DOMAIN F = DOMAIN E \cup {e} /\ F[e] = r /\ \A f \in DOMAIN E : F[f] = E[f]
      /\ e \notin DOMAIN E /\ e \in Entries
  OBVIOUS
<1>10. r.index = i /\ r.key = k /\ r.value = v /\ DOMAIN r = {"index", "key", "value"}
  OBVIOUS
<1>11. used \in Nat
  BY <1>5, HashAssumption, SMTT(40)
<1>12. Chained(F, D, n)
  <2>1. n \in Nat
    OBVIOUS
  <2>2. PushedTo(E, C, F, D, e, i)
    <3>1. D = [C EXCEPT ![i] = <<e>> \o C[i]]
      OBVIOUS
    <3> HIDE DEF r, F, D
    <3> QED BY <1>9, <1>10, <3>1 DEF PushedTo
  <2> HIDE DEF F, D
  <2> QED BY <1>5, <2>1, <2>2, ChainedAdd
<1> HIDE DEF r, F, D, used
<1>13. EntriesOK(F, n)
  <2>1. IsFiniteSet(DOMAIN F) /\ DOMAIN F \subseteq Entries
    BY <1>5, <1>9, FS_AddElement DEF EntriesOK
  <2>2. \A f \in DOMAIN F :
         /\ DOMAIN F[f] = {"index", "key", "value"}
         /\ F[f].key \in Keys /\ F[f].value \in Keys \cup HashValues
         /\ F[f].index = ContentOf(F[f].key) % n
    BY <1>5, <1>6, <1>9, <1>10 DEF EntriesOK
  <2>3. \A f \in DOMAIN E : ContentOf(E[f].key) # ContentOf(k)
    <3>1. NULL \notin DOMAIN E
      BY <1>5, HashAssumption DEF EntriesOK
    <3> QED BY <1>2, <3>1 DEF Finds
  <2>4. \A f1, f2 \in DOMAIN F : ContentOf(F[f1].key) = ContentOf(F[f2].key) => f1 = f2
    BY <1>5, <1>9, <1>10, <2>3 DEF EntriesOK
  <2> QED BY <2>1, <2>2, <2>4 DEF EntriesOK
<1>14. g.length = Cardinality(DOMAIN F)
  <2>1. IsFiniteSet(DOMAIN E)
    BY <1>5 DEF EntriesOK
  <2> QED BY <1>5, <1>8, <1>9, <2>1, FS_AddElement
<1>15. limit(g) = n
  BY <1>1, <1>8 DEF limit
<1>16. IsTable(g)
  <2>1. h.prime_index \in 1 .. Len(Primes)
    BY DEF IsTable
  <2> QED BY <1>8, <1>11, <1>12, <1>13, <1>14, <1>15, <2>1 DEF IsTable
<1>17. g.entries = [h.entries EXCEPT ![g.entry[e].index] =
                      <<e>> \o h.entries[g.entry[e].index]]
  BY <1>3, <1>8, <1>9, <1>10 DEF D
<1>18. Added(h, g, e, k, v)
  BY <1>2, <1>8, <1>9, <1>10, <1>16, <1>17 DEF Added
<1> QED BY <1>4, <1>18

\* The table without an entry.
Deleted(h, g, e) ==
    /\ IsTable(g) /\ g.prime_index = h.prime_index /\ SameCursor(h, g)
    /\ TakenFrom(h.entry, h.entries, g.entry, g.entries, e, h.entry[e].index,
                 Place(h.entry, h.entries, e))

LEMMA DeleteEntryDeletes ==
    ASSUME NEW h, IsTable(h), NEW e \in DOMAIN h.entry
    PROVE  Deleted(h, hash_delete_entry(h, e), e)
<1>1. PICK n \in Nat \ {0} : n = limit(h)
  BY TableLimit
<1>2. PICK E : E = h.entry
  OBVIOUS
<1>3. PICK C : C = h.entries
  OBVIOUS
<1>4. PICK g : g = hash_delete_entry(h, e)
  OBVIOUS
<1>5. /\ EntriesOK(E, n) /\ Chained(E, C, n) /\ h.length = Cardinality(DOMAIN E)
      /\ DOMAIN h = HashFields /\ h.used_indexes_size \in Nat /\ e \in DOMAIN E
  BY <1>1, <1>2, <1>3 DEF IsTable
<1>6. PICK i : i = E[e].index
  OBVIOUS
<1>7. PICK p : p = Place(E, C, e)
  OBVIOUS
<1>8. i \in 0 .. n - 1 /\ p \in 1 .. Len(C[i]) /\ C[i][p] = e
  BY <1>5, <1>6, <1>7, PlaceOf
<1> DEFINE F == [f \in DOMAIN E \ {e} |-> E[f]]
           D == [C EXCEPT ![i] = Without(C[i], p)]
           used == IF Head(C[i]) = e
                   THEN (h.used_indexes_size + SizeRange - 1) % SizeRange
                   ELSE h.used_indexes_size
<1>9. /\ DOMAIN g = HashFields
      /\ g.entry = F /\ g.entries = D
      /\ g.used_indexes_size = used /\ g.length = h.length - 1
      /\ g.prime_index = h.prime_index /\ SameCursor(h, g)
  <2>1. p = place_of(h, e)
    BY <1>2, <1>3, <1>7 DEF place_of, Place
  <2>2. g = [h EXCEPT !.entry = F, !.entries = D, !.used_indexes_size = used,
                      !.length = h.length - 1]
    BY <1>2, <1>3, <1>4, <1>6, <2>1 DEF hash_delete_entry, Without
  <2> HIDE DEF D, F, used
  <2> QED BY <1>5, <2>2 DEF HashFields, SameCursor
<1>10. DOMAIN F = DOMAIN E \ {e} /\ \A f \in DOMAIN F : F[f] = E[f] /\ f \in DOMAIN E
  OBVIOUS
<1>11. used \in Nat
  BY <1>5, HashAssumption
<1>12. TakenFrom(E, C, F, D, e, i, p)
  <2>1. D = [C EXCEPT ![i] = Without(C[i], p)]
    OBVIOUS
  <2> HIDE DEF F, D
  <2> QED BY <1>5, <1>6, <1>8, <1>10, <2>1 DEF TakenFrom
<1> HIDE DEF F, D, used
<1>13. Chained(F, D, n)
  <2>1. n \in Nat
    OBVIOUS
  <2> QED BY <1>5, <1>12, <2>1, ChainedWithout
<1>14. EntriesOK(F, n)
  <2>1. IsFiniteSet(DOMAIN F) /\ DOMAIN F \subseteq Entries
    BY <1>5, <1>10, FS_RemoveElement DEF EntriesOK
  <2> QED BY <1>5, <1>10, <2>1 DEF EntriesOK
<1>15. g.length = Cardinality(DOMAIN F)
  <2>1. IsFiniteSet(DOMAIN E)
    BY <1>5 DEF EntriesOK
  <2> QED BY <1>5, <1>9, <1>10, <2>1, FS_RemoveElement
<1>16. limit(g) = n
  BY <1>1, <1>9 DEF limit
<1>17. IsTable(g)
  <2>1. h.prime_index \in 1 .. Len(Primes)
    BY DEF IsTable
  <2> QED BY <1>9, <1>11, <1>13, <1>14, <1>15, <1>16, <2>1 DEF IsTable
<1>18. Deleted(h, g, e)
  BY <1>2, <1>3, <1>6, <1>7, <1>9, <1>12, <1>17 DEF Deleted
<1> QED BY <1>4, <1>18

\* The table with another value of an entry.
Updated(h, g, e, v) ==
    /\ IsTable(g) /\ g.prime_index = h.prime_index /\ SameCursor(h, g)
    /\ g.entries = h.entries /\ DOMAIN g.entry = DOMAIN h.entry
    /\ \A f \in DOMAIN h.entry :
         /\ g.entry[f].index = h.entry[f].index /\ g.entry[f].key = h.entry[f].key
         /\ g.entry[f].value = IF f = e THEN v ELSE h.entry[f].value

LEMMA PutUpdates ==
    ASSUME NEW h, IsTable(h), NEW e \in DOMAIN h.entry, NEW v \in Keys \cup HashValues
    PROVE  Updated(h, [h EXCEPT !.entry[e].value = v], e, v)
<1>1. PICK n \in Nat \ {0} : n = limit(h)
  BY TableLimit
<1>2. PICK E : E = h.entry
  OBVIOUS
<1>3. PICK C : C = h.entries
  OBVIOUS
<1>4. PICK g : g = [h EXCEPT !.entry[e].value = v]
  OBVIOUS
<1>5. /\ EntriesOK(E, n) /\ Chained(E, C, n) /\ h.length = Cardinality(DOMAIN E)
      /\ DOMAIN h = HashFields /\ h.used_indexes_size \in Nat /\ e \in DOMAIN E
  BY <1>1, <1>2, <1>3 DEF IsTable
<1> DEFINE F == [E EXCEPT ![e] = [E[e] EXCEPT !.value = v]]
<1>6. /\ DOMAIN g = HashFields /\ g.entry = F /\ g.entries = C
      /\ g.used_indexes_size = h.used_indexes_size /\ g.length = h.length
      /\ g.prime_index = h.prime_index /\ SameCursor(h, g)
  <2>1. g = [h EXCEPT !.entry = F]
    BY <1>2, <1>4
  <2> HIDE DEF F
  <2> QED BY <1>3, <1>5, <2>1 DEF HashFields, SameCursor
<1>7. /\ DOMAIN F = DOMAIN E
      /\ \A f \in DOMAIN E :
           /\ DOMAIN F[f] = {"index", "key", "value"}
           /\ F[f].index = E[f].index /\ F[f].key = E[f].key
           /\ F[f].value = IF f = e THEN v ELSE E[f].value
  <2>1. \A f \in DOMAIN E : f # e => F[f] = E[f]
    OBVIOUS
  <2>2. F[e] = [E[e] EXCEPT !.value = v]
    BY <1>5
  <2>3. \A f \in DOMAIN E : DOMAIN E[f] = {"index", "key", "value"}
    BY <1>5 DEF EntriesOK
  <2>4. /\ DOMAIN F[e] = {"index", "key", "value"}
        /\ F[e].index = E[e].index /\ F[e].key = E[e].key /\ F[e].value = v
    <3> HIDE DEF F
    <3> QED BY <1>5, <2>2, <2>3
  <2>5. DOMAIN F = DOMAIN E
    OBVIOUS
  <2> HIDE DEF F
  <2> QED BY <2>1, <2>3, <2>4, <2>5
<1> HIDE DEF F
<1>8. Chained(F, C, n)
  <2>1. /\ C \in [0 .. n - 1 -> Seq(DOMAIN E)]
        /\ \A i \in 0 .. n - 1 : \A p, q \in 1 .. Len(C[i]) : C[i][p] = C[i][q] => p = q
    BY <1>5 DEF Chained
  <2>2. \A i \in 0 .. n - 1 : \A p \in 1 .. Len(C[i]) : F[C[i][p]].index = i
    <3> TAKE i \in 0 .. n - 1
    <3> TAKE p \in 1 .. Len(C[i])
    <3>1. C[i][p] \in DOMAIN E
      BY <2>1, LenProperties
    <3>2. E[C[i][p]].index = i
      BY <1>5 DEF Chained
    <3> QED BY <1>7, <3>1, <3>2
  <2>3. \A f \in DOMAIN F : /\ F[f].index \in 0 .. n - 1
                            /\ \E p \in 1 .. Len(C[F[f].index]) : C[F[f].index][p] = f
    BY <1>5, <1>7, SMTT(40) DEF Chained
  <2> QED BY <1>7, <2>1, <2>2, <2>3 DEF Chained
<1>9. EntriesOK(F, n)
  BY <1>5, <1>7 DEF EntriesOK
<1>10. limit(g) = n
  BY <1>1, <1>6 DEF limit
<1>11. IsTable(g)
  <2>1. h.prime_index \in 1 .. Len(Primes)
    BY DEF IsTable
  <2> QED BY <1>5, <1>6, <1>7, <1>8, <1>9, <1>10, <2>1 DEF IsTable
<1>12. Updated(h, g, e, v)
  BY <1>2, <1>3, <1>6, <1>7, <1>11 DEF Updated
<1> QED BY <1>4, <1>12

-----------------------------------------------------------------------------
(* The order of the entries *)

\* An entry is at no other place of its chain.
LEMMA OnlyPlace ==
    ASSUME NEW n \in Nat, NEW E, NEW C, Chained(E, C, n), NEW e \in DOMAIN E,
           NEW p \in 1 .. Len(C[E[e].index]), C[E[e].index][p] = e
    PROVE  p = Place(E, C, e)
BY PlaceOf

\* A new entry leaves the order of the others as it is.
LEMMA PushedKeepsOrder ==
    ASSUME NEW n \in Nat, NEW E, NEW C, Chained(E, C, n),
           NEW F, NEW D, NEW e, NEW i \in 0 .. n - 1, PushedTo(E, C, F, D, e, i)
    PROVE  \A f, g \in DOMAIN E : Before(F, D, f, g) <=> Before(E, C, f, g)
<1>1. Chained(F, D, n)
  BY ChainedAdd
<1>2. /\ DOMAIN F = DOMAIN E \cup {e} /\ \A f \in DOMAIN E : F[f] = E[f]
      /\ D = [C EXCEPT ![i] = <<e>> \o C[i]]
      /\ C \in [0 .. n - 1 -> Seq(DOMAIN E)]
  BY DEF PushedTo, Chained
<1>3. ASSUME NEW f \in DOMAIN E
      PROVE  /\ Place(E, C, f) \in Nat /\ E[f].index \in 0 .. n - 1
             /\ Place(F, D, f) = IF E[f].index = i THEN Place(E, C, f) + 1 ELSE Place(E, C, f)
  <2>1. PICK p : p = Place(E, C, f)
    OBVIOUS
  <2>2. /\ E[f].index \in 0 .. n - 1
        /\ C[E[f].index] \in Seq(DOMAIN E) /\ Len(C[E[f].index]) \in Nat
        /\ p \in 1 .. Len(C[E[f].index]) /\ C[E[f].index][p] = f
    BY <2>1, PlaceOf
  <2>3. \A q \in 1 .. Len(D[E[f].index]) : D[E[f].index][q] = f => q = Place(F, D, f)
    <3>1. f \in DOMAIN F /\ F[f].index = E[f].index
      BY <1>2
    <3>2. ASSUME NEW q \in 1 .. Len(D[F[f].index]), D[F[f].index][q] = f PROVE q = Place(F, D, f)
      BY <1>1, <3>1, <3>2, OnlyPlace
    <3> QED BY <3>1, <3>2, Zenon
  <2>4. CASE E[f].index = i
    <3>1. D[i] = <<e>> \o C[i] /\ C[i] \in Seq(DOMAIN E \cup {e})
      BY <1>2
    <3>2. Len(D[i]) = Len(C[i]) + 1 /\ D[i][p + 1] = C[i][p]
      BY <2>2, <2>4, <3>1, Pushed
    <3>3. p + 1 \in 1 .. Len(D[i]) /\ D[i][p + 1] = f
      BY <2>2, <2>4, <3>2
    <3> QED BY <2>1, <2>2, <2>3, <2>4, <3>3
  <2>5. CASE E[f].index # i
    <3>1. D[E[f].index] = C[E[f].index]
      BY <1>2, <2>2, <2>5
    <3> QED BY <2>1, <2>2, <2>3, <2>5, <3>1
  <2> QED BY <2>4, <2>5
<1>4. ASSUME NEW f \in DOMAIN E, NEW g \in DOMAIN E
      PROVE  Before(F, D, f, g) <=> Before(E, C, f, g)
  <2>1. F[f].index = E[f].index /\ F[g].index = E[g].index
    BY <1>2
  <2>2. ASSUME E[f].index = E[g].index
        PROVE  Place(F, D, f) < Place(F, D, g) <=> Place(E, C, f) < Place(E, C, g)
    BY <1>3, <2>2
  <2> QED BY <2>1, <2>2 DEF Before
<1> QED BY <1>4

\* So does one that leaves.
LEMMA TakenKeepsOrder ==
    ASSUME NEW n \in Nat, NEW E, NEW C, Chained(E, C, n),
           NEW F, NEW D, NEW e, NEW i, NEW p, TakenFrom(E, C, F, D, e, i, p)
    PROVE  \A f, g \in DOMAIN F : Before(F, D, f, g) <=> Before(E, C, f, g)
<1>1. Chained(F, D, n)
  BY ChainedWithout
<1>2. /\ DOMAIN F = DOMAIN E \ {e} /\ \A f \in DOMAIN F : F[f] = E[f] /\ f \in DOMAIN E
      /\ p \in 1 .. Len(C[i]) /\ C[i][p] = e /\ i \in 0 .. n - 1
      /\ D = [C EXCEPT ![i] = Without(C[i], p)]
      /\ C \in [0 .. n - 1 -> Seq(DOMAIN E)]
  BY DEF TakenFrom, Chained
<1>3. ASSUME NEW f \in DOMAIN F
      PROVE  /\ Place(E, C, f) \in Nat /\ E[f].index \in 0 .. n - 1
             /\ E[f].index = i => Place(E, C, f) # p
             /\ Place(F, D, f) = IF E[f].index = i /\ Place(E, C, f) > p
                                 THEN Place(E, C, f) - 1 ELSE Place(E, C, f)
  <2>1. PICK q : q = Place(E, C, f)
    OBVIOUS
  <2>2. /\ E[f].index \in 0 .. n - 1
        /\ C[E[f].index] \in Seq(DOMAIN E) /\ Len(C[E[f].index]) \in Nat
        /\ q \in 1 .. Len(C[E[f].index]) /\ C[E[f].index][q] = f
    <3>1. f \in DOMAIN E
      BY <1>2
    <3>2. /\ E[f].index \in 0 .. n - 1
          /\ C[E[f].index] \in Seq(DOMAIN E) /\ Len(C[E[f].index]) \in Nat
          /\ Place(E, C, f) \in 1 .. Len(C[E[f].index])
          /\ C[E[f].index][Place(E, C, f)] = f
      BY <3>1, PlaceOf, SMTT(40)
    <3> QED BY <2>1, <3>2, Zenon
  <2>3. \A r \in 1 .. Len(D[E[f].index]) : D[E[f].index][r] = f => r = Place(F, D, f)
    <3>1. F[f].index = E[f].index
      BY <1>2
    <3>2. ASSUME NEW r \in 1 .. Len(D[F[f].index]), D[F[f].index][r] = f PROVE r = Place(F, D, f)
      BY <1>1, <3>2, OnlyPlace
    <3> QED BY <3>1, <3>2, Zenon
  <2>4. CASE E[f].index = i
    <3>1. D[i] = Without(C[i], p) /\ C[i] \in Seq(DOMAIN E)
      BY <1>2
    <3>2. /\ Len(D[i]) = Len(C[i]) - 1
          /\ \A r \in 1 .. Len(C[i]) - 1 : D[i][r] = IF r < p THEN C[i][r] ELSE C[i][r + 1]
      <4>1. p \in 1 .. Len(C[i])
        BY <1>2
      <4> QED BY <3>1, <4>1, WithoutOne
    <3>3. q # p /\ p \in 1 .. Len(C[i]) /\ q \in 1 .. Len(C[i]) /\ Len(C[i]) \in Nat
      BY <1>2, <2>2, <2>4
    <3>4. CASE q < p
      <4>1. q \in 1 .. Len(D[i]) /\ q \in 1 .. Len(C[i]) - 1
        BY <3>2, <3>3, <3>4
      <4>2. D[i][q] = f
        BY <2>2, <2>4, <3>2, <3>4, <4>1
      <4>3. q = Place(F, D, f)
        BY <2>3, <2>4, <4>1, <4>2
      <4>4. ~ (q > p)
        BY <3>3, <3>4
      <4> QED BY <2>1, <2>2, <2>4, <3>3, <4>3, <4>4
    <3>5. CASE q > p
      <4>1. /\ q - 1 \in 1 .. Len(D[i]) /\ q - 1 \in 1 .. Len(C[i]) - 1
            /\ ~ (q - 1 < p) /\ (q - 1) + 1 = q
        BY <3>2, <3>3, <3>5
      <4>2. D[i][q - 1] = f
        BY <2>2, <2>4, <3>2, <4>1
      <4>3. q - 1 = Place(F, D, f)
        BY <2>3, <2>4, <4>1, <4>2
      <4> QED BY <2>1, <2>2, <2>4, <3>3, <3>5, <4>3
    <3> QED BY <3>3, <3>4, <3>5
  <2>5. CASE E[f].index # i
    <3>1. D[E[f].index] = C[E[f].index]
      BY <1>2, <2>2, <2>5
    <3> QED BY <2>1, <2>2, <2>3, <2>5, <3>1
  <2> QED BY <2>4, <2>5
<1>4. ASSUME NEW f \in DOMAIN F, NEW g \in DOMAIN F
      PROVE  Before(F, D, f, g) <=> Before(E, C, f, g)
  <2>1. F[f].index = E[f].index /\ F[g].index = E[g].index
    BY <1>2
  <2>2. ASSUME E[f].index = E[g].index
        PROVE  Place(F, D, f) < Place(F, D, g) <=> Place(E, C, f) < Place(E, C, g)
    <3>1. p \in Int
      BY <1>2
    <3> QED BY <1>3, <2>2, <3>1
  <2> QED BY <2>1, <2>2 DEF Before
<1> QED BY <1>4

\* The one after an entry in its chain, if there is one.
LEMMA NextInChain ==
    ASSUME NEW n \in Nat, NEW E, NEW C, Chained(E, C, n), NEW e \in DOMAIN E,
           NEW x, x = IF Place(E, C, e) = Len(C[E[e].index]) THEN NULL
                      ELSE C[E[e].index][Place(E, C, e) + 1]
    PROVE  \/ /\ x = NULL
              /\ \A f \in DOMAIN E : Before(E, C, e, f) <=> E[f].index > E[e].index
           \/ /\ x \in DOMAIN E /\ E[x].index = E[e].index
              /\ \A f \in DOMAIN E : Before(E, C, e, f) <=> f = x \/ Before(E, C, x, f)
<1>1. PICK i : i = E[e].index
  OBVIOUS
<1>2. PICK p : p = Place(E, C, e)
  OBVIOUS
<1>3. /\ i \in 0 .. n - 1 /\ C[i] \in Seq(DOMAIN E) /\ Len(C[i]) \in Nat
      /\ p \in 1 .. Len(C[i]) /\ C[i][p] = e
  BY <1>1, <1>2, PlaceOf
<1>4. \A f \in DOMAIN E : E[f].index \in Int /\ Place(E, C, f) \in Int
  BY PlaceOf
<1>5. \A f \in DOMAIN E : E[f].index = i =>
        Place(E, C, f) \in 1 .. Len(C[i]) /\ C[i][Place(E, C, f)] = f
  <2> TAKE f \in DOMAIN E
  <2>1. /\ Place(E, C, f) \in 1 .. Len(C[E[f].index])
        /\ C[E[f].index][Place(E, C, f)] = f
    BY PlaceOf
  <2> QED BY <2>1
<1>6. CASE p = Len(C[i])
  <2>1. x = NULL
    BY <1>1, <1>2, <1>6
  <2>2. ASSUME NEW f \in DOMAIN E
        PROVE  Before(E, C, e, f) <=> E[f].index > E[e].index
    BY <1>1, <1>2, <1>3, <1>4, <1>5, <1>6 DEF Before
  <2> QED BY <2>1, <2>2
<1>7. CASE p # Len(C[i])
  <2>1. p + 1 \in 1 .. Len(C[i]) /\ x = C[i][p + 1]
    BY <1>1, <1>2, <1>3, <1>7
  <2>2. x \in DOMAIN E /\ E[x].index = i
    <3>1. x \in DOMAIN E
      BY <1>3, <2>1, LenProperties
    <3> QED BY <1>3, <2>1, <3>1 DEF Chained
  <2>3. Place(E, C, x) = p + 1
    <3>1. \A y \in DOMAIN E : \A r \in 1 .. Len(C[E[y].index]) :
            C[E[y].index][r] = y => r = Place(E, C, y)
      BY PlaceOf
    <3>2. PICK y \in DOMAIN E : y = x
      BY <2>2
    <3>3. p + 1 \in 1 .. Len(C[E[y].index]) /\ C[E[y].index][p + 1] = y
      BY <2>1, <2>2, <3>2
    <3> QED BY <3>1, <3>2, <3>3
  <2>4. ASSUME NEW f \in DOMAIN E
        PROVE  Before(E, C, e, f) <=> f = x \/ Before(E, C, x, f)
    <3>1. CASE E[f].index = i
      <4>1. Place(E, C, f) = p + 1 => f = x
        BY <1>5, <2>1, <3>1
      <4>2. Before(E, C, e, f) <=> p < Place(E, C, f)
        BY <1>1, <1>2, <1>3, <3>1 DEF Before
      <4>3. Before(E, C, x, f) <=> p + 1 < Place(E, C, f)
        BY <1>3, <2>2, <2>3, <3>1 DEF Before
      <4>4. f = x => Place(E, C, f) = p + 1
        BY <2>3
      <4>5. p \in Int /\ Place(E, C, f) \in Int
        BY <1>3, <1>4
      <4> QED BY <4>1, <4>2, <4>3, <4>4, <4>5
    <3>2. CASE E[f].index # i
      BY <1>1, <2>2, <3>2 DEF Before
    <3> QED BY <3>1, <3>2
  <2> QED BY <1>1, <2>2, <2>4
<1> QED BY <1>6, <1>7

-----------------------------------------------------------------------------
(* The cursor *)

CursorOK(h) ==
    /\ h.cursor_index \in 0 .. limit(h) - 1
    /\ \/ h.cursor_entry = NULL
       \/ h.cursor_entry \in DOMAIN h.entry /\ h.entry[h.cursor_entry].index = h.cursor_index

\* The entries that hash_next has still to come to.
Ahead(h, e) ==
    IF h.cursor_entry = NULL THEN h.entry[e].index > h.cursor_index
    ELSE e = h.cursor_entry \/ Before(h.entry, h.entries, h.cursor_entry, e)

LoopOK(h, due, added) ==
    /\ CursorOK(h)
    /\ due \subseteq DOMAIN h.entry /\ added \subseteq DOMAIN h.entry
    /\ \A e \in DOMAIN h.entry : e \in due => Ahead(h, e)
    /\ \A e \in DOMAIN h.entry : Ahead(h, e) => e \in due \cup added

\* What hash_next does.
Moves(h, g, e) ==
    /\ IsTable(g) /\ g.prime_index = h.prime_index
    /\ g.entry = h.entry /\ g.entries = h.entries
    /\ \/ /\ e = NULL
          /\ \A f \in DOMAIN h.entry : ~ Ahead(h, f)
       \/ /\ e \in DOMAIN h.entry /\ Ahead(h, e) /\ CursorOK(g)
          /\ \A f \in DOMAIN h.entry : Ahead(g, f) <=> Ahead(h, f) /\ f # e

LEMMA NextMoves ==
    ASSUME NEW h, IsTable(h), CursorOK(h)
    PROVE  Moves(h, hash_next(h), next_entry(h))
<1>1. PICK n \in Nat \ {0} : n = limit(h)
  BY TableLimit
<1>2. PICK E : E = h.entry
  OBVIOUS
<1>3. PICK C : C = h.entries
  OBVIOUS
<1>4. PICK ci \in 0 .. n - 1 : ci = h.cursor_index
  BY <1>1 DEF CursorOK
<1>5. PICK ce : ce = h.cursor_entry
  OBVIOUS
<1>6. /\ EntriesOK(E, n) /\ Chained(E, C, n)
      /\ DOMAIN h = HashFields /\ NULL \notin DOMAIN E
      /\ ce = NULL \/ (ce \in DOMAIN E /\ E[ce].index = ci)
  BY <1>1, <1>2, <1>3, <1>4, <1>5, HashAssumption DEF IsTable, EntriesOK, CursorOK
<1> DEFINE later == {j \in ci + 1 .. n - 1 : C[j] # <<>>}
           first == CHOOSE j \in later : \A k \in later : j <= k
<1>7. next_entry(h) = IF ce # NULL THEN ce
                      ELSE IF later = {} THEN NULL ELSE Head(C[first])
  BY <1>1, <1>3, <1>4, <1>5 DEF next_entry
<1> DEFINE at(j, e) == [h EXCEPT !.cursor_index = j, !.cursor_entry = next_of(h, e)]
<1>8. hash_next(h) = IF ce # NULL THEN at(ci, ce)
                     ELSE IF later # {} THEN at(first, Head(C[first]))
                     ELSE [h EXCEPT !.cursor_index = n - 1]
  BY <1>1, <1>3, <1>4, <1>5 DEF hash_next
<1>9. \A f \in DOMAIN E : /\ E[f].index \in 0 .. n - 1 /\ C[E[f].index] # <<>>
                          /\ E[f].index > ci => E[f].index \in later
  <2> TAKE f \in DOMAIN E
  <2>1. /\ E[f].index \in 0 .. n - 1 /\ Len(C[E[f].index]) \in Nat
        /\ Place(E, C, f) \in 1 .. Len(C[E[f].index])
    BY <1>6, PlaceOf
  <2>2. Len(C[E[f].index]) # 0
    BY <2>1
  <2> QED BY <2>1, <2>2
\* An entry e is given, and all that are ahead are e and those after it.
<1>10. ASSUME NEW e \in DOMAIN E, NEW j, j = E[e].index, NEW g, g = at(j, e),
              \A f \in DOMAIN E : Ahead(h, f) <=> f = e \/ Before(E, C, e, f)
       PROVE  Moves(h, g, e)
  <2>1. PICK x : x = next_of(h, e)
    OBVIOUS
  <2>2. g = [h EXCEPT !.cursor_index = j, !.cursor_entry = x]
    BY <1>10, <2>1
  <2>3. /\ DOMAIN g = HashFields /\ g.cursor_index = j /\ g.cursor_entry = x
        /\ g.prime_index = h.prime_index /\ g.entry = E /\ g.entries = C
        /\ g.used_indexes_size = h.used_indexes_size /\ g.length = h.length
    BY <1>2, <1>3, <1>6, <2>2 DEF HashFields
  <2>4. limit(g) = n
    BY <1>1, <2>3 DEF limit
  <2>5. IsTable(g)
    BY <1>1, <1>2, <1>3, <2>3, <2>4, SMTT(40) DEF IsTable
  <2>6. x = IF Place(E, C, e) = Len(C[E[e].index]) THEN NULL
            ELSE C[E[e].index][Place(E, C, e) + 1]
    BY <1>2, <1>3, <2>1, SMTT(40) DEF next_of, place_of, Place
  <2>7. \/ /\ x = NULL
           /\ \A f \in DOMAIN E : Before(E, C, e, f) <=> E[f].index > E[e].index
        \/ /\ x \in DOMAIN E /\ E[x].index = E[e].index
           /\ \A f \in DOMAIN E : Before(E, C, e, f) <=> f = x \/ Before(E, C, x, f)
    <3>1. n \in Nat
      OBVIOUS
    <3> QED BY <1>6, <2>6, <3>1, NextInChain
  <2>8. CursorOK(g)
    <3>1. j \in 0 .. n - 1
      BY <1>9, <1>10
    <3> QED BY <1>10, <2>3, <2>4, <2>7, <3>1 DEF CursorOK
  <2>9. \A f \in DOMAIN E : Ahead(g, f) <=> Before(E, C, e, f)
    BY <1>6, <1>10, <2>3, <2>7 DEF Ahead
  <2>10. ~ Before(E, C, e, e)
    <3>1. E[e].index \in Int /\ Place(E, C, e) \in Int
      BY <1>6, PlaceOf
    <3> QED BY <3>1 DEF Before
  <2>11. \A f \in DOMAIN h.entry : Ahead(g, f) <=> Ahead(h, f) /\ f # e
    BY <1>2, <1>10, <2>9, <2>10
  <2>12. Ahead(h, e) /\ e \in DOMAIN h.entry
    BY <1>2, <1>10
  <2> QED BY <1>2, <1>3, <2>3, <2>5, <2>8, <2>11, <2>12 DEF Moves
<1>11. CASE ce # NULL
  <2>1. next_entry(h) = ce /\ hash_next(h) = at(ci, ce) /\ ce \in DOMAIN E /\ ci = E[ce].index
    BY <1>6, <1>7, <1>8, <1>11
  <2>2. \A f \in DOMAIN E : Ahead(h, f) <=> f = ce \/ Before(E, C, ce, f)
    BY <1>2, <1>3, <1>5, <1>11 DEF Ahead
  <2> HIDE DEF at
  <2> QED BY <1>10, <2>1, <2>2
<1>12. CASE ce = NULL /\ later # {}
  <2>1. PICK j \in later : j = first /\ \A k \in later : j <= k
    <3>1. later \in SUBSET Nat
      OBVIOUS
    <3>2. \E j \in later : \A k \in later : j <= k
      <4> HIDE DEF later
      <4> QED BY <1>12, <3>1, Smallest
    <3> HIDE DEF later
    <3> QED BY <3>2
  <2>2. j \in 0 .. n - 1 /\ j > ci /\ C[j] # <<>>
    BY <2>1
  <2>3. C[j] \in Seq(DOMAIN E)
    BY <1>6, <2>2 DEF Chained
  <2>4. PICK e : e = Head(C[j])
    OBVIOUS
  <2>5. /\ e \in DOMAIN E /\ e = C[j][1] /\ 1 \in 1 .. Len(C[j]) /\ Len(C[j]) \in Nat
    BY <2>2, <2>3, <2>4, HeadTailProperties, LenProperties
  <2>6. E[e].index = j
    BY <1>6, <2>2, <2>5 DEF Chained
  <2>7. Place(E, C, e) = 1
    <3>1. \A y \in DOMAIN E : \A r \in 1 .. Len(C[E[y].index]) :
            C[E[y].index][r] = y => r = Place(E, C, y)
      BY <1>6, PlaceOf
    <3> QED BY <2>5, <2>6, <3>1
  <2>8. ASSUME NEW f \in DOMAIN E
        PROVE  Ahead(h, f) <=> f = e \/ Before(E, C, e, f)
    <3>1. Ahead(h, f) <=> E[f].index > ci
      BY <1>2, <1>4, <1>5, <1>12 DEF Ahead
    <3>2. E[f].index \in 0 .. n - 1 /\ (E[f].index > ci => E[f].index >= j)
      BY <1>9, <2>1
    <3>3. /\ Place(E, C, f) \in Nat /\ Place(E, C, f) >= 1
          /\ C[E[f].index][Place(E, C, f)] = f
      BY <1>6, PlaceOf
    <3>4. CASE E[f].index = j
      <4>1. Place(E, C, f) = 1 => f = e
        BY <2>5, <3>3, <3>4
      <4> QED BY <2>2, <2>6, <2>7, <3>1, <3>3, <3>4, <4>1 DEF Before
    <3>5. CASE E[f].index # j
      <4>1. Before(E, C, e, f) <=> j < E[f].index
        BY <2>6, <3>5 DEF Before
      <4>2. f # e
        BY <2>6, <3>5
      <4> QED BY <2>2, <3>1, <3>2, <3>5, <4>1, <4>2
    <3> QED BY <3>4, <3>5
  <2>9. next_entry(h) = e /\ hash_next(h) = at(j, e)
    <3> HIDE DEF later, first, at
    <3> QED BY <1>7, <1>8, <1>12, <2>1, <2>4
  <2> HIDE DEF at, first, later
  <2> QED BY <1>10, <2>5, <2>6, <2>8, <2>9
<1>13. CASE ce = NULL /\ later = {}
  <2>1. PICK g : g = [h EXCEPT !.cursor_index = n - 1]
    OBVIOUS
  <2>2. next_entry(h) = NULL /\ hash_next(h) = g
    <3> HIDE DEF later
    <3> QED BY <1>7, <1>8, <1>13, <2>1
  <2>3. /\ DOMAIN g = HashFields
        /\ g.prime_index = h.prime_index /\ g.entry = E /\ g.entries = C
        /\ g.used_indexes_size = h.used_indexes_size /\ g.length = h.length
    BY <1>2, <1>3, <1>6, <2>1 DEF HashFields
  <2>4. limit(g) = n
    BY <1>1, <2>3 DEF limit
  <2>5. IsTable(g)
    BY <1>1, <1>2, <1>3, <2>3, <2>4 DEF IsTable
  <2>6. \A f \in DOMAIN E : ~ (E[f].index > ci)
    <3> HIDE DEF later
    <3> QED BY <1>9, <1>13
  <2>7. \A f \in DOMAIN h.entry : ~ Ahead(h, f)
    BY <1>2, <1>4, <1>5, <1>13, <2>6 DEF Ahead
  <2> QED BY <1>2, <1>3, <2>2, <2>3, <2>5, <2>7 DEF Moves
<1> QED BY <1>11, <1>12, <1>13

-----------------------------------------------------------------------------
(* Who owns a key *)

Used(E) == UNION {{E[e].key, E[e].value} : e \in DOMAIN E}

\* The keys of the entries exist; fr are objects that do not, and the values of
\* a set that are not the keys are among them.
Owns(E, fr, set) ==
    /\ fr \subseteq Used(E)
    /\ \A e \in DOMAIN E : E[e].key \notin fr
    /\ set => \A e \in DOMAIN E :
                /\ ContentOf(E[e].value) = ContentOf(E[e].key)
                /\ E[e].value \in fr <=> E[e].value # E[e].key

SameKeys(E, F) ==
    /\ DOMAIN F = DOMAIN E
    /\ \A e \in DOMAIN E : F[e].key = E[e].key /\ F[e].value = E[e].value

LEMMA OwnsSame ==
    ASSUME NEW E, NEW F, SameKeys(E, F), NEW fr, NEW set, Owns(E, fr, set)
    PROVE  Used(F) = Used(E) /\ Owns(F, fr, set) /\ fr \cap Used(F) = fr
<1>1. Used(F) = Used(E)
  BY DEF SameKeys, Used
<1> QED BY <1>1 DEF SameKeys, Owns

LEMMA OwnsAdd ==
    ASSUME NEW E, NEW F, NEW e, NEW k, NEW v, NEW fr, NEW set \in BOOLEAN, Owns(E, fr, set),
           e \notin DOMAIN E, DOMAIN F = DOMAIN E \cup {e},
           \A f \in DOMAIN E : F[f] = E[f],
           F[e].key = k, F[e].value = v, k \notin Used(E), set => v = k
    PROVE  Owns(F, fr \cap Used(F), set)
<1>1. Used(E) \subseteq Used(F)
  BY DEF Used
<1>2. fr \cap Used(F) = fr
  BY <1>1 DEF Owns
<1>3. k \notin fr
  BY DEF Owns
<1>4. fr \subseteq Used(F)
  BY <1>1 DEF Owns
<1>5. \A f \in DOMAIN F : F[f].key \notin fr
  BY <1>3 DEF Owns
<1>6. ASSUME set, NEW f \in DOMAIN F
      PROVE  /\ ContentOf(F[f].value) = ContentOf(F[f].key)
             /\ F[f].value \in fr <=> F[f].value # F[f].key
  <2>1. CASE f = e
    BY <1>3, <1>6, <2>1
  <2>2. CASE f # e
    BY <1>6, <2>2 DEF Owns
  <2> QED BY <2>1, <2>2
<1>7. Owns(F, fr, set)
  BY <1>4, <1>5, <1>6 DEF Owns
<1> QED BY <1>2, <1>7

\* F is E with the value v of e, for which k was handed over.
PutInto(E, F, e, k, v, set) ==
    /\ e \in DOMAIN E /\ DOMAIN F = DOMAIN E
    /\ \A f \in DOMAIN E : /\ F[f].key = E[f].key
                            /\ F[f].value = IF f = e THEN v ELSE E[f].value
    /\ k \notin Used(E)
    /\ set => v = k /\ ContentOf(E[e].key) = ContentOf(k)

LEMMA OwnsUpdate ==
    ASSUME NEW E, NEW F, NEW e, NEW k, NEW v, NEW fr, NEW set \in BOOLEAN,
           Owns(E, fr, set), PutInto(E, F, e, k, v, set)
    PROVE  Owns(F, (fr \cup {k}) \cap Used(F), set)
<1>0. /\ e \in DOMAIN E /\ DOMAIN F = DOMAIN E
      /\ \A f \in DOMAIN E : /\ F[f].key = E[f].key
                              /\ F[f].value = IF f = e THEN v ELSE E[f].value
      /\ k \notin Used(E)
      /\ set => v = k /\ ContentOf(E[e].key) = ContentOf(k)
  BY DEF PutInto
<1>1. \A f \in DOMAIN F : F[f].key \in Used(F) /\ F[f].value \in Used(F)
  BY DEF Used
<1>2. \A f \in DOMAIN E : E[f].key # k /\ E[f].value # k
  BY <1>0 DEF Used
<1>3. \A f \in DOMAIN F : F[f].key \notin fr \cup {k}
  BY <1>0, <1>2 DEF Owns
<1>4. ASSUME set, NEW f \in DOMAIN F
      PROVE  /\ ContentOf(F[f].value) = ContentOf(F[f].key)
             /\ F[f].value \in fr \cup {k} <=> F[f].value # F[f].key
  <2>1. CASE f = e
    BY <1>0, <1>2, <1>4, <2>1
  <2>2. CASE f # e
    BY <1>0, <1>2, <1>4, <2>2 DEF Owns
  <2> QED BY <2>1, <2>2
<1> QED BY <1>0, <1>1, <1>3, <1>4 DEF Owns

\* F is E without e, whose key was k.
LeftBy(E, F, e, k) ==
    /\ e \in DOMAIN E /\ k = E[e].key
    /\ DOMAIN F = DOMAIN E \ {e} /\ \A f \in DOMAIN F : F[f] = E[f]
    /\ \A f \in DOMAIN E : f # e => ContentOf(E[f].key) # ContentOf(k)

LEMMA OwnsDelete ==
    ASSUME NEW E, NEW F, NEW e, NEW k, NEW fr, NEW set \in BOOLEAN, Owns(E, fr, set),
           LeftBy(E, F, e, k)
    PROVE  Owns(F, (fr \cup {k}) \cap Used(F), set)
<1>0. /\ e \in DOMAIN E /\ k = E[e].key
      /\ DOMAIN F = DOMAIN E \ {e} /\ \A f \in DOMAIN F : F[f] = E[f] /\ f \in DOMAIN E
      /\ \A f \in DOMAIN E : f # e => ContentOf(E[f].key) # ContentOf(k)
  BY DEF LeftBy
<1>1. \A f \in DOMAIN F : F[f].key \in Used(F) /\ F[f].value \in Used(F)
  BY DEF Used
<1>2. \A f \in DOMAIN F : F[f].key \notin fr \cup {k}
  BY <1>0 DEF Owns
<1>3. ASSUME set, NEW f \in DOMAIN F
      PROVE  /\ ContentOf(F[f].value) = ContentOf(F[f].key)
             /\ F[f].value \in fr \cup {k} <=> F[f].value # F[f].key
  <2>1. f \in DOMAIN E /\ f # e /\ F[f] = E[f]
    BY <1>0
  <2>2. /\ ContentOf(E[f].value) = ContentOf(E[f].key)
        /\ E[f].value \in fr <=> E[f].value # E[f].key
    BY <1>3, <2>1 DEF Owns
  <2>3. E[f].value # k
    BY <1>0, <2>1, <2>2
  <2> QED BY <1>0, <2>1, <2>2, <2>3
<1> QED BY <1>1, <1>2, <1>3 DEF Owns

-----------------------------------------------------------------------------
(* The invariant *)

LoopInv ==
    /\ loop.is \in {"no", "going", "ended"}
    /\ loop.is = "going" => LoopOK(hash, loop.due, loop.added)
    /\ loop.is = "ended" => loop.due = {}

HashInv ==
    /\ IsTable(hash)
    /\ LoopInv
    /\ is_set \in BOOLEAN
    /\ Owns(hash.entry, freed, is_set)

\* What a call leaves is the table that it made, but perhaps for the cursor.
LEMMA LeavesTable ==
    ASSUME NEW g, IsTable(g), NEW is, Leaves(g, is)
    PROVE  /\ IsTable(hash') /\ hash'.entry = g.entry /\ hash'.entries = g.entries
           /\ hash'.prime_index = g.prime_index
           /\ is = "going" => hash' = g
<1>1. CASE is = "going"
  BY <1>1 DEF Leaves
<1>2. CASE is # "going"
  <2>1. PICK h : h = hash'
    OBVIOUS
  <2>2. h = [g EXCEPT !.cursor_index = 0, !.cursor_entry = NULL] /\ DOMAIN g = HashFields
    BY <1>2, <2>1 DEF Leaves, IsTable
  <2>3. /\ DOMAIN h = HashFields
        /\ h.prime_index = g.prime_index /\ h.entry = g.entry /\ h.entries = g.entries
        /\ h.used_indexes_size = g.used_indexes_size /\ h.length = g.length
    BY <2>2 DEF HashFields
  <2>4. limit(h) = limit(g)
    BY <2>3 DEF limit
  <2>5. IsTable(h)
    BY <2>3, <2>4 DEF IsTable
  <2> QED BY <1>2, <2>1, <2>3, <2>5
<1> QED BY <1>1, <1>2

\* A loop goes on in the table g, unless nothing is promised about it.
KeepsLoop(g) ==
    loop.is = "going" /\ g.prime_index = hash.prime_index
      /\ g.cursor_entry \in DOMAIN g.entry \cup {NULL} =>
      LoopOK(g, loop.due \cap DOMAIN g.entry,
             (loop.added \cap DOMAIN g.entry) \cup (DOMAIN g.entry \ DOMAIN hash.entry))

LEMMA ReturnsKeeps ==
    ASSUME IsTable(hash), NEW g, IsTable(g), NEW ks, NEW r, Returns(g, ks, r), KeepsLoop(g),
           Owns(g.entry, (freed \cup ks) \cap Used(g.entry), is_set),
           is_set \in BOOLEAN, UNCHANGED is_set
    PROVE  HashInv'
<1> DEFINE left == DOMAIN g.entry
           lost == g.prime_index # hash.prime_index \/ g.cursor_entry \notin left \cup {NULL}
<1>1. PICK is : is = IF loop.is = "going" /\ ~ lost THEN "going" ELSE "no"
  OBVIOUS
<1>2. /\ Leaves(g, is)
      /\ freed' = (freed \cup ks) \cap Used(g.entry)
      /\ loop' = IF is = "no" THEN Loop("no", {}, {})
                 ELSE Loop(is, loop.due \cap left,
                           (loop.added \cap left) \cup (left \ DOMAIN hash.entry))
  BY <1>1 DEF Returns, Used
<1>3. /\ IsTable(hash') /\ hash'.entry = g.entry /\ (is = "going" => hash' = g)
  BY <1>2, LeavesTable
<1>4. Owns(hash'.entry, freed', is_set')
  BY <1>2, <1>3
<1>5. LoopInv'
  <2>1. CASE is = "going"
    <3>1. loop' = Loop(is, loop.due \cap left,
                       (loop.added \cap left) \cup (left \ DOMAIN hash.entry))
      BY <1>2, <2>1
    <3>2. /\ loop'.is = "going" /\ loop'.due = loop.due \cap left
          /\ loop'.added = (loop.added \cap left) \cup (left \ DOMAIN hash.entry)
      BY <2>1, <3>1 DEF Loop
    <3>3. LoopOK(g, loop'.due, loop'.added)
      BY <1>1, <2>1, <3>2 DEF KeepsLoop
    <3> QED BY <1>3, <2>1, <3>2, <3>3 DEF LoopInv
  <2>2. CASE is = "no"
    BY <1>2, <2>2 DEF Loop, LoopInv
  <2> QED BY <1>1, <2>1, <2>2
<1> QED BY <1>3, <1>4, <1>5 DEF HashInv

-----------------------------------------------------------------------------
(* The calls keep a loop *)

\* The same table.
LEMMA SameKeepsLoop == ASSUME HashInv PROVE KeepsLoop(hash)
<1> SUFFICES ASSUME loop.is = "going"
             PROVE  LoopOK(hash, loop.due \cap DOMAIN hash.entry,
                           (loop.added \cap DOMAIN hash.entry)
                             \cup (DOMAIN hash.entry \ DOMAIN hash.entry))
  BY DEF KeepsLoop
<1>1. LoopOK(hash, loop.due, loop.added)
  BY DEF HashInv, LoopInv
<1>2. /\ loop.due \cap DOMAIN hash.entry = loop.due
      /\ (loop.added \cap DOMAIN hash.entry) \cup (DOMAIN hash.entry \ DOMAIN hash.entry)
           = loop.added
  BY <1>1 DEF LoopOK
<1> QED BY <1>1, <1>2

\* The entries, but for their order, of a table that has a loop going on.
LEMMA CursorStays ==
    ASSUME NEW h, NEW g, CursorOK(h), SameCursor(h, g), limit(g) = limit(h),
           g.cursor_entry \in DOMAIN g.entry \cup {NULL},
           \A e \in DOMAIN g.entry \cap DOMAIN h.entry : g.entry[e].index = h.entry[e].index,
           \A e, f \in DOMAIN g.entry \cap DOMAIN h.entry :
             Before(g.entry, g.entries, e, f) <=> Before(h.entry, h.entries, e, f)
    PROVE  /\ CursorOK(g)
           /\ \A e \in DOMAIN g.entry \cap DOMAIN h.entry : Ahead(g, e) <=> Ahead(h, e)
<1>1. g.cursor_entry = NULL \/ g.cursor_entry \in DOMAIN g.entry \cap DOMAIN h.entry
  BY DEF CursorOK, SameCursor
<1>2. CursorOK(g)
  BY <1>1 DEF CursorOK, SameCursor
<1>3. ASSUME NEW e \in DOMAIN g.entry \cap DOMAIN h.entry
      PROVE  Ahead(g, e) <=> Ahead(h, e)
  <2>1. CASE g.cursor_entry = NULL
    BY <2>1 DEF Ahead, SameCursor
  <2>2. CASE g.cursor_entry # NULL
    BY <1>1, <2>2 DEF Ahead, SameCursor
  <2> QED BY <2>1, <2>2
<1> QED BY <1>2, <1>3

\* So it is enough that the order stays as it is.
LEMMA OrderKeepsLoop ==
    ASSUME HashInv, NEW g, SameCursor(hash, g),
           \A e \in DOMAIN g.entry \cap DOMAIN hash.entry :
             g.entry[e].index = hash.entry[e].index,
           \A e, f \in DOMAIN g.entry \cap DOMAIN hash.entry :
             Before(g.entry, g.entries, e, f) <=> Before(hash.entry, hash.entries, e, f)
    PROVE  KeepsLoop(g)
<1> DEFINE left == DOMAIN g.entry
           due == loop.due \cap left
           added == (loop.added \cap left) \cup (left \ DOMAIN hash.entry)
<1> SUFFICES ASSUME loop.is = "going", g.prime_index = hash.prime_index,
                    g.cursor_entry \in left \cup {NULL}
             PROVE  LoopOK(g, due, added)
  BY DEF KeepsLoop
<1>1. LoopOK(hash, loop.due, loop.added)
  BY DEF HashInv, LoopInv
<1>2. limit(g) = limit(hash)
  BY DEF limit
<1>3. /\ CursorOK(g)
      /\ \A e \in left \cap DOMAIN hash.entry : Ahead(g, e) <=> Ahead(hash, e)
  BY <1>1, <1>2, CursorStays DEF LoopOK
<1>4. loop.due \subseteq DOMAIN hash.entry
  BY <1>1 DEF LoopOK
<1>5. \A e \in left : e \in due => Ahead(g, e)
  BY <1>1, <1>3, <1>4 DEF LoopOK
<1>6. \A e \in left : Ahead(g, e) => e \in due \cup added
  BY <1>1, <1>3 DEF LoopOK
<1> QED BY <1>3, <1>5, <1>6 DEF LoopOK

LEMMA AddedKeepsLoop ==
    ASSUME HashInv, NEW g, NEW e, NEW k, NEW v, Added(hash, g, e, k, v)
    PROVE  KeepsLoop(g)
<1>1. PICK n \in Nat \ {0} : n = limit(hash)
  BY TableLimit DEF HashInv
<1>2. n \in Nat /\ Chained(hash.entry, hash.entries, n)
  BY <1>1 DEF HashInv, IsTable
<1>3. PICK i : i = g.entry[e].index
  OBVIOUS
<1>4. PushedTo(hash.entry, hash.entries, g.entry, g.entries, e, i)
  BY <1>3 DEF Added, PushedTo
<1>5. i \in 0 .. n - 1
  <2>1. limit(g) = n /\ e \in DOMAIN g.entry /\ Chained(g.entry, g.entries, limit(g))
    BY <1>1 DEF Added, limit, IsTable
  <2> QED BY <1>3, <2>1 DEF Chained
<1>6. \A f1, f2 \in DOMAIN hash.entry :
        Before(g.entry, g.entries, f1, f2) <=> Before(hash.entry, hash.entries, f1, f2)
  BY <1>2, <1>4, <1>5, PushedKeepsOrder
<1>7. \A f \in DOMAIN g.entry \cap DOMAIN hash.entry :
        g.entry[f].index = hash.entry[f].index
  BY DEF Added
<1>8. SameCursor(hash, g)
  BY DEF Added
<1> QED BY <1>6, <1>7, <1>8, OrderKeepsLoop

LEMMA DeletedKeepsLoop ==
    ASSUME HashInv, NEW g, NEW e, Deleted(hash, g, e)
    PROVE  KeepsLoop(g)
<1>1. PICK n \in Nat \ {0} : n = limit(hash)
  BY TableLimit DEF HashInv
<1>2. n \in Nat /\ Chained(hash.entry, hash.entries, n)
  BY <1>1 DEF HashInv, IsTable
<1>3. TakenFrom(hash.entry, hash.entries, g.entry, g.entries, e, hash.entry[e].index,
                Place(hash.entry, hash.entries, e))
  BY DEF Deleted
<1>4. \A f1, f2 \in DOMAIN g.entry :
        Before(g.entry, g.entries, f1, f2) <=> Before(hash.entry, hash.entries, f1, f2)
  BY <1>2, <1>3, TakenKeepsOrder
<1>5. \A f \in DOMAIN g.entry \cap DOMAIN hash.entry :
        g.entry[f].index = hash.entry[f].index
  BY <1>3 DEF TakenFrom
<1>6. SameCursor(hash, g)
  BY DEF Deleted
<1> QED BY <1>4, <1>5, <1>6, OrderKeepsLoop

LEMMA UpdatedKeepsLoop ==
    ASSUME HashInv, NEW g, NEW e, NEW v, Updated(hash, g, e, v)
    PROVE  KeepsLoop(g)
<1>1. /\ SameCursor(hash, g) /\ g.entries = hash.entries
      /\ \A f \in DOMAIN g.entry \cap DOMAIN hash.entry :
           g.entry[f].index = hash.entry[f].index
  BY SMTT(40) DEF Updated
<1>2. \A f \in DOMAIN g.entry \cap DOMAIN hash.entry :
        Place(g.entry, g.entries, f) = Place(hash.entry, hash.entries, f)
  BY <1>1 DEF Place
<1>3. \A f1, f2 \in DOMAIN g.entry \cap DOMAIN hash.entry :
        Before(g.entry, g.entries, f1, f2) <=> Before(hash.entry, hash.entries, f1, f2)
  BY <1>1, <1>2 DEF Before
<1> QED BY <1>1, <1>3, OrderKeepsLoop

-----------------------------------------------------------------------------
(* The calls *)

LEMMA GrownIs ==
    ASSUME IsTable(hash), Room
    PROVE  /\ IsTable(Grown) /\ SameKeys(hash.entry, Grown.entry)
           /\ Grown = hash \/ Rehashed(hash, Grown)
<1>1. CASE hash_is_overload(hash)
  <2>1. Rehashed(hash, Grown)
    BY <1>1, RehashIs DEF Room, Grown
  <2> QED BY <2>1 DEF Rehashed, SameKeys
<1>2. CASE ~ hash_is_overload(hash)
  BY <1>2 DEF Grown, SameKeys
<1> QED BY <1>1, <1>2

\* A rehash ends what is promised of a loop.
LEMMA RehashedKeepsLoop ==
    ASSUME IsTable(hash), NEW g, g.prime_index = hash.prime_index + 1
    PROVE  KeepsLoop(g)
<1>1. hash.prime_index \in Int
  BY LimitType DEF IsTable
<1> QED BY <1>1 DEF KeepsLoop

\* hash_set for a key that has no entry.
LEMMA SetNewKeeps ==
    ASSUME HashInv, NEW k \in Keys, NEW v \in Keys \cup HashValues, is_set => v = k,
           New(k), Room, Finds(Grown.entry, ContentOf(k), NULL),
           NEW r, Returns(set_entry(Grown, k, v), {}, r), UNCHANGED is_set
    PROVE  HashInv'
<1>1. IsTable(hash) /\ Owns(hash.entry, freed, is_set) /\ is_set \in BOOLEAN
  BY DEF HashInv
<1>2. PICK G : G = Grown
  OBVIOUS
<1>3. /\ IsTable(G) /\ SameKeys(hash.entry, G.entry)
      /\ G = hash \/ Rehashed(hash, G)
  BY <1>1, <1>2, GrownIs
<1>4. DOMAIN G.entry # Entries
  BY <1>3 DEF Room, SameKeys
<1>5. PICK g : g = set_entry(G, k, v)
  OBVIOUS
<1>6. PICK e : Added(G, g, e, k, v)
  BY <1>2, <1>3, <1>4, <1>5, SetEntryAdds
<1>7. KeepsLoop(g)
  <2>1. CASE G = hash
    BY <1>6, <2>1, AddedKeepsLoop
  <2>2. CASE Rehashed(hash, G)
    <3>1. g.prime_index = hash.prime_index + 1
      BY <1>6, <2>2 DEF Added, Rehashed
    <3> QED BY <1>1, <3>1, RehashedKeepsLoop
  <2> QED BY <1>3, <2>1, <2>2
<1>8. Owns(g.entry, (freed \cup {}) \cap Used(g.entry), is_set)
  <2>1. PICK F : F = g.entry
    OBVIOUS
  <2>2. PICK E : E = G.entry
    OBVIOUS
  <2>3. Owns(E, freed, is_set) /\ Used(E) = Used(hash.entry)
    BY <1>1, <1>3, <2>2, OwnsSame
  <2>4. k \notin Used(E)
    BY <2>3 DEF New, Used
  <2>5. /\ e \notin DOMAIN E /\ DOMAIN F = DOMAIN E \cup {e}
        /\ \A f \in DOMAIN E : F[f] = E[f]
        /\ F[e].key = k /\ F[e].value = v
    BY <1>6, <2>1, <2>2 DEF Added
  <2>6. Owns(F, freed \cap Used(F), is_set)
    BY <1>1, <2>3, <2>4, <2>5, OwnsAdd, SMTT(40)
  <2> QED BY <2>1, <2>6
<1>9. IsTable(g) /\ Returns(g, {}, r)
  BY <1>2, <1>5, <1>6 DEF Added
<1> QED BY <1>1, <1>7, <1>8, <1>9, ReturnsKeeps

\* A call that changes no key and no value.
LEMMA ReadKeeps ==
    ASSUME HashInv, NEW G, IsTable(G), SameKeys(hash.entry, G.entry),
           G = hash \/ Rehashed(hash, G),
           NEW r, Returns(G, {}, r), UNCHANGED is_set
    PROVE  HashInv'
<1>1. IsTable(hash) /\ Owns(hash.entry, freed, is_set) /\ is_set \in BOOLEAN
  BY DEF HashInv
<1>2. KeepsLoop(G)
  <2>1. CASE G = hash
    BY <2>1, SameKeepsLoop
  <2>2. CASE Rehashed(hash, G)
    BY <1>1, <2>2, RehashedKeepsLoop DEF Rehashed
  <2> QED BY <2>1, <2>2
<1>3. Owns(G.entry, (freed \cup {}) \cap Used(G.entry), is_set)
  <2>1. Owns(G.entry, freed, is_set) /\ freed \cap Used(G.entry) = freed
    BY <1>1, OwnsSame
  <2> QED BY <2>1
<1> QED BY <1>1, <1>2, <1>3, ReturnsKeeps

LEMMA SetKeeps ==
    ASSUME HashInv, NEW k \in Keys, NEW v \in Keys \cup HashValues, is_set => v = k,
           Set(k, v), UNCHANGED is_set
    PROVE  HashInv'
<1>1. IsTable(hash) /\ NULL \notin DOMAIN Grown.entry
  <2>1. IsTable(hash) /\ IsTable(Grown)
    BY GrownIs DEF HashInv, Set
  <2> QED BY <2>1, HashAssumption DEF IsTable, EntriesOK
<1>2. New(k) /\ Room
  BY DEF Set
<1>3. /\ IsTable(Grown) /\ SameKeys(hash.entry, Grown.entry)
      /\ Grown = hash \/ Rehashed(hash, Grown)
  BY <1>1, <1>2, GrownIs
<1>4. Finds(Grown.entry, ContentOf(k), hash_get_entry(Grown, k))
  BY <1>3, GetEntryFinds
<1>5. CASE hash_get_entry(Grown, k) = NULL
  <2>1. Returns(set_entry(Grown, k, v), {}, Dict!Answer(1))
    BY <1>5 DEF Set
  <2>2. Finds(Grown.entry, ContentOf(k), NULL)
    BY <1>4, <1>5
  <2> QED BY <1>2, <2>1, <2>2, SetNewKeeps
<1>6. CASE hash_get_entry(Grown, k) # NULL
  <2>1. Returns(Grown, {}, Dict!Answer(0))
    BY <1>6 DEF Set
  <2> QED BY <1>3, <2>1, ReadKeeps
<1> QED BY <1>5, <1>6

LEMMA PutKeeps ==
    ASSUME HashInv, NEW k \in Keys, NEW v \in Keys \cup HashValues, is_set => v = k,
           Put(k, v), UNCHANGED is_set
    PROVE  HashInv'
<1>1. IsTable(hash) /\ Owns(hash.entry, freed, is_set) /\ is_set \in BOOLEAN
  BY DEF HashInv
<1>2. New(k) /\ Room
  BY DEF Put
<1>3. PICK e : e = hash_get_entry(hash, k)
  OBVIOUS
<1>4. Finds(hash.entry, ContentOf(k), e)
  BY <1>1, <1>3, GetEntryFinds
<1>5. NULL \notin DOMAIN hash.entry
  BY <1>1, HashAssumption DEF IsTable, EntriesOK
<1>6. CASE e = NULL
  <2>1. Returns(set_entry(Grown, k, v), {}, Dict!Answer(NULL))
    BY <1>3, <1>6 DEF Put
  <2>2. Finds(Grown.entry, ContentOf(k), NULL)
    <3>1. SameKeys(hash.entry, Grown.entry)
      BY <1>1, <1>2, GrownIs
    <3> QED BY <1>4, <1>5, <1>6, <3>1 DEF Finds, SameKeys
  <2> QED BY <1>2, <2>1, <2>2, SetNewKeeps
<1>7. CASE e # NULL
  <2>1. e \in DOMAIN hash.entry /\ ContentOf(hash.entry[e].key) = ContentOf(k)
    BY <1>4, <1>7 DEF Finds
  <2>2. PICK g : g = [hash EXCEPT !.entry[e].value = v]
    OBVIOUS
  <2>3. Returns(g, {k}, Dict!Answer(NULL))
    BY <1>3, <1>7, <2>2 DEF Put
  <2>4. Updated(hash, g, e, v)
    BY <1>1, <2>1, <2>2, PutUpdates
  <2>5. KeepsLoop(g)
    BY <2>4, UpdatedKeepsLoop
  <2>6. Owns(g.entry, (freed \cup {k}) \cap Used(g.entry), is_set)
    <3>1. PICK F : F = g.entry
      OBVIOUS
    <3>2. PICK E : E = hash.entry
      OBVIOUS
    <3>3. k \notin Used(E)
      BY <1>2, <3>2 DEF New, Used
    <3>4. /\ DOMAIN F = DOMAIN E
          /\ \A f \in DOMAIN E : /\ F[f].key = E[f].key
                                 /\ F[f].value = IF f = e THEN v ELSE E[f].value
      BY <2>4, <3>1, <3>2 DEF Updated
    <3>5. Owns(F, (freed \cup {k}) \cap Used(F), is_set)
      <4>1. PutInto(E, F, e, k, v, is_set)
        BY <2>1, <3>2, <3>3, <3>4 DEF PutInto
      <4>2. Owns(E, freed, is_set)
        BY <1>1, <3>2
      <4> QED BY <1>1, <4>1, <4>2, OwnsUpdate
    <3> QED BY <3>1, <3>5
  <2>7. IsTable(g)
    BY <2>4 DEF Updated
  <2> QED BY <1>1, <2>3, <2>5, <2>6, <2>7, ReturnsKeeps
<1> QED BY <1>6, <1>7

LEMMA DeleteKeeps ==
    ASSUME HashInv, NEW k \in Keys, Delete(k), UNCHANGED is_set
    PROVE  HashInv'
<1>1. IsTable(hash) /\ Owns(hash.entry, freed, is_set) /\ is_set \in BOOLEAN
  BY DEF HashInv
<1>2. PICK e : e = hash_get_entry(hash, k)
  OBVIOUS
<1>3. Finds(hash.entry, ContentOf(k), e)
  BY <1>1, <1>2, GetEntryFinds
<1>4. CASE e = NULL
  <2>1. Returns(hash, {}, Dict!Answer(0)) /\ SameKeys(hash.entry, hash.entry)
    BY <1>2, <1>4 DEF Delete, SameKeys
  <2> QED BY <1>1, <2>1, ReadKeeps
<1>5. CASE e # NULL
  <2>1. e \in DOMAIN hash.entry
    BY <1>3, <1>5 DEF Finds
  <2>2. PICK g : g = hash_delete_entry(hash, e)
    OBVIOUS
  <2>3. Returns(g, {hash.entry[e].key}, Dict!Answer(1))
    BY <1>2, <1>5, <2>2 DEF Delete
  <2>4. Deleted(hash, g, e)
    BY <1>1, <2>1, <2>2, DeleteEntryDeletes
  <2>5. KeepsLoop(g)
    BY <2>4, DeletedKeepsLoop
  <2>6. Owns(g.entry, (freed \cup {hash.entry[e].key}) \cap Used(g.entry), is_set)
    <3>1. PICK F : F = g.entry
      OBVIOUS
    <3>2. PICK E : E = hash.entry
      OBVIOUS
    <3>3. DOMAIN F = DOMAIN E \ {e} /\ \A f \in DOMAIN F : F[f] = E[f]
      BY <2>4, <3>1, <3>2 DEF Deleted, TakenFrom
    <3>4. \A f \in DOMAIN E : f # e => ContentOf(E[f].key) # ContentOf(E[e].key)
      BY <1>1, <2>1, <3>2 DEF IsTable, EntriesOK
    <3>5. LeftBy(E, F, e, hash.entry[e].key)
      BY <2>1, <3>2, <3>3, <3>4 DEF LeftBy
    <3>6. Owns(E, freed, is_set)
      BY <1>1, <3>2
    <3>7. Owns(F, (freed \cup {hash.entry[e].key}) \cap Used(F), is_set)
      BY <1>1, <3>5, <3>6, OwnsDelete
    <3> QED BY <3>1, <3>7
  <2>7. IsTable(g)
    BY <2>4 DEF Deleted
  <2> QED BY <1>1, <2>3, <2>5, <2>6, <2>7, ReturnsKeeps
<1> QED BY <1>4, <1>5

LEMMA PurgeKeeps == ASSUME HashInv, HashPurge, UNCHANGED is_set PROVE HashInv'
<1>1. /\ IsTable(hash') /\ hash'.entry = make_hash.entry
  BY MadeIsTable, LeavesTable DEF HashPurge
<1>2. DOMAIN hash'.entry = {}
  BY <1>1, MadeIsTable
<1>3. freed' = {} /\ loop' = Loop("no", {}, {})
  BY DEF HashPurge
<1>4. LoopInv'
  BY <1>3 DEF Loop, LoopInv
<1>5. Owns(hash'.entry, freed', is_set')
  BY <1>2, <1>3 DEF Owns
<1> QED BY <1>1, <1>4, <1>5 DEF HashInv

\* A step of a loop: the entry that it gives was due, or is new.
LEMMA VisitKeeps ==
    ASSUME HashInv, NEW G, IsTable(G), G.entry = hash.entry, NEW due, NEW added,
           LoopOK(G, due, added), Visit(G, due, added), UNCHANGED is_set
    PROVE  /\ HashInv' /\ hash'.entry = hash.entry
           /\ next_entry(G) = NULL \/ next_entry(G) \in DOMAIN hash.entry
<1>1. PICK e : e = next_entry(G)
  OBVIOUS
<1>2. PICK g : g = hash_next(G)
  OBVIOUS
<1>3. Moves(G, g, e)
  BY <1>1, <1>2, NextMoves DEF LoopOK
<1>4. IsTable(g) /\ g.entry = hash.entry
  BY <1>3 DEF Moves
<1>5. PICK is : is = CASE e = NULL -> "ended"
                       [] e # NULL /\ e \in due \cup added -> "going"
                       [] OTHER -> "twice"
  OBVIOUS
<1>6. /\ Leaves(g, is) /\ UNCHANGED freed
      /\ loop' = Loop(is, due \ {e}, IF e = NULL THEN {} ELSE added \ {e})
  BY <1>1, <1>2, <1>5 DEF Visit
<1>7. /\ IsTable(hash') /\ hash'.entry = hash.entry /\ (is = "going" => hash' = g)
  BY <1>4, <1>6, LeavesTable
<1>8. NULL \notin DOMAIN hash.entry
  BY HashAssumption DEF HashInv, IsTable, EntriesOK
<1>9. /\ due \subseteq DOMAIN hash.entry /\ added \subseteq DOMAIN hash.entry
      /\ \A f \in DOMAIN hash.entry : f \in due => Ahead(G, f)
      /\ \A f \in DOMAIN hash.entry : Ahead(G, f) => f \in due \cup added
  BY DEF LoopOK
<1>10. CASE e = NULL
  <2>1. is = "ended"
    BY <1>5, <1>10
  <2>2. due = {}
    BY <1>3, <1>8, <1>9, <1>10 DEF Moves
  <2>3. loop'.is = "ended" /\ loop'.due = {}
    BY <1>6, <2>1, <2>2 DEF Loop
  <2>4. LoopInv'
    BY <2>3 DEF LoopInv
  <2> QED BY <1>1, <1>6, <1>7, <1>10, <2>4 DEF HashInv
<1>11. CASE e # NULL
  <2>1. /\ e \in DOMAIN hash.entry /\ Ahead(G, e) /\ CursorOK(g)
        /\ \A f \in DOMAIN hash.entry : Ahead(g, f) <=> Ahead(G, f) /\ f # e
    BY <1>3, <1>11 DEF Moves
  <2>2. e \in due \cup added
    BY <1>9, <2>1
  <2>3. is = "going"
    BY <1>5, <1>11, <2>2
  <2>4. loop'.is = "going" /\ loop'.due = due \ {e} /\ loop'.added = added \ {e}
    BY <1>6, <1>11, <2>3 DEF Loop
  <2>5. LoopOK(g, due \ {e}, added \ {e})
    BY <1>4, <1>9, <2>1 DEF LoopOK
  <2>6. LoopInv'
    BY <1>7, <2>3, <2>4, <2>5 DEF LoopInv
  <2> QED BY <1>1, <1>6, <1>7, <2>1, <2>6 DEF HashInv
<1> QED BY <1>10, <1>11

\* hash_first: all entries are ahead.
LEMMA FirstIs ==
    ASSUME IsTable(hash), NEW G,
           G = [hash EXCEPT !.cursor_index = 0,
                  !.cursor_entry = IF hash.entries[0] = <<>> THEN NULL
                                   ELSE Head(hash.entries[0])]
    PROVE  IsTable(G) /\ G.entry = hash.entry /\ LoopOK(G, DOMAIN hash.entry, {})
<1>1. PICK n \in Nat \ {0} : n = limit(hash)
  BY TableLimit
<1>2. PICK E : E = hash.entry
  OBVIOUS
<1>3. PICK C : C = hash.entries
  OBVIOUS
<1>4. PICK ce : ce = IF C[0] = <<>> THEN NULL ELSE Head(C[0])
  OBVIOUS
<1>5. /\ EntriesOK(E, n) /\ Chained(E, C, n)
      /\ DOMAIN hash = HashFields /\ NULL \notin DOMAIN E
  BY <1>1, <1>2, <1>3, HashAssumption DEF IsTable, EntriesOK
<1>6. /\ DOMAIN G = HashFields /\ G.cursor_index = 0 /\ G.cursor_entry = ce
      /\ G.prime_index = hash.prime_index /\ G.entry = E /\ G.entries = C
      /\ G.used_indexes_size = hash.used_indexes_size /\ G.length = hash.length
  <2>1. G = [hash EXCEPT !.cursor_index = 0, !.cursor_entry = ce]
    BY <1>3, <1>4
  <2> QED BY <1>2, <1>3, <1>5, <2>1 DEF HashFields
<1>7. limit(G) = n
  BY <1>1, <1>6 DEF limit
<1>8. IsTable(G)
  BY <1>1, <1>2, <1>3, <1>6, <1>7 DEF IsTable
<1>9. 0 \in 0 .. n - 1 /\ C[0] \in Seq(DOMAIN E)
  BY <1>5 DEF Chained
<1>10. \A f \in DOMAIN E : /\ E[f].index \in 0 .. n - 1
                           /\ Place(E, C, f) \in 1 .. Len(C[E[f].index])
                           /\ Len(C[E[f].index]) \in Nat
                           /\ C[E[f].index][Place(E, C, f)] = f
  BY <1>5, PlaceOf
<1>11. CASE C[0] = <<>>
  <2>1. ce = NULL
    BY <1>4, <1>11
  <2>2. CursorOK(G)
    BY <1>6, <1>7, <1>9, <2>1 DEF CursorOK
  <2>3. \A f \in DOMAIN E : E[f].index > 0
    <3> TAKE f \in DOMAIN E
    <3>1. Len(C[0]) = 0
      BY <1>11
    <3>2. E[f].index # 0
      BY <1>10, <3>1
    <3> QED BY <1>10, <3>2
  <2>4. \A f \in DOMAIN E : Ahead(G, f)
    BY <1>6, <2>1, <2>3 DEF Ahead
  <2> QED BY <1>2, <1>6, <1>8, <2>2, <2>4 DEF LoopOK
<1>12. CASE C[0] # <<>>
  <2>1. ce \in DOMAIN E /\ ce = C[0][1] /\ 1 \in 1 .. Len(C[0])
    BY <1>4, <1>9, <1>12, HeadTailProperties, LenProperties
  <2>2. E[ce].index = 0
    BY <1>5, <1>9, <2>1 DEF Chained
  <2>3. Place(E, C, ce) = 1
    <3>1. \A y \in DOMAIN E : \A r \in 1 .. Len(C[E[y].index]) :
            C[E[y].index][r] = y => r = Place(E, C, y)
      BY <1>5, PlaceOf, SMTT(40)
    <3> QED BY <2>1, <2>2, <3>1
  <2>4. CursorOK(G)
    BY <1>6, <1>7, <1>9, <2>1, <2>2 DEF CursorOK
  <2>5. ASSUME NEW f \in DOMAIN E PROVE f = ce \/ Before(E, C, ce, f)
    <3>1. CASE E[f].index = 0
      <4>1. Place(E, C, f) \in Nat /\ Place(E, C, f) >= 1
        BY <1>10
      <4>2. Place(E, C, f) = 1 => f = ce
        BY <1>10, <2>1, <3>1
      <4> QED BY <2>2, <2>3, <3>1, <4>1, <4>2 DEF Before
    <3>2. CASE E[f].index # 0
      BY <1>10, <2>2, <3>2 DEF Before
    <3> QED BY <3>1, <3>2
  <2>6. \A f \in DOMAIN E : Ahead(G, f)
    BY <1>5, <1>6, <2>1, <2>5 DEF Ahead
  <2> QED BY <1>2, <1>6, <1>8, <2>4, <2>6 DEF LoopOK
<1> QED BY <1>11, <1>12

LEMMA FirstKeeps ==
    ASSUME HashInv, HashFirst, UNCHANGED is_set
    PROVE  HashInv'
<1>1. PICK G : G = [hash EXCEPT !.cursor_index = 0,
                      !.cursor_entry = IF hash.entries[0] = <<>> THEN NULL
                                       ELSE Head(hash.entries[0])]
  OBVIOUS
<1>2. IsTable(G) /\ G.entry = hash.entry /\ LoopOK(G, DOMAIN hash.entry, {})
  BY <1>1, FirstIs DEF HashInv
<1>3. Visit(G, DOMAIN hash.entry, {})
  BY <1>1 DEF HashFirst
<1> QED BY <1>2, <1>3, VisitKeeps

LEMMA NextKeeps ==
    ASSUME HashInv, HashNextEntry, UNCHANGED is_set
    PROVE  HashInv'
<1>1. LoopOK(hash, loop.due, loop.added) /\ Visit(hash, loop.due, loop.added)
  BY DEF HashNextEntry, HashInv, LoopInv
<1>2. IsTable(hash)
  BY DEF HashInv
<1> QED BY <1>1, <1>2, VisitKeeps

-----------------------------------------------------------------------------

LEMMA HashInitInv == HashInit => HashInv
<1> SUFFICES ASSUME HashInit PROVE HashInv
  OBVIOUS
<1>1. hash = make_hash /\ is_set \in BOOLEAN /\ freed = {} /\ loop = Loop("no", {}, {})
  BY DEF HashInit
<1>2. IsTable(hash) /\ DOMAIN hash.entry = {}
  BY <1>1, MadeIsTable
<1>3. LoopInv
  BY <1>1 DEF Loop, LoopInv
<1>4. Owns(hash.entry, freed, is_set)
  BY <1>1, <1>2 DEF Owns
<1> QED BY <1>1, <1>2, <1>3, <1>4 DEF HashInv

LEMMA HashStepKeeps == HashInv /\ [HashNext]_hash_vars => HashInv'
<1> SUFFICES ASSUME HashInv, [HashNext]_hash_vars PROVE HashInv'
  OBVIOUS
<1>1. ASSUME UNCHANGED is_set, NEW k \in Keys, NEW v \in HashValues, ~ is_set,
             Set(k, v) \/ Put(k, v)
      PROVE  HashInv'
  <2>1. v \in Keys \cup HashValues /\ (is_set => v = k)
    BY <1>1
  <2> QED BY <1>1, <2>1, SetKeeps, PutKeeps
<1>2. ASSUME UNCHANGED is_set, NEW k \in Keys, is_set, Set(k, k) \/ Put(k, k)
      PROVE  HashInv'
  <2>1. k \in Keys \cup HashValues /\ (is_set => k = k)
    OBVIOUS
  <2> QED BY <1>2, <2>1, SetKeeps, PutKeeps
<1>3. ASSUME UNCHANGED is_set, NEW k \in Keys, Delete(k) PROVE HashInv'
  BY <1>3, DeleteKeeps
<1>4. ASSUME UNCHANGED is_set, NEW r, Returns(hash, {}, r) PROVE HashInv'
  <2>1. IsTable(hash) /\ SameKeys(hash.entry, hash.entry)
    BY DEF HashInv, SameKeys
  <2> QED BY <1>4, <2>1, ReadKeeps
<1>5. ASSUME UNCHANGED is_set, NEW k \in Keys, Get(k) PROVE HashInv'
  BY <1>4, <1>5 DEF Get
<1>6. CASE UNCHANGED is_set /\ HashLength
  BY <1>4, <1>6 DEF HashLength
<1>7. CASE UNCHANGED is_set /\ HashPurge
  BY <1>7, PurgeKeeps
<1>8. CASE UNCHANGED is_set /\ HashFirst
  BY <1>8, FirstKeeps
<1>9. CASE UNCHANGED is_set /\ HashNextEntry
  BY <1>9, NextKeeps
<1>10. CASE UNCHANGED hash_vars
  BY <1>10 DEF hash_vars, HashInv, LoopInv
<1>11. CASE HashNext
  <2>1. /\ UNCHANGED is_set
        /\ \/ \E k \in Keys, v \in HashValues : ~ is_set /\ (Set(k, v) \/ Put(k, v))
           \/ \E k \in Keys : is_set /\ (Set(k, k) \/ Put(k, k))
           \/ \E k \in Keys : Delete(k)
           \/ \E k \in Keys : Get(k)
           \/ HashLength \/ HashPurge \/ HashFirst \/ HashNextEntry
    BY <1>11 DEF HashNext
  <2>2. CASE \E k \in Keys, v \in HashValues : ~ is_set /\ (Set(k, v) \/ Put(k, v))
    BY <1>1, <2>1, <2>2
  <2>3. CASE \E k \in Keys : is_set /\ (Set(k, k) \/ Put(k, k))
    BY <1>2, <2>1, <2>3
  <2>4. CASE (\E k \in Keys : Delete(k)) \/ (\E k \in Keys : Get(k))
    BY <1>3, <1>5, <2>1, <2>4
  <2> QED BY <1>6, <1>7, <1>8, <1>9, <2>1, <2>2, <2>3, <2>4
<1> QED BY <1>10, <1>11

\* The chains of the table hold every entry once, under the index of its key,
\* with one entry for each content; what a loop has still to come to is ahead of
\* the cursor; and the keys are objects that were not destroyed (hash.c:61-343).
THEOREM HashInvariant == HashSpec => []HashInv
BY HashInitInv, HashStepKeeps, PTL DEF HashSpec

\* A loop of hash_first and hash_next comes to every entry once (hash.c:310-343).
THEOREM HashEachOnce == HashSpec => []EachOnce
<1>1. HashInv => EachOnce
  BY DEF HashInv, LoopInv, EachOnce
<1> QED BY <1>1, HashInvariant, PTL

\* No entry has a key that was destroyed, whatever was set, put, deleted and
\* rehashed (hash.c:264, 301-302).
THEOREM HashKeysLive == HashSpec => []KeysLive
<1>1. HashInv => KeysLive
  BY DEF HashInv, Owns, KeysLive
<1> QED BY <1>1, HashInvariant, PTL

-----------------------------------------------------------------------------
(* The table is a map *)

ContentsOf(E) == {ContentOf(E[e].key) : e \in DOMAIN E}

OneEach(E) == \A e, f \in DOMAIN E : ContentOf(E[e].key) = ContentOf(E[f].key) => e = f

\* M is the map that the entries of E are.
Shows(M, E) ==
    /\ M = [c \in ContentsOf(E) |-> M[c]]
    /\ \A e \in DOMAIN E : M[ContentOf(E[e].key)] = [key |-> E[e].key, value |-> E[e].value]

LEMMA MapShows ==
    ASSUME NEW E, OneEach(E)
    PROVE  DOMAIN MapOf(E) = ContentsOf(E) /\ Shows(MapOf(E), E)
<1> DEFINE at(c) == CHOOSE e \in DOMAIN E : ContentOf(E[e].key) = c
<1>1. MapOf(E) = [c \in ContentsOf(E) |-> [key |-> E[at(c)].key, value |-> E[at(c)].value]]
  BY DEF MapOf, ContentsOf
<1>2. \A e \in DOMAIN E : at(ContentOf(E[e].key)) = e
  BY DEF OneEach
<1>3. \A e \in DOMAIN E : ContentOf(E[e].key) \in ContentsOf(E)
  BY DEF ContentsOf
<1> HIDE DEF at
<1>4. \A e \in DOMAIN E :
        MapOf(E)[ContentOf(E[e].key)] = [key |-> E[e].key, value |-> E[e].value]
  BY <1>1, <1>2, <1>3
<1> QED BY <1>1, <1>4 DEF Shows

LEMMA ShownIsMap ==
    ASSUME NEW E, OneEach(E), NEW M, Shows(M, E)
    PROVE  M = MapOf(E)
<1>1. Shows(MapOf(E), E)
  BY MapShows
<1>2. \A c \in ContentsOf(E) : M[c] = MapOf(E)[c]
  BY <1>1, ZenonT(60) DEF Shows, ContentsOf
<1> QED BY <1>1, <1>2 DEF Shows

LEMMA TableOneEach == ASSUME NEW h, IsTable(h) PROVE OneEach(h.entry)
  BY DEF IsTable, EntriesOK, OneEach

LEMMA SameMap ==
    ASSUME NEW E, NEW F, OneEach(E), SameKeys(E, F)
    PROVE  MapOf(F) = MapOf(E) /\ OneEach(F)
<1>1. OneEach(F)
  BY DEF OneEach, SameKeys
<1>2. Shows(MapOf(E), E)
  BY MapShows
<1>3. ContentsOf(E) = ContentsOf(F)
  BY DEF SameKeys, ContentsOf
<1>4. Shows(MapOf(E), F)
  BY <1>2, <1>3 DEF Shows, SameKeys
<1> QED BY <1>1, <1>4, ShownIsMap

\* A content is in the map if an entry has it.
LEMMA FindsInMap ==
    ASSUME NEW E, OneEach(E), NULL \notin DOMAIN E, NEW c, NEW e, Finds(E, c, e)
    PROVE  /\ e = NULL <=> c \notin DOMAIN MapOf(E)
           /\ e # NULL => /\ e \in DOMAIN E /\ c = ContentOf(E[e].key)
                          /\ MapOf(E)[c] = [key |-> E[e].key, value |-> E[e].value]
<1>1. DOMAIN MapOf(E) = ContentsOf(E) /\ Shows(MapOf(E), E)
  BY MapShows
<1> QED BY <1>1 DEF Finds, ContentsOf, Shows

LEMMA AddedMap ==
    ASSUME NEW E, NEW F, OneEach(E), OneEach(F), NEW e, e \notin DOMAIN E,
           DOMAIN F = DOMAIN E \cup {e}, \A f \in DOMAIN E : F[f] = E[f],
           NEW k, NEW v, F[e].key = k, F[e].value = v
    PROVE  MapOf(F) = [d \in DOMAIN MapOf(E) \cup {ContentOf(k)} |->
                         IF d = ContentOf(k) THEN [key |-> k, value |-> v] ELSE MapOf(E)[d]]
<1>1. DOMAIN MapOf(E) = ContentsOf(E) /\ Shows(MapOf(E), E)
  BY MapShows
<1>2. ContentsOf(F) = ContentsOf(E) \cup {ContentOf(k)}
  BY DEF ContentsOf
<1>3. \A f \in DOMAIN E : ContentOf(E[f].key) # ContentOf(k) /\ ContentOf(E[f].key) \in ContentsOf(E)
  BY DEF OneEach, ContentsOf
<1> DEFINE M == [d \in ContentsOf(E) \cup {ContentOf(k)} |->
                   IF d = ContentOf(k) THEN [key |-> k, value |-> v] ELSE MapOf(E)[d]]
<1>4. M[ContentOf(k)] = [key |-> k, value |-> v]
  OBVIOUS
<1>5. \A f \in DOMAIN E : M[ContentOf(E[f].key)] = MapOf(E)[ContentOf(E[f].key)]
  BY <1>3
<1>6. M = [c \in ContentsOf(F) |-> M[c]]
  BY <1>2
<1> HIDE DEF M
<1>7. Shows(M, F)
  BY <1>1, <1>4, <1>5, <1>6 DEF Shows
<1>8. M = MapOf(F)
  BY <1>7, ShownIsMap
<1> QED BY <1>1, <1>8 DEF M

LEMMA UpdatedMap ==
    ASSUME NEW E, NEW F, OneEach(E), NEW e \in DOMAIN E, NEW v, DOMAIN F = DOMAIN E,
           \A f \in DOMAIN E : /\ F[f].key = E[f].key
                               /\ F[f].value = IF f = e THEN v ELSE E[f].value,
           NEW c, c = ContentOf(E[e].key)
    PROVE  /\ c \in DOMAIN MapOf(E) /\ MapOf(E)[c].key = E[e].key
           /\ MapOf(F) = [d \in DOMAIN MapOf(E) \cup {c} |->
                            IF d = c THEN [key |-> MapOf(E)[c].key, value |-> v]
                            ELSE MapOf(E)[d]]
<1>1. DOMAIN MapOf(E) = ContentsOf(E) /\ Shows(MapOf(E), E)
  BY MapShows
<1>2. ContentsOf(F) = ContentsOf(E) /\ c \in ContentsOf(E) /\ OneEach(F)
  BY DEF ContentsOf, OneEach
<1>3. MapOf(E)[c] = [key |-> E[e].key, value |-> E[e].value]
  BY <1>1 DEF Shows
<1>4. \A f \in DOMAIN E : f # e => ContentOf(E[f].key) # c
  BY DEF OneEach
<1>5. \A f \in DOMAIN E : ContentOf(E[f].key) \in ContentsOf(E)
  BY DEF ContentsOf
<1> DEFINE M == [d \in ContentsOf(E) \cup {c} |->
                   IF d = c THEN [key |-> MapOf(E)[c].key, value |-> v] ELSE MapOf(E)[d]]
<1>6. M[c] = [key |-> E[e].key, value |-> v]
  BY <1>3
<1>7. \A f \in DOMAIN E : f # e => M[ContentOf(E[f].key)] = MapOf(E)[ContentOf(E[f].key)]
  BY <1>4, <1>5
<1>8. M = [d \in ContentsOf(F) |-> M[d]]
  BY <1>2
<1> HIDE DEF M
<1>9. Shows(M, F)
  <2>1. \A f \in DOMAIN F : M[ContentOf(F[f].key)] = [key |-> F[f].key, value |-> F[f].value]
    <3> TAKE f \in DOMAIN F
    <3>1. CASE f = e
      BY <1>6, <3>1
    <3>2. CASE f # e
      BY <1>1, <1>7, <3>2 DEF Shows
    <3> QED BY <3>1, <3>2
  <2> QED BY <1>8, <2>1 DEF Shows
<1>10. M = MapOf(F)
  BY <1>2, <1>9, ShownIsMap
<1> QED BY <1>1, <1>2, <1>3, <1>10 DEF M

LEMMA DeletedMap ==
    ASSUME NEW E, NEW F, OneEach(E), NEW e \in DOMAIN E,
           DOMAIN F = DOMAIN E \ {e}, \A f \in DOMAIN F : F[f] = E[f],
           NEW c, c = ContentOf(E[e].key)
    PROVE  MapOf(F) = [d \in DOMAIN MapOf(E) \ {c} |-> MapOf(E)[d]]
<1>1. DOMAIN MapOf(E) = ContentsOf(E) /\ Shows(MapOf(E), E)
  BY MapShows
<1>2. OneEach(F)
  BY DEF OneEach
<1>3. \A f \in DOMAIN F : F[f] = E[f] /\ f \in DOMAIN E /\ ContentOf(E[f].key) # c
  BY DEF OneEach
<1>4. ContentsOf(F) = ContentsOf(E) \ {c}
  <2>1. ContentsOf(F) \subseteq ContentsOf(E) \ {c}
    BY <1>3 DEF ContentsOf
  <2>2. \A f \in DOMAIN E : f # e => f \in DOMAIN F /\ F[f] = E[f]
    OBVIOUS
  <2>3. ContentsOf(E) \ {c} \subseteq ContentsOf(F)
    BY <2>2 DEF ContentsOf
  <2> QED BY <2>1, <2>3
<1> DEFINE M == [d \in ContentsOf(E) \ {c} |-> MapOf(E)[d]]
<1>5. \A f \in DOMAIN F : ContentOf(F[f].key) \in ContentsOf(F)
  BY DEF ContentsOf
<1>6. \A f \in DOMAIN F : M[ContentOf(F[f].key)] = MapOf(E)[ContentOf(E[f].key)]
  BY <1>3, <1>4, <1>5
<1>7. M = [d \in ContentsOf(F) |-> M[d]]
  BY <1>4
<1> HIDE DEF M
<1>8. Shows(M, F)
  BY <1>1, <1>3, <1>6, <1>7 DEF Shows
<1>9. M = MapOf(F)
  BY <1>2, <1>8, ShownIsMap
<1> QED BY <1>1, <1>9 DEF M

LEMMA MapSize ==
    ASSUME NEW E, OneEach(E), IsFiniteSet(DOMAIN E)
    PROVE  Cardinality(DOMAIN MapOf(E)) = Cardinality(DOMAIN E)
<1> DEFINE f == [e \in DOMAIN E |-> ContentOf(E[e].key)]
<1>1. DOMAIN MapOf(E) = ContentsOf(E)
  BY MapShows
<1>2. f \in Bijection(DOMAIN E, ContentsOf(E))
  <2>1. f \in [DOMAIN E -> ContentsOf(E)]
    BY DEF ContentsOf
  <2>2. \A x, y \in DOMAIN E : f[x] = f[y] => x = y
    BY DEF OneEach
  <2>3. \A c \in ContentsOf(E) : \E x \in DOMAIN E : f[x] = c
    BY DEF ContentsOf
  <2> HIDE DEF f
  <2> QED BY <2>1, <2>2, <2>3 DEF Bijection, Injection, Surjection, IsInjective
<1>3. ExistsBijection(DOMAIN E, ContentsOf(E))
  BY <1>2 DEF ExistsBijection
<1> QED BY <1>1, <1>3, FS_Bijection

-----------------------------------------------------------------------------
(* Every call is one of the map *)

\* What Returns says of the entries and of the result.
LEMMA ReturnsEntries ==
    ASSUME NEW g, IsTable(g), NEW ks, NEW r, Returns(g, ks, r)
    PROVE  hash'.entry = g.entry /\ hash_result' = r
<1>1. PICK is : Leaves(g, is)
  BY DEF Returns
<1> QED BY <1>1, LeavesTable DEF Returns

LEMMA SetNewMaps ==
    ASSUME IsTable(hash), Room, NEW k \in Keys, NEW v \in Keys \cup HashValues,
           Finds(Grown.entry, ContentOf(k), NULL),
           NEW r, Returns(set_entry(Grown, k, v), {}, r)
    PROVE  /\ hash_result' = r
           /\ MapOf(hash'.entry) =
                [d \in DOMAIN MapOf(hash.entry) \cup {ContentOf(k)} |->
                   IF d = ContentOf(k) THEN [key |-> k, value |-> v]
                   ELSE MapOf(hash.entry)[d]]
<1>1. PICK G : G = Grown
  OBVIOUS
<1>2. IsTable(G) /\ SameKeys(hash.entry, G.entry)
  BY <1>1, GrownIs
<1>3. PICK g : g = set_entry(G, k, v)
  OBVIOUS
<1>4. DOMAIN G.entry # Entries
  BY <1>2 DEF Room, SameKeys
<1>5. PICK e : Added(G, g, e, k, v)
  BY <1>1, <1>2, <1>3, <1>4, SetEntryAdds
<1>6. IsTable(g) /\ OneEach(g.entry)
  BY <1>5, TableOneEach DEF Added
<1>7. hash'.entry = g.entry /\ hash_result' = r
  BY <1>1, <1>3, <1>6, ReturnsEntries
<1>8. PICK F : F = g.entry
  OBVIOUS
<1>9. PICK E : E = G.entry
  OBVIOUS
<1>10. MapOf(E) = MapOf(hash.entry) /\ OneEach(E)
  BY <1>2, <1>9, SameMap, TableOneEach
<1>11. /\ e \notin DOMAIN E /\ DOMAIN F = DOMAIN E \cup {e}
       /\ \A f \in DOMAIN E : F[f] = E[f]
       /\ F[e].key = k /\ F[e].value = v
  BY <1>5, <1>8, <1>9 DEF Added
<1>12. MapOf(F) = [d \in DOMAIN MapOf(E) \cup {ContentOf(k)} |->
                     IF d = ContentOf(k) THEN [key |-> k, value |-> v] ELSE MapOf(E)[d]]
  BY <1>6, <1>8, <1>10, <1>11, AddedMap
<1> QED BY <1>7, <1>8, <1>10, <1>12

LEMMA ReadMaps ==
    ASSUME IsTable(hash), NEW G, IsTable(G), SameKeys(hash.entry, G.entry),
           NEW r, Returns(G, {}, r)
    PROVE  MapOf(hash'.entry) = MapOf(hash.entry) /\ hash_result' = r
<1>1. hash'.entry = G.entry /\ hash_result' = r
  BY ReturnsEntries
<1>2. OneEach(hash.entry)
  BY TableOneEach
<1>3. MapOf(G.entry) = MapOf(hash.entry)
  BY <1>2, SameMap
<1> QED BY <1>1, <1>3

\* What a key's entry says of the map.
LEMMA LookupMaps ==
    ASSUME IsTable(hash), NEW k \in Keys, NEW c, c = ContentOf(k),
           NEW e, e = hash_get_entry(hash, k)
    PROVE  /\ e = NULL <=> c \notin DOMAIN MapOf(hash.entry)
           /\ e # NULL => /\ e \in DOMAIN hash.entry /\ c = ContentOf(hash.entry[e].key)
                          /\ MapOf(hash.entry)[c] = [key |-> hash.entry[e].key,
                                                     value |-> hash.entry[e].value]
<1>1. PICK E : E = hash.entry
  OBVIOUS
<1>2. OneEach(E) /\ NULL \notin DOMAIN E
  BY <1>1, TableOneEach, HashAssumption DEF IsTable, EntriesOK
<1>3. Finds(E, c, e)
  BY <1>1, GetEntryFinds
<1>4. /\ e = NULL <=> c \notin DOMAIN MapOf(E)
      /\ e # NULL => /\ e \in DOMAIN E /\ c = ContentOf(E[e].key)
                     /\ MapOf(E)[c] = [key |-> E[e].key, value |-> E[e].value]
  BY <1>2, <1>3, FindsInMap
<1> QED BY <1>1, <1>4

LEMMA SetMaps ==
    ASSUME IsTable(hash), NEW k \in Keys, NEW v \in Keys \cup HashValues, Set(k, v)
    PROVE  Dict!Set(k, v)
<1>1. New(k) /\ Room
  BY DEF Set
<1>2. IsTable(Grown) /\ SameKeys(hash.entry, Grown.entry)
  BY <1>1, GrownIs
<1>3. PICK e : e = hash_get_entry(Grown, k)
  OBVIOUS
<1>4. Finds(Grown.entry, ContentOf(k), e)
  BY <1>2, <1>3, GetEntryFinds
<1>5. PICK E : E = Grown.entry
  OBVIOUS
<1>6. MapOf(E) = MapOf(hash.entry) /\ OneEach(E) /\ NULL \notin DOMAIN E
  BY <1>2, <1>5, SameMap, TableOneEach, HashAssumption DEF IsTable, EntriesOK
<1>7. e = NULL <=> ContentOf(k) \notin DOMAIN MapOf(hash.entry)
  <2>1. PICK c : c = ContentOf(k)
    OBVIOUS
  <2>2. Finds(E, c, e)
    BY <1>4, <1>5, <2>1
  <2>3. e = NULL <=> c \notin DOMAIN MapOf(E)
    BY <1>6, <2>2, FindsInMap
  <2> QED BY <1>6, <2>1, <2>3
<1>8. CASE e = NULL
  <2>1. Returns(set_entry(Grown, k, v), {}, Dict!Answer(1))
    BY <1>3, <1>8 DEF Set
  <2>2. Finds(Grown.entry, ContentOf(k), NULL)
    BY <1>4, <1>8
  <2>3. /\ hash_result' = Dict!Answer(1)
        /\ MapOf(hash'.entry) =
             [d \in DOMAIN MapOf(hash.entry) \cup {ContentOf(k)} |->
                IF d = ContentOf(k) THEN [key |-> k, value |-> v]
                ELSE MapOf(hash.entry)[d]]
    BY <1>1, <2>1, <2>2, SetNewMaps
  <2> QED BY <1>7, <1>8, <2>3 DEF Dict!Set, Dict!Returns, Dict!With
<1>9. CASE e # NULL
  <2>1. Returns(Grown, {}, Dict!Answer(0))
    BY <1>3, <1>9 DEF Set
  <2>2. MapOf(hash'.entry) = MapOf(hash.entry) /\ hash_result' = Dict!Answer(0)
    BY <1>2, <2>1, ReadMaps
  <2> QED BY <1>7, <1>9, <2>2 DEF Dict!Set, Dict!Returns
<1> QED BY <1>8, <1>9

LEMMA PutMaps ==
    ASSUME IsTable(hash), NEW k \in Keys, NEW v \in Keys \cup HashValues, Put(k, v)
    PROVE  Dict!Put(k, v)
<1>1. New(k) /\ Room
  BY DEF Put
<1>2. PICK e : e = hash_get_entry(hash, k)
  OBVIOUS
<1>3. PICK c : c = ContentOf(k)
  OBVIOUS
<1>4. /\ e = NULL <=> c \notin DOMAIN MapOf(hash.entry)
      /\ e # NULL => e \in DOMAIN hash.entry /\ c = ContentOf(hash.entry[e].key)
  BY <1>2, <1>3, LookupMaps
<1>5. CASE e = NULL
  <2>1. Returns(set_entry(Grown, k, v), {}, Dict!Answer(NULL))
    BY <1>2, <1>5 DEF Put
  <2>2. Finds(Grown.entry, c, NULL)
    <3>3. Finds(hash.entry, ContentOf(k), hash_get_entry(hash, k))
      BY GetEntryFinds
    <3>1. Finds(hash.entry, c, NULL) /\ NULL \notin DOMAIN hash.entry
      BY <3>3, <1>2, <1>3, <1>5, HashAssumption DEF IsTable, EntriesOK
    <3>2. SameKeys(hash.entry, Grown.entry)
      BY <1>1, GrownIs
    <3> QED BY <3>1, <3>2 DEF Finds, SameKeys
  <2>3. /\ hash_result' = Dict!Answer(NULL)
        /\ MapOf(hash'.entry) =
             [d \in DOMAIN MapOf(hash.entry) \cup {c} |->
                IF d = c THEN [key |-> k, value |-> v] ELSE MapOf(hash.entry)[d]]
    BY <1>1, <1>3, <2>1, <2>2, SetNewMaps
  <2> QED BY <1>3, <1>4, <1>5, <2>3 DEF Dict!Put, Dict!Returns, Dict!With
<1>6. CASE e # NULL
  <2>1. PICK g : g = [hash EXCEPT !.entry[e].value = v]
    OBVIOUS
  <2>2. Returns(g, {k}, Dict!Answer(NULL))
    BY <1>2, <1>6, <2>1 DEF Put
  <2>3. Updated(hash, g, e, v)
    BY <1>4, <1>6, <2>1, PutUpdates
  <2>4. hash'.entry = g.entry /\ hash_result' = Dict!Answer(NULL)
    BY <2>2, <2>3, ReturnsEntries DEF Updated
  <2>5. PICK E : E = hash.entry
    OBVIOUS
  <2>6. PICK F : F = g.entry
    OBVIOUS
  <2>7. /\ OneEach(E) /\ e \in DOMAIN E /\ DOMAIN F = DOMAIN E /\ c = ContentOf(E[e].key)
        /\ \A f \in DOMAIN E : /\ F[f].key = E[f].key
                               /\ F[f].value = IF f = e THEN v ELSE E[f].value
    BY <1>4, <1>6, <2>3, <2>5, <2>6, TableOneEach DEF Updated
  <2>8. /\ c \in DOMAIN MapOf(E)
        /\ MapOf(F) = [d \in DOMAIN MapOf(E) \cup {c} |->
                         IF d = c THEN [key |-> MapOf(E)[c].key, value |-> v]
                         ELSE MapOf(E)[d]]
    BY <2>7, UpdatedMap
  <2> QED BY <1>3, <2>4, <2>5, <2>6, <2>8 DEF Dict!Put, Dict!Returns, Dict!With
<1> QED BY <1>5, <1>6

LEMMA DeleteMaps ==
    ASSUME IsTable(hash), NEW k \in Keys, Delete(k)
    PROVE  Dict!Delete(k)
<1>1. PICK e : e = hash_get_entry(hash, k)
  OBVIOUS
<1>2. PICK c : c = ContentOf(k)
  OBVIOUS
<1>3. /\ e = NULL <=> c \notin DOMAIN MapOf(hash.entry)
      /\ e # NULL => e \in DOMAIN hash.entry /\ c = ContentOf(hash.entry[e].key)
  BY <1>1, <1>2, LookupMaps
<1>4. CASE e = NULL
  <2>1. Returns(hash, {}, Dict!Answer(0)) /\ SameKeys(hash.entry, hash.entry)
    BY <1>1, <1>4 DEF Delete, SameKeys
  <2>2. MapOf(hash'.entry) = MapOf(hash.entry) /\ hash_result' = Dict!Answer(0)
    BY <2>1, ReadMaps
  <2>3. MapOf(hash.entry) = [d \in DOMAIN MapOf(hash.entry) \ {c} |-> MapOf(hash.entry)[d]]
    <3>1. MapOf(hash.entry) = [d \in DOMAIN MapOf(hash.entry) |-> MapOf(hash.entry)[d]]
      BY MapShows, TableOneEach DEF Shows
    <3>2. DOMAIN MapOf(hash.entry) \ {c} = DOMAIN MapOf(hash.entry)
      BY <1>3, <1>4
    <3> QED BY <3>1, <3>2
  <2> QED BY <1>2, <1>3, <1>4, <2>2, <2>3 DEF Dict!Delete, Dict!Returns
<1>5. CASE e # NULL
  <2>1. PICK g : g = hash_delete_entry(hash, e)
    OBVIOUS
  <2>2. Returns(g, {hash.entry[e].key}, Dict!Answer(1))
    BY <1>1, <1>5, <2>1 DEF Delete
  <2>3. Deleted(hash, g, e)
    BY <1>3, <1>5, <2>1, DeleteEntryDeletes
  <2>4. hash'.entry = g.entry /\ hash_result' = Dict!Answer(1)
    BY <2>2, <2>3, ReturnsEntries DEF Deleted
  <2>5. PICK E : E = hash.entry
    OBVIOUS
  <2>6. PICK F : F = g.entry
    OBVIOUS
  <2>7. /\ OneEach(E) /\ e \in DOMAIN E /\ c = ContentOf(E[e].key)
        /\ DOMAIN F = DOMAIN E \ {e} /\ \A f \in DOMAIN F : F[f] = E[f]
    BY <1>3, <1>5, <2>3, <2>5, <2>6, TableOneEach DEF Deleted, TakenFrom
  <2>8. MapOf(F) = [d \in DOMAIN MapOf(E) \ {c} |-> MapOf(E)[d]]
    BY <2>7, DeletedMap
  <2> QED BY <1>2, <1>3, <1>5, <2>4, <2>5, <2>6, <2>8 DEF Dict!Delete, Dict!Returns
<1> QED BY <1>4, <1>5

LEMMA GetMaps ==
    ASSUME IsTable(hash), NEW k \in Keys, Get(k)
    PROVE  Dict!Get(k)
<1>1. PICK e : e = hash_get_entry(hash, k)
  OBVIOUS
<1>2. PICK r : r = IF e = NULL THEN Dict!Answer(NULL) ELSE Dict!Value(hash.entry[e].value)
  OBVIOUS
<1>3. Returns(hash, {}, r) /\ SameKeys(hash.entry, hash.entry)
  BY <1>1, <1>2 DEF Get, SameKeys
<1>4. MapOf(hash'.entry) = MapOf(hash.entry) /\ hash_result' = r
  BY <1>3, ReadMaps
<1>5. /\ e = NULL <=> ContentOf(k) \notin DOMAIN MapOf(hash.entry)
      /\ e # NULL => MapOf(hash.entry)[ContentOf(k)] = [key |-> hash.entry[e].key,
                                                        value |-> hash.entry[e].value]
  BY <1>1, LookupMaps
<1>6. e # NULL => MapOf(hash.entry)[ContentOf(k)].value = hash.entry[e].value
  BY <1>5
<1> QED BY <1>2, <1>4, <1>5, <1>6 DEF Dict!Get, Dict!Returns

\* The dictionary counts as the table does.
LEMMA DictCounts == ASSUME NEW S PROVE Dict!Cardinality(S) = Cardinality(S)
  BY ZenonT(30) DEF Dict!Cardinality, Cardinality, Dict!IsFiniteSet, IsFiniteSet

LEMMA LengthMaps == ASSUME IsTable(hash), HashLength PROVE Dict!Length
<1>1. Returns(hash, {}, Dict!Answer(hash.length)) /\ SameKeys(hash.entry, hash.entry)
  BY DEF HashLength, SameKeys
<1>2. MapOf(hash'.entry) = MapOf(hash.entry) /\ hash_result' = Dict!Answer(hash.length)
  BY <1>1, ReadMaps
<1>3. hash.length = Cardinality(DOMAIN MapOf(hash.entry))
  BY MapSize, TableOneEach DEF IsTable, EntriesOK
<1>4. hash.length = Dict!Cardinality(DOMAIN MapOf(hash.entry))
  BY <1>3, DictCounts
<1>5. hash_result' = Dict!Answer(Dict!Cardinality(DOMAIN MapOf(hash.entry)))
  BY <1>2, <1>4
<1> QED BY <1>2, <1>5 DEF Dict!Length, Dict!Returns

LEMMA NoEntriesMap == ASSUME NEW E, DOMAIN E = {} PROVE MapOf(E) = <<>>
  BY DEF MapOf

LEMMA PurgeMaps == ASSUME HashPurge PROVE Dict!Purge
<1>1. hash'.entry = make_hash.entry /\ DOMAIN make_hash.entry = {}
  BY MadeIsTable, LeavesTable DEF HashPurge
<1>2. MapOf(hash'.entry) = <<>>
  BY <1>1, NoEntriesMap
<1> QED BY <1>2 DEF HashPurge, Dict!Purge, Dict!Returns

\* The entry that a loop is given is one of the map.
LEMMA VisitMaps ==
    ASSUME HashInv, NEW G, IsTable(G), G.entry = hash.entry, NEW due, NEW added,
           LoopOK(G, due, added), Visit(G, due, added), UNCHANGED is_set
    PROVE  Dict!Visit
<1>1. PICK e : e = next_entry(G)
  OBVIOUS
<1>2. hash'.entry = hash.entry /\ (e = NULL \/ e \in DOMAIN hash.entry)
  BY <1>1, VisitKeeps
<1>3. hash_result' = IF e = NULL THEN Dict!Answer(NULL) ELSE Dict!Visited(hash.entry[e])
  BY <1>1 DEF Visit
<1>4. CASE e = NULL
  BY <1>2, <1>3, <1>4 DEF Dict!Visit, Dict!Returns
<1>5. CASE e # NULL
  <2>1. /\ DOMAIN MapOf(hash.entry) = ContentsOf(hash.entry)
        /\ Shows(MapOf(hash.entry), hash.entry)
    BY MapShows, TableOneEach DEF HashInv
  <2>2. PICK c : c = ContentOf(hash.entry[e].key)
    OBVIOUS
  <2>3. /\ c \in DOMAIN MapOf(hash.entry)
        /\ MapOf(hash.entry)[c] = [key |-> hash.entry[e].key, value |-> hash.entry[e].value]
    BY <1>2, <1>5, <2>1, <2>2 DEF Shows, ContentsOf
  <2>4. Dict!Visited(MapOf(hash.entry)[c]) = Dict!Visited(hash.entry[e])
    BY <2>3 DEF Dict!Visited
  <2> QED BY <1>2, <1>3, <1>5, <2>3, <2>4 DEF Dict!Visit
<1> QED BY <1>4, <1>5

LEMMA LoopMaps ==
    ASSUME HashInv, HashFirst \/ HashNextEntry, UNCHANGED is_set
    PROVE  Dict!Visit
<1>1. CASE HashFirst
  <2>1. PICK G : G = [hash EXCEPT !.cursor_index = 0,
                        !.cursor_entry = IF hash.entries[0] = <<>> THEN NULL
                                         ELSE Head(hash.entries[0])]
    OBVIOUS
  <2>2. IsTable(G) /\ G.entry = hash.entry /\ LoopOK(G, DOMAIN hash.entry, {})
    BY <2>1, FirstIs DEF HashInv
  <2>3. Visit(G, DOMAIN hash.entry, {})
    BY <1>1, <2>1 DEF HashFirst
  <2> QED BY <2>2, <2>3, VisitMaps
<1>2. CASE HashNextEntry
  <2>1. LoopOK(hash, loop.due, loop.added) /\ Visit(hash, loop.due, loop.added)
    BY <1>2 DEF HashNextEntry, HashInv, LoopInv
  <2>2. IsTable(hash)
    BY DEF HashInv
  <2> QED BY <2>1, <2>2, VisitMaps
<1> QED BY <1>1, <1>2

LEMMA HashInitMaps == HashInit => Dict!Init
<1> SUFFICES ASSUME HashInit PROVE Dict!Init
  OBVIOUS
<1>1. DOMAIN hash.entry = {} /\ hash_result = Dict!Answer(NULL)
  BY MadeIsTable DEF HashInit
<1>2. MapOf(hash.entry) = <<>>
  BY <1>1, NoEntriesMap
<1> QED BY <1>1, <1>2 DEF Dict!Init

LEMMA HashStepMaps == HashInv /\ [HashNext]_hash_vars => [Dict!Next]_Dict!vars
<1> SUFFICES ASSUME HashInv, [HashNext]_hash_vars PROVE [Dict!Next]_Dict!vars
  OBVIOUS
<1>1. IsTable(hash)
  BY DEF HashInv
<1>2. ASSUME NEW k \in Keys, NEW v \in Keys \cup HashValues, Set(k, v) \/ Put(k, v)
      PROVE  Dict!Next
  BY <1>1, <1>2, SetMaps, PutMaps DEF Dict!Next
<1>3. ASSUME NEW k \in Keys, Delete(k) \/ Get(k) PROVE Dict!Next
  BY <1>1, <1>3, DeleteMaps, GetMaps DEF Dict!Next
<1>4. CASE HashLength
  BY <1>1, <1>4, LengthMaps DEF Dict!Next
<1>5. CASE HashPurge
  BY <1>5, PurgeMaps DEF Dict!Next
<1>6. CASE (HashFirst \/ HashNextEntry) /\ UNCHANGED is_set
  BY <1>6, LoopMaps DEF Dict!Next
<1>7. CASE UNCHANGED hash_vars
  BY <1>7 DEF hash_vars, Dict!vars
<1>8. CASE HashNext
  <2>1. /\ UNCHANGED is_set
        /\ \/ \E k \in Keys, v \in Keys \cup HashValues : Set(k, v) \/ Put(k, v)
           \/ \E k \in Keys : Delete(k) \/ Get(k)
           \/ HashLength \/ HashPurge \/ HashFirst \/ HashNextEntry
    BY <1>8 DEF HashNext
  <2>2. CASE \E k \in Keys, v \in Keys \cup HashValues : Set(k, v) \/ Put(k, v)
    BY <1>2, <2>2
  <2>3. CASE \E k \in Keys : Delete(k) \/ Get(k)
    BY <1>3, <2>3
  <2> QED BY <1>4, <1>5, <1>6, <2>1, <2>2, <2>3
<1> QED BY <1>7, <1>8

\* The chained hash table is a map from contents of keys to keys and values
\* (hash.c:184-343): each function does to the entries and answers what
\* Dictionary says, whatever was set, put, deleted, purged and rehashed before.
THEOREM HashImplements == HashSpec => HashIsMap
BY HashInitMaps, HashStepMaps, HashInvariant, PTL DEF HashSpec, HashIsMap, Dict!Spec
=============================================================================
