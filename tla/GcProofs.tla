------------------------------- MODULE GcProofs -------------------------------
(***************************************************************************)
(* That a collection, in the middle too, has one copy of each tuple that   *)
(* the roots reach, for heaps, tuples and graphs of every size.            *)
(*                                                                         *)
(* A collection has two parts.  In the first, gc_copy moves the tuples     *)
(* that the roots reach: Copying says where each of them is, and up to     *)
(* where the words of the copies have been set to copies.  Then everything *)
(* is copied, and what the loop still scans is junk that it has taken for  *)
(* a tuple (gc.c:152): it may copy more junk and may overwrite the space   *)
(* that is left, but it stays behind the live tuples (Live).               *)
(*                                                                         *)
(* Then that the collector is invisible.  Any set of addresses that has    *)
(* what the roots reach, each under a name of its own (Graph), shows the   *)
(* same heap to the program.  A step of the collector carries such a set   *)
(* to one that shows the same (Looks), and so does not show (Unseen); a    *)
(* call of the program is a step of TupleHeap, by what it does to the      *)
(* pictures of the tuples, word by word (Pictures).                        *)
(***************************************************************************)
EXTENDS Gc, Induction, FiniteSetTheorems, SequenceTheorems

HeaderRecords == [size : Nat, mask : SUBSET Nat, forward : BOOLEAN]

Words ==
    {Atom(n) : n \in Nat} \cup {Header(h) : h \in HeaderRecords}
      \cup {Pointer(a) : a \in (0 .. 2) \X Nat}

\* The words of a space
Block(H, s) == [0 .. Cardinality(DOMAIN H[s]) - 1 -> Words]

Memory(H) ==
    /\ DOMAIN H = {0, 1}
    /\ \A s \in {0, 1} : Cardinality(DOMAIN H[s]) \in Nat /\ H[s] \in Block(H, s)

\* The tables of names
Tables(N) == DOMAIN N = {0, 1} /\ \A s \in {0, 1} : DOMAIN N[s] = 0 .. MaxHeap - 1

SizeAt(H, s, o) == H[s][o][2].size
MaskAt(H, s, o) == H[s][o][2].mask

\* At o is the header of a tuple, which is in the space, and which has no field
\* for which 1 << (index + 7) would not fit an int.
IsTuple(H, s, o) ==
    /\ o \in Nat
    /\ \E h \in HeaderRecords :
         /\ H[s][o] = Header(h)
         /\ h.size > 0 /\ h.size <= 24 /\ h.mask \subseteq 0 .. h.size - 1 /\ ~ h.forward
    /\ o + SizeAt(H, s, o) \in DOMAIN H[s]

\* The tuple at o has been copied to c.
IsForward(H, s, o, t, c) ==
    /\ o \in Nat
    /\ \E h \in HeaderRecords : H[s][o] = Header(h) /\ h.size > 0 /\ h.forward
    /\ o + SizeAt(H, s, o) \in DOMAIN H[s]
    /\ H[s][o + 1] = Pointer(<<t, c>>)

\* No two of the tuples share a word.
Apart(H, s, S) == \A o, p \in S : o < p => o + SizeAt(H, s, o) < p

PointsInto(word, s, S) == \E o \in S : word = Pointer(<<s, o>>)

Named(N, s, S) ==
    /\ \A o \in S : N[s][o] \in Names
    /\ \A o, p \in S : N[s][o] = N[s][p] => o = p

\* The roots R reach the tuples S of space s, below L, and nothing else.
Live(H, N, R, s, S, L) ==
    /\ L \in Nat
    /\ \A o \in S : IsTuple(H, s, o) /\ o + SizeAt(H, s, o) < L
    /\ Apart(H, s, S)
    /\ \A o \in S : \A k \in MaskAt(H, s, o) : PointsInto(H[s][o + k + 1], s, S)
    /\ \A j \in 1 .. Len(R) : PointsInto(R[j], s, S)
    /\ Named(N, s, S)

\* Of space f, the tuples U are still to be copied and F have been; the copies
\* C fill the space 1 - f up to L.  The first i roots, and the words of copies
\* below w, point to copies.
OldSpace(H, f, U, F, C) ==
    /\ \A o \in U : IsTuple(H, f, o)
    /\ \A o \in F : \E c \in C : IsForward(H, f, o, 1 - f, c)
    /\ Apart(H, f, U \cup F)
    /\ \A o \in U : \A k \in MaskAt(H, f, o) : PointsInto(H[f][o + k + 1], f, U \cup F)

NewSpace(H, t, C, L) ==
    /\ L \in Nat
    /\ \A c \in C : /\ IsTuple(H, t, c) /\ c + SizeAt(H, t, c) < L
                    /\ c + SizeAt(H, t, c) + 1 \in C \cup {L}
    /\ Apart(H, t, C)
    /\ 0 \in C \cup {L}

Pointers(H, R, f, U, F, C, w, i) ==
    /\ \A c \in C : \A k \in MaskAt(H, 1 - f, c) :
         IF c + k + 1 < w THEN PointsInto(H[1 - f][c + k + 1], 1 - f, C)
         ELSE PointsInto(H[1 - f][c + k + 1], f, U \cup F)
    /\ \A j \in 1 .. Len(R) :
         IF j <= i THEN PointsInto(R[j], 1 - f, C) ELSE PointsInto(R[j], f, U \cup F)

NamedApart(N, f, U, C) ==
    /\ Named(N, f, U) /\ Named(N, 1 - f, C)
    /\ \A o \in U, c \in C : N[f][o] # N[1 - f][c]

Copying(H, N, R, f, U, F, C, L, w, i) ==
    /\ OldSpace(H, f, U, F, C) /\ NewSpace(H, 1 - f, C, L)
    /\ Pointers(H, R, f, U, F, C, w, i) /\ NamedApart(N, f, U, C)

-----------------------------------------------------------------------------
(* The inductive invariant *)

Stopped == pc \in {"abort", "wild", "exhausted"}
Quiet == pc \in {"mutator", "allocate", "check", "grow", "grown"}

GcTypes ==
    /\ Memory(heap) /\ Tables(name)
    /\ from \in {0, 1}
    /\ roots \in Seq(Words)
    /\ free \in Nat /\ scan \in Nat /\ tuple \in Nat /\ index \in Nat
    /\ want \in Nat /\ want <= 24
    /\ after \in {"mutator", "check", "grown"}
    /\ pc \in {"mutator", "allocate", "check", "grow", "grown",
               "roots", "scan", "fields"}

\* The spaces differ in size between the two halves of gc_grow only.
SpacesGrow ==
    /\ size(from) \in 1 .. MaxHeap /\ size(to) \in 1 .. MaxHeap
    /\ free <= (IF Quiet THEN size(from) ELSE size(to))
    /\ ~ Quiet => after \in {"check", "grown"}
    /\ IF pc = "grown" THEN size(from) = 2 * size(to)
       ELSE IF ~ Quiet /\ after = "grown" THEN size(to) = 2 * size(from)
       ELSE size(from) = size(to)

\* gc_allocate_tuple is asked for the tuples of tuple_new only.
Asked ==
    (pc \in {"allocate", "check"} \/ (~ Quiet /\ after = "check")) => want > 0

\* Everything that the roots reach is below L, and so are all pointers to it.
AtRest == \E S \in SUBSET Nat, L \in 0 .. free : Live(heap, name, roots, from, S, L)

InCopy ==
    \E U, F, C \in SUBSET Nat :
      \/ /\ pc = "roots"
         /\ scan = 0 /\ index <= Len(roots)
         /\ Copying(heap, name, roots, from, U, F, C, free, 0, index)
      \/ /\ pc = "scan"
         /\ scan \in C \cup {free}
         /\ Copying(heap, name, roots, from, U, F, C, free, scan, Len(roots))
      \/ /\ pc = "fields"
         /\ tuple \in C /\ index <= SizeAt(heap, to, tuple)
         /\ scan = tuple + SizeAt(heap, to, tuple) + 1
         /\ Copying(heap, name, roots, from, U, F, C, free, tuple + index + 1,
                    Len(roots))

\* All has been copied, and what is scanned is junk.
Copied ==
    \E C \in SUBSET Nat, L \in 0 .. free :
      /\ Live(heap, name, roots, to, C, L)
      /\ pc \in {"scan", "fields"}
      /\ L <= scan
      /\ pc = "fields" => L <= tuple

InFields ==
    pc = "fields" =>
      /\ tuple <= free /\ tuple < size(to)
      /\ \E h \in HeaderRecords : heap[to][tuple] = Header(h)

\* K has what the roots point to, and with a tuple what its fields point to.
FirstReached == {Resolved(roots[i][2]) : i \in DOMAIN roots}

Covers(K) == FirstReached \subseteq K /\ \A a \in K : Children(a) \subseteq K

\* Two tuples in K have two names.
Distinct(K) == \A a, b \in K : NameOf(a) = NameOf(b) => a = b

Running ==
    /\ GcTypes /\ SpacesGrow /\ Asked /\ InFields
    /\ IF Quiet THEN AtRest ELSE InCopy \/ Copied

GcInv == IF Stopped THEN \E K : Covers(K) /\ Distinct(K) ELSE Running

-----------------------------------------------------------------------------
(* Words and the changes of a space *)

LEMMA WordKinds ==
    /\ \A n : Atom(n)[1] = "atom" /\ Atom(n)[2] = n
    /\ \A a : Pointer(a)[1] = "tuple" /\ Pointer(a)[2] = a
    /\ \A h : Header(h)[1] = "header" /\ Header(h)[2] = h
BY DEF Atom, Pointer, Header

LEMMA WordIs ==
    ASSUME NEW w \in Words
    PROVE  \/ w[1] = "atom" /\ w[2] \in Nat /\ w = Atom(w[2])
           \/ w[1] = "header" /\ w[2] \in HeaderRecords /\ w = Header(w[2])
           \/ w[1] = "tuple" /\ w[2] \in (0 .. 2) \X Nat /\ w = Pointer(w[2])
BY DEF Words, Atom, Pointer, Header

\* The header that a word is taken for
LEMMA HeaderTaken ==
    ASSUME NEW w \in Words, NEW h \in AsHeader(w)
    PROVE  h \in HeaderRecords
<1>1. CASE w[1] = "header" /\ w[2] \in HeaderRecords
  BY <1>1 DEF AsHeader
<1>2. CASE w[1] = "atom" /\ w[2] \in Nat
  <2>1. PICK bits \in SUBSET (0 .. MaxHeader - 1), beyond \in SUBSET (57 .. MaxHeader - 1) :
          h = [size |-> (w[2] % 128) \div 2, mask |-> bits \cup beyond,
               forward |-> w[2] % 2 = 1]
    <3>1. PICK bits : bits = {i \in 0 .. MaxHeader - 1 : i < 57 /\ has_bit(w[2], i + 7)}
      OBVIOUS
    <3>2. h \in {[size |-> (w[2] % 128) \div 2, mask |-> bits \cup beyond,
                  forward |-> w[2] % 2 = 1] : beyond \in SUBSET (57 .. MaxHeader - 1)}
      BY <1>2, <3>1 DEF AsHeader
    <3>3. bits \in SUBSET (0 .. MaxHeader - 1)
      BY <3>1
    <3> QED BY <3>2, <3>3
  <2>2. (w[2] % 128) \div 2 \in Nat
    BY <1>2
  <2>3. bits \cup beyond \in SUBSET Nat
    BY SizesAssumption
  <2> QED BY <2>1, <2>2, <2>3 DEF HeaderRecords
<1>3. CASE w[1] = "tuple"
  <2>1. h \in Headers
    BY <1>3 DEF AsHeader
  <2> QED BY <2>1, SizesAssumption DEF Headers, HeaderRecords
<1> QED BY <1>1, <1>2, <1>3, WordIs

LEMMA HeaderItself ==
    ASSUME NEW h
    PROVE  AsHeader(Header(h)) = {h}
BY DEF AsHeader, Header

\* A header with another mask, and a store that changes no more of the header
Masked(h, m) == Header([h EXCEPT !.mask = m])

StoredMask(H, s, o, k, w, m) == stored(H, s, o, k, w, [H[s][o][2] EXCEPT !.mask = m])

\* Up to index 23 the code sets and clears the bit that the header format says.
LEMMA SmallIndex ==
    \A k \in 0 .. 23 : \A h :
      /\ with_bit(h, k) = [h EXCEPT !.mask = h.mask \cup {k}]
      /\ without_bit(h, k) = [h EXCEPT !.mask = h.mask \ {k}]
<1> SUFFICES ASSUME NEW k \in 0 .. 23, NEW h
             PROVE  /\ with_bit(h, k) = [h EXCEPT !.mask = h.mask \cup {k}]
                    /\ without_bit(h, k) = [h EXCEPT !.mask = h.mask \ {k}]
  OBVIOUS
<1>1. shifted(k) = k + 7 /\ k + 7 # 0 /\ ~ k + 7 < 7 /\ k + 7 # 31 /\ (k + 7) - 7 = k
  BY DEF shifted
<1>2. mask_bits(k + 7) = {k}
  BY <1>1 DEF mask_bits
<1> QED BY <1>1, <1>2 DEF with_bit, without_bit

\* Beyond, what it makes of a header is a header.
LEMMA AnyIndex ==
    ASSUME NEW h \in HeaderRecords, NEW k \in Nat
    PROVE  with_bit(h, k) \in HeaderRecords
<1>1. PICK bit \in 0 .. 31 : bit = shifted(k)
  BY DEF shifted
<1>2. CASE bit = 0
  <2>1. with_bit(h, k) = [h EXCEPT !.forward = TRUE]
    BY <1>1, <1>2 DEF with_bit
  <2> QED BY <2>1 DEF HeaderRecords
<1>3. CASE bit # 0 /\ bit < 7
  <2>1. size_bit(bit) \in Nat
    BY <1>3 DEF size_bit
  <2>2. PICK n \in Nat : with_bit(h, k) = [h EXCEPT !.size = n]
    <3>1. with_bit(h, k) = [h EXCEPT !.size = IF (h.size \div size_bit(bit)) % 2 = 1 THEN h.size
                                              ELSE h.size + size_bit(bit)]
      BY <1>1, <1>3 DEF with_bit
    <3>2. h.size \in Nat /\ h.size + size_bit(bit) \in Nat
      BY <2>1 DEF HeaderRecords
    <3> QED BY <3>1, <3>2
  <2> QED BY <2>2 DEF HeaderRecords
<1>4. CASE bit # 0 /\ ~ bit < 7
  <2>1. mask_bits(bit) \in SUBSET Nat
    BY <1>4 DEF mask_bits
  <2>2. with_bit(h, k) = [h EXCEPT !.mask = h.mask \cup mask_bits(bit)]
    BY <1>1, <1>4 DEF with_bit
  <2>3. h.mask \cup mask_bits(bit) \in SUBSET Nat
    BY <2>1 DEF HeaderRecords
  <2> QED BY <2>2, <2>3 DEF HeaderRecords
<1> QED BY <1>2, <1>3, <1>4

-----------------------------------------------------------------------------
(* What the roots reach *)

OneMore(X) == X \cup UNION {Children(a) : a \in X}

\* g[n] is what the roots reach within n fields.
Within(g) ==
    /\ g[0] = FirstReached
    /\ \A n \in 0 .. Cardinality(Names) : n < Cardinality(Names) => g[n + 1] = OneMore(g[n])
    /\ Reached = g[Cardinality(Names)]

LEMMA OneMoreStays ==
    ASSUME NEW K, Covers(K), NEW X \in SUBSET K
    PROVE  OneMore(X) \in SUBSET K
BY DEF Covers, OneMore

LEMMA ReachedWithin ==
    ASSUME NEW K, Covers(K)
    PROVE  \E g : Within(g) /\ \A n \in 0 .. Cardinality(Names) : g[n] \in SUBSET K
<1>1. PICK N \in Nat : N = Cardinality(Names)
  BY NamesAssumption, FS_CardinalityType
<1> DEFINE V == SUBSET K
           step == [x \in V \X Nat |-> OneMore(x[1])]
           Loops(u) == u = [n \in 0 .. N |-> IF n = 0 THEN FirstReached ELSE OneMore(u[n - 1])]
<1>2. step \in Steps(V)
  <2>1. \A x \in V \X Nat : OneMore(x[1]) \in V
    BY OneMoreStays
  <2> QED BY <2>1 DEF Steps
<1>3. FirstReached \in V
  BY DEF Covers
<1>4. PICK f : Follows(f, V, FirstReached, step, N)
  <2> HIDE DEF V, step
  <2> QED BY <1>1, <1>2, <1>3, RecursionExists
<1>5. /\ f \in [0 .. N -> V] /\ f[0] = FirstReached
      /\ \A n \in 0 .. N : n < N => f[n + 1] = OneMore(f[n])
  <2>1. /\ f \in [0 .. N -> V] /\ f[0] = FirstReached
        /\ \A n \in 0 .. N : n < N => f[n + 1] = step[<<f[n], n + 1>>]
    BY <1>4 DEF Follows
  <2>2. ASSUME NEW n \in 0 .. N, n < N PROVE f[n + 1] = OneMore(f[n])
    <3>1. f[n] \in V /\ n + 1 \in Nat
      BY <2>1, <2>2
    <3>2. <<f[n], n + 1>> \in V \X Nat /\ <<f[n], n + 1>>[1] = f[n]
      BY <3>1
    <3>3. step[<<f[n], n + 1>>] = OneMore(<<f[n], n + 1>>[1])
      <4> HIDE DEF V
      <4> QED BY <3>2
    <3>4. step[<<f[n], n + 1>>] = OneMore(f[n])
      BY <3>2, <3>3, Zenon
    <3> HIDE DEF step
    <3> QED BY <2>1, <2>2, <3>4
  <2> QED BY <2>1, <2>2
<1> HIDE DEF step, V
<1>6. Loops(f)
  <2>1. ASSUME NEW n \in 0 .. N
        PROVE  f[n] = IF n = 0 THEN FirstReached ELSE OneMore(f[n - 1])
    <3>1. CASE n = 0
      BY <1>5, <3>1
    <3>2. CASE n # 0
      <4>1. n - 1 \in 0 .. N /\ n - 1 < N /\ (n - 1) + 1 = n
        BY <1>1, <3>2
      <4>2. f[(n - 1) + 1] = OneMore(f[n - 1])
        BY <1>5, <4>1
      <4> QED BY <3>2, <4>1, <4>2
    <3> QED BY <3>1, <3>2
  <2> QED BY <1>5, <2>1
<1>7. PICK g : Loops(g) /\ Reached = g[N]
  <2>1. Loops(CHOOSE u : Loops(u))
    <3> HIDE DEF Loops
    <3> QED BY <1>6
  <2>2. Reached = (CHOOSE u : Loops(u))[N]
    BY <1>1 DEF Reached, OneMore, FirstReached
  <2> HIDE DEF Loops
  <2> QED BY <2>1, <2>2
<1>8. g[0] = FirstReached /\ \A n \in 0 .. N : n < N => g[n + 1] = OneMore(g[n])
  <2>1. 0 \in 0 .. N
    BY <1>1
  <2>2. g[0] = FirstReached
    BY <1>7, <2>1
  <2>3. ASSUME NEW n \in 0 .. N, n < N PROVE g[n + 1] = OneMore(g[n])
    <3>1. n + 1 \in 0 .. N /\ n + 1 # 0 /\ (n + 1) - 1 = n
      BY <1>1, <2>3
    <3>2. g[n + 1] = OneMore(g[(n + 1) - 1])
      BY <1>7, <3>1
    <3> QED BY <3>1, <3>2
  <2> QED BY <2>2, <2>3
<1>9. \A n \in 0 .. N : g[n] \in SUBSET K
  <2> DEFINE T == {n \in 0 .. N : g[n] \in SUBSET K}
  <2>1. 0 \in T
    BY <1>1, <1>3, <1>8 DEF V
  <2>2. ASSUME NEW n \in 0 .. N, n < N, n \in T PROVE n + 1 \in T
    <3>1. n + 1 \in 0 .. N
      BY <1>1, <2>2
    <3>2. g[n + 1] = OneMore(g[n]) /\ g[n] \in SUBSET K
      BY <1>8, <2>2
    <3> QED BY <3>1, <3>2, OneMoreStays
  <2>3. \A n \in 0 .. N : n \in T
    <3> HIDE DEF T
    <3> QED BY <1>1, <2>1, <2>2, IntervalInduction
  <2> QED BY <2>3
<1> QED BY <1>1, <1>7, <1>8, <1>9 DEF Within

\* The roots reach nothing outside K.
LEMMA ReachedIn ==
    ASSUME NEW K, Covers(K)
    PROVE  Reached \subseteq K
<1>1. PICK g : Within(g) /\ \A n \in 0 .. Cardinality(Names) : g[n] \in SUBSET K
  BY ReachedWithin
<1>2. Cardinality(Names) \in 0 .. Cardinality(Names)
  BY NamesAssumption, FS_CardinalityType
<1> QED BY <1>1, <1>2 DEF Within

\* When K has no more tuples than there are names, Reached is all that the roots
\* reach: each round finds another tuple or is the last.
LEMMA ReachedCovers ==
    ASSUME NEW K, Covers(K), IsFiniteSet(K), Cardinality(K) <= Cardinality(Names)
    PROVE  Covers(Reached) /\ Reached \subseteq K
<1>1. PICK N \in Nat : N = Cardinality(Names)
  BY NamesAssumption, FS_CardinalityType
<1>2. PICK g : Within(g) /\ \A n \in 0 .. N : g[n] \in SUBSET K
  BY <1>1, ReachedWithin
<1>3. /\ g[0] = FirstReached /\ Reached = g[N]
      /\ \A n \in 0 .. N : n < N => g[n + 1] = OneMore(g[n])
  BY <1>1, <1>2 DEF Within
<1>4. \A n \in 0 .. N : IsFiniteSet(g[n]) /\ Cardinality(g[n]) \in Nat
  BY <1>2, FS_Subset, FS_CardinalityType
<1> DEFINE T == {n \in 0 .. N : FirstReached \subseteq g[n]
                               /\ (OneMore(g[n]) = g[n] \/ n <= Cardinality(g[n]))}
<1>5. 0 \in T
  <2>1. 0 \in 0 .. N /\ 0 <= Cardinality(g[0])
    BY <1>1, <1>4
  <2> QED BY <1>3, <2>1
<1>6. ASSUME NEW n \in 0 .. N, n < N, n \in T PROVE n + 1 \in T
  <2>1. n + 1 \in 0 .. N /\ g[n + 1] = OneMore(g[n])
    BY <1>1, <1>3, <1>6
  <2>2. FirstReached \subseteq g[n + 1]
    BY <1>6, <2>1 DEF OneMore
  <2>3. CASE OneMore(g[n]) = g[n]
    BY <2>1, <2>2, <2>3
  <2>4. CASE OneMore(g[n]) # g[n]
    <3>1. PICK b : b \in g[n + 1] /\ b \notin g[n]
      BY <2>1, <2>4 DEF OneMore
    <3>2. g[n] \cup {b} \in SUBSET g[n + 1]
      BY <2>1, <3>1 DEF OneMore
    <3>3. Cardinality(g[n] \cup {b}) = Cardinality(g[n]) + 1
      BY <1>4, <3>1, FS_AddElement
    <3>4. Cardinality(g[n] \cup {b}) <= Cardinality(g[n + 1])
      BY <1>4, <2>1, <3>2, FS_Subset
    <3>5. n <= Cardinality(g[n])
      BY <1>6, <2>4
    <3>6. Cardinality(g[n]) \in Nat /\ Cardinality(g[n + 1]) \in Nat
      BY <1>4, <2>1
    <3>7. n + 1 <= Cardinality(g[n + 1])
      BY <3>3, <3>4, <3>5, <3>6
    <3> QED BY <2>1, <2>2, <3>7
  <2> QED BY <2>3, <2>4
<1>7. N \in T
  <2>1. \A n \in 0 .. N : n \in T
    <3> HIDE DEF T
    <3> QED BY <1>1, <1>5, <1>6, IntervalInduction
  <2>2. N \in 0 .. N
    BY <1>1
  <2> HIDE DEF T
  <2> QED BY <2>1, <2>2
<1>8. OneMore(Reached) = Reached
  <2>1. CASE OneMore(g[N]) = g[N]
    BY <1>3, <2>1
  <2>2. CASE N <= Cardinality(g[N])
    <3>1. g[N] \in SUBSET K /\ Cardinality(g[N]) \in Nat /\ Cardinality(K) \in Nat
      BY <1>1, <1>2, <1>4, FS_CardinalityType
    <3>2. Cardinality(g[N]) <= Cardinality(K)
      BY <3>1, FS_Subset
    <3>3. Cardinality(K) = Cardinality(g[N])
      BY <1>1, <2>2, <3>1, <3>2
    <3>4. g[N] = K
      BY <3>1, <3>3, FS_Subset
    <3>5. OneMore(K) \in SUBSET K /\ K \subseteq OneMore(K)
      BY OneMoreStays DEF OneMore
    <3> QED BY <1>3, <3>4, <3>5
  <2> QED BY <1>7, <2>1, <2>2
<1>9. Covers(Reached)
  <2>1. FirstReached \subseteq Reached
    BY <1>3, <1>7
  <2>2. ASSUME NEW a \in Reached PROVE Children(a) \subseteq Reached
    BY <1>8 DEF OneMore
  <2> QED BY <2>1, <2>2 DEF Covers
<1> QED BY <1>9, ReachedIn

-----------------------------------------------------------------------------
(* The invariant keeps sharing *)

At(s, S) == {<<s, o>> : o \in S}

LEMMA DistinctSharing ==
    ASSUME NEW K, Covers(K), Distinct(K)
    PROVE  SharingKept
BY ReachedIn DEF Distinct, SharingKept

\* A tuple that has not been copied is where it is, and a forward where its
\* copy is.
LEMMA TupleResolved ==
    ASSUME NEW s, NEW o, IsTuple(heap, s, o)
    PROVE  Resolved(<<s, o>>) = <<s, o>>
<1>1. PICK h \in HeaderRecords : heap[s][o] = Header(h) /\ ~ h.forward
  BY DEF IsTuple
<1>2. HeaderOf(<<s, o>>) = h
  BY <1>1 DEF HeaderOf, Header
<1> QED BY <1>1, <1>2 DEF Resolved

LEMMA ForwardResolved ==
    ASSUME NEW s, NEW o, NEW t, NEW c, IsForward(heap, s, o, t, c)
    PROVE  Resolved(<<s, o>>) = <<t, c>>
<1>1. PICK h \in HeaderRecords : heap[s][o] = Header(h) /\ h.forward
  BY DEF IsForward
<1>2. HeaderOf(<<s, o>>) = h
  BY <1>1 DEF HeaderOf, Header
<1>3. heap[s][o + 1] = Pointer(<<t, c>>)
  BY DEF IsForward
<1> QED BY <1>1, <1>2, <1>3 DEF Resolved, Pointer

LEMMA LiveCovers ==
    ASSUME roots \in Seq(Words), NEW s, NEW S, NEW L, Live(heap, name, roots, s, S, L)
    PROVE  Covers(At(s, S)) /\ Distinct(At(s, S))
<1>1. \A o \in S : Resolved(<<s, o>>) = <<s, o>>
  BY TupleResolved DEF Live
<1>2. ASSUME NEW word, PointsInto(word, s, S)
      PROVE  Resolved(word[2]) \in At(s, S)
  BY <1>1, <1>2 DEF PointsInto, Pointer, At
<1>3. FirstReached \subseteq At(s, S)
  <2>1. \A i \in DOMAIN roots : PointsInto(roots[i], s, S)
    BY DEF Live
  <2> QED BY <1>2, <2>1 DEF FirstReached
<1>4. ASSUME NEW a \in At(s, S) PROVE Children(a) \subseteq At(s, S)
  <2>1. PICK o \in S : a = <<s, o>>
    BY DEF At
  <2>2. \A k \in MaskAt(heap, s, o) : PointsInto(heap[s][o + k + 1], s, S)
    BY DEF Live
  <2>3. \A k \in HeaderOf(a).mask : PointsInto(FieldOf(a, k), s, S)
    BY <2>1, <2>2 DEF HeaderOf, FieldOf, MaskAt
  <2> QED BY <1>2, <2>3 DEF Children
<1>5. Distinct(At(s, S))
  BY DEF Live, Named, At, Distinct, NameOf
<1> QED BY <1>3, <1>4, <1>5 DEF Covers

LEMMA CopyingCovers ==
    ASSUME roots \in Seq(Words), NEW f \in {0, 1}, NEW U, NEW F, NEW C, NEW L, NEW w, NEW i,
           Copying(heap, name, roots, f, U, F, C, L, w, i)
    PROVE  /\ Covers(At(f, U) \cup At(1 - f, C))
           /\ Distinct(At(f, U) \cup At(1 - f, C))
<1> DEFINE K == At(f, U) \cup At(1 - f, C)
<1>1. \A o \in U : Resolved(<<f, o>>) \in K
  BY TupleResolved DEF Copying, OldSpace, At
<1>2. \A o \in F : Resolved(<<f, o>>) \in K
  <2> SUFFICES ASSUME NEW o \in F PROVE Resolved(<<f, o>>) \in K
    OBVIOUS
  <2>1. PICK c \in C : IsForward(heap, f, o, 1 - f, c)
    BY DEF Copying, OldSpace
  <2> QED BY <2>1, ForwardResolved DEF At
<1>3. \A c \in C : Resolved(<<1 - f, c>>) \in K
  BY TupleResolved DEF Copying, NewSpace, At
<1>4. ASSUME NEW word, PointsInto(word, f, U \cup F) \/ PointsInto(word, 1 - f, C)
      PROVE  Resolved(word[2]) \in K
  <2> HIDE DEF K
  <2> QED BY <1>1, <1>2, <1>3, <1>4 DEF PointsInto, Pointer
<1>5. FirstReached \subseteq K
  <2>1. \A j \in DOMAIN roots : PointsInto(roots[j], f, U \cup F) \/ PointsInto(roots[j], 1 - f, C)
    <3> SUFFICES ASSUME NEW j \in 1 .. Len(roots)
                 PROVE  PointsInto(roots[j], f, U \cup F) \/ PointsInto(roots[j], 1 - f, C)
      <4>1. DOMAIN roots = 1 .. Len(roots)
        OBVIOUS
      <4> QED BY <4>1, Zenon
    <3>1. IF j <= i THEN PointsInto(roots[j], 1 - f, C) ELSE PointsInto(roots[j], f, U \cup F)
      BY DEF Copying, Pointers
    <3> QED BY <3>1
  <2> HIDE DEF K
  <2> QED BY <1>4, <2>1 DEF FirstReached
<1>6. ASSUME NEW a \in K PROVE Children(a) \subseteq K
  <2>1. \A k \in HeaderOf(a).mask : PointsInto(FieldOf(a, k), f, U \cup F)
                                    \/ PointsInto(FieldOf(a, k), 1 - f, C)
    <3>1. CASE a \in At(f, U)
      <4>1. PICK o \in U : a = <<f, o>>
        BY <3>1 DEF At
      <4>2. \A k \in MaskAt(heap, f, o) : PointsInto(heap[f][o + k + 1], f, U \cup F)
        BY DEF Copying, OldSpace
      <4> QED BY <4>1, <4>2 DEF HeaderOf, FieldOf, MaskAt
    <3>2. CASE a \in At(1 - f, C)
      <4>1. PICK c \in C : a = <<1 - f, c>>
        BY <3>2 DEF At
      <4>2. \A k \in MaskAt(heap, 1 - f, c) :
              PointsInto(heap[1 - f][c + k + 1], f, U \cup F)
                \/ PointsInto(heap[1 - f][c + k + 1], 1 - f, C)
        BY DEF Copying, Pointers
      <4> QED BY <4>1, <4>2 DEF HeaderOf, FieldOf, MaskAt
    <3> QED BY <3>1, <3>2
  <2> HIDE DEF K
  <2> QED BY <1>4, <2>1 DEF Children
<1>7. Distinct(K)
  BY DEF Copying, NamedApart, Named, At, Distinct, NameOf
<1> QED BY <1>5, <1>6, <1>7 DEF Covers

LEMMA RunningCovers ==
    ASSUME Running
    PROVE  \E K : Covers(K) /\ Distinct(K)
<1>1. roots \in Seq(Words) /\ from \in {0, 1} /\ (AtRest \/ InCopy \/ Copied)
  BY DEF Running, GcTypes
<1>2. CASE AtRest
  BY <1>1, <1>2, LiveCovers DEF AtRest
<1>3. CASE Copied
  BY <1>1, <1>3, LiveCovers DEF Copied
<1>4. CASE InCopy
  <2>1. PICK U, F, C, w, i : Copying(heap, name, roots, from, U, F, C, free, w, i)
    BY <1>4 DEF InCopy
  <2> QED BY <1>1, <2>1, CopyingCovers
<1> QED BY <1>1, <1>2, <1>3, <1>4

LEMMA InvariantSharing == GcInv => SharingKept
<1> SUFFICES ASSUME GcInv PROVE SharingKept
  OBVIOUS
<1>1. \E K : Covers(K) /\ Distinct(K)
  BY RunningCovers DEF GcInv
<1> QED BY <1>1, DistinctSharing

\* The program ends, whatever the reason.
LEMMA StopStep ==
    ASSUME Running, NEW reason \in {"abort", "wild", "exhausted"}, Stop(reason)
    PROVE  GcInv'
<1>1. PICK K : Covers(K) /\ Distinct(K)
  BY RunningCovers
<1>2. /\ heap' = heap /\ name' = name /\ roots' = roots /\ pc' = reason
  BY SMTT(40) DEF Stop
<1>3. Covers(K)'
  BY <1>1, <1>2, ZenonT(60) DEF Covers, FirstReached, Children, Resolved, HeaderOf, FieldOf
<1>4. Distinct(K)'
  BY <1>1, <1>2 DEF Distinct, NameOf
<1>5. Stopped'
  BY <1>2 DEF Stopped
<1> QED BY <1>3, <1>4, <1>5 DEF GcInv

-----------------------------------------------------------------------------
(* What gc_copy_tuple does *)

LEMMA MemoryDomain ==
    ASSUME NEW H, Memory(H), NEW s \in {0, 1}
    PROVE  /\ Cardinality(DOMAIN H[s]) \in Nat
           /\ DOMAIN H[s] = 0 .. Cardinality(DOMAIN H[s]) - 1
           /\ H[s] \in [DOMAIN H[s] -> Words]
           /\ \A o \in DOMAIN H[s] : H[s][o] \in Words
<1>1. H[s] \in Block(H, s) /\ Cardinality(DOMAIN H[s]) \in Nat
  BY DEF Memory
<1>2. H[s] \in [0 .. Cardinality(DOMAIN H[s]) - 1 -> Words]
  BY <1>1 DEF Block
<1>3. PICK D : D = 0 .. Cardinality(DOMAIN H[s]) - 1
  OBVIOUS
<1>4. H[s] \in [D -> Words]
  BY <1>2, <1>3
<1>5. DOMAIN H[s] = D /\ H[s] \in [DOMAIN H[s] -> Words] /\ \A o \in DOMAIN H[s] : H[s][o] \in Words
  BY <1>4
<1> QED BY <1>1, <1>3, <1>5

\* A memory in which the words have been replaced
LEMMA MemoryAgain ==
    ASSUME NEW H, Memory(H), NEW G, DOMAIN G = {0, 1},
           \A s \in {0, 1} : G[s] \in [DOMAIN H[s] -> Words]
    PROVE  Memory(G) /\ \A s \in {0, 1} : DOMAIN G[s] = DOMAIN H[s]
<1>1. ASSUME NEW s \in {0, 1}
      PROVE  /\ Cardinality(DOMAIN G[s]) \in Nat /\ G[s] \in Block(G, s)
             /\ DOMAIN G[s] = DOMAIN H[s]
  <2>1. DOMAIN G[s] = DOMAIN H[s]
    OBVIOUS
  <2>2. /\ Cardinality(DOMAIN H[s]) \in Nat
        /\ DOMAIN H[s] = 0 .. Cardinality(DOMAIN H[s]) - 1
    BY MemoryDomain
  <2>3. G[s] \in [DOMAIN H[s] -> Words]
    OBVIOUS
  <2>4. G[s] \in [0 .. Cardinality(DOMAIN G[s]) - 1 -> Words]
    BY <2>1, <2>2, <2>3, Zenon
  <2> QED BY <2>1, <2>2, <2>4 DEF Block
<1> QED BY <1>1 DEF Memory

\* What a store into a field leaves
LEMMA StoredWords ==
    ASSUME NEW H, Memory(H), NEW s \in {0, 1}, NEW o \in DOMAIN H[s],
           NEW k \in Nat, NEW w, NEW e, NEW G, G = stored(H, s, o, k, w, e)
    PROVE  /\ DOMAIN G = {0, 1} /\ (\A t \in {0, 1} : t # s => G[t] = H[t])
           /\ DOMAIN G[s] = DOMAIN H[s]
           /\ \A p \in DOMAIN H[s] :
                G[s][p] = IF p = o + k + 1 THEN w ELSE IF p = o THEN Header(e)
                          ELSE H[s][p]
<1>1. G = [H EXCEPT ![s] = [[H[s] EXCEPT ![o] = Header(e)] EXCEPT ![o + k + 1] = w]]
  BY DEF stored
<1>2. DOMAIN H = {0, 1}
  BY DEF Memory
<1> QED BY <1>1, <1>2

LEMMA StoredFacts ==
    ASSUME NEW H, Memory(H), NEW s \in {0, 1}, NEW o \in DOMAIN H[s],
           NEW h \in HeaderRecords, H[s][o] = Header(h),
           NEW k \in Nat, NEW w, NEW m, NEW G, G = StoredMask(H, s, o, k, w, m)
    PROVE  /\ DOMAIN G = {0, 1} /\ (\A t \in {0, 1} : t # s => G[t] = H[t])
           /\ DOMAIN G[s] = DOMAIN H[s]
           /\ \A p \in DOMAIN H[s] :
                G[s][p] = IF p = o + k + 1 THEN w ELSE IF p = o THEN Masked(h, m)
                          ELSE H[s][p]
<1>1. G = stored(H, s, o, k, w, [h EXCEPT !.mask = m])
  BY WordKinds DEF StoredMask
<1> QED BY <1>1, StoredWords DEF Masked

\* A copy of the tuple at o, taken for one with header h
CopyOf(copy, o, h) ==
    /\ ~ free >= size(to) /\ ~ o + 1 >= size(from)
    /\ \/ /\ h.forward
          /\ copy.heap = heap /\ copy.name = name /\ copy.free = free
          /\ copy.word = heap[from][o + 1]
       \/ /\ ~ h.forward
          /\ ~ o + h.size >= size(from)
          /\ ~ free + h.size >= size(to)
          /\ copy.heap = copied(o, h)
          /\ copy.name = [name EXCEPT ![to][free] = name[from][o]]
          /\ copy.free = free + h.size + 1
          /\ copy.word = Pointer(<<to, free>>)

LEMMA CopyCases ==
    ASSUME NEW word, NEW o, o = word[2][2], NEW copy \in gc_copy_tuple(word)
    PROVE  \/ copy.stop \in {"abort", "wild"}
           \/ /\ copy.stop = "no" /\ in_from_space(word)
              /\ \E h \in AsHeader(heap[from][o]) : CopyOf(copy, o, h)
<1>1. CASE ~ in_from_space(word) \/ free >= size(to)
  <2>1. copy = [stop |-> "abort"]
    BY <1>1, Zenon DEF gc_copy_tuple
  <2> QED BY <2>1
<1>2. CASE in_from_space(word) /\ ~ free >= size(to)
  <2>1. PICK h \in AsHeader(heap[from][o]) :
          copy = IF \/ o + 1 >= size(from)
                    \/ ~ h.forward /\ o + h.size >= size(from)
                    \/ ~ h.forward /\ free + h.size >= size(to)
                 THEN [stop |-> "wild"]
                 ELSE IF h.forward
                 THEN [stop |-> "no", heap |-> heap, name |-> name, free |-> free,
                       word |-> heap[from][o + 1]]
                 ELSE [stop |-> "no", heap |-> copied(o, h),
                       name |-> [name EXCEPT ![to][free] = name[from][o]],
                       free |-> free + h.size + 1, word |-> Pointer(<<to, free>>)]
    BY <1>2, Zenon DEF gc_copy_tuple
  <2>2. CASE \/ o + 1 >= size(from)
             \/ ~ h.forward /\ o + h.size >= size(from)
             \/ ~ h.forward /\ free + h.size >= size(to)
    <3>1. copy = [stop |-> "wild"]
      BY <2>1, <2>2, Zenon
    <3> QED BY <3>1
  <2>3. CASE /\ ~ o + 1 >= size(from)
             /\ ~ (~ h.forward /\ o + h.size >= size(from))
             /\ ~ (~ h.forward /\ free + h.size >= size(to))
    <3>1. CASE h.forward
      <4>1. copy = [stop |-> "no", heap |-> heap, name |-> name, free |-> free,
                    word |-> heap[from][o + 1]]
        BY <2>1, <2>3, <3>1, Zenon
      <4>2. /\ copy.stop = "no" /\ copy.heap = heap /\ copy.name = name /\ copy.free = free
            /\ copy.word = heap[from][o + 1]
        BY <4>1
      <4> QED BY <1>2, <2>3, <3>1, <4>2, Zenon DEF CopyOf
    <3>2. CASE ~ h.forward
      <4>1. copy = [stop |-> "no", heap |-> copied(o, h),
                    name |-> [name EXCEPT ![to][free] = name[from][o]],
                    free |-> free + h.size + 1, word |-> Pointer(<<to, free>>)]
        BY <2>1, <2>3, <3>2, Zenon
      <4>2. /\ copy.stop = "no" /\ copy.heap = copied(o, h)
            /\ copy.name = [name EXCEPT ![to][free] = name[from][o]]
            /\ copy.free = free + h.size + 1 /\ copy.word = Pointer(<<to, free>>)
        BY <4>1
      <4> QED BY <1>2, <2>3, <3>2, <4>2, Zenon DEF CopyOf
    <3> QED BY <3>1, <3>2
  <2> QED BY <2>2, <2>3
<1> QED BY <1>1, <1>2

\* The header that gc_copy_tuple leaves behind
Forwarded(h) == Header([h EXCEPT !.forward = TRUE])

\* G is the heap after the tuple at o has been copied.
HasCopied(G, o, h) ==
    /\ Memory(G) /\ \A s \in {0, 1} : DOMAIN G[s] = DOMAIN heap[s]
    /\ \A p \in DOMAIN heap[to] :
         G[to][p] = IF p = free THEN Header(h)
                    ELSE IF p \in free .. free + h.size THEN heap[from][o + p - free]
                    ELSE heap[to][p]
    /\ \A p \in DOMAIN heap[from] :
         G[from][p] = IF p = o + 1 THEN Pointer(<<to, free>>)
                      ELSE IF p = o THEN Forwarded(h)
                      ELSE heap[from][p]

LEMMA CopiedFacts ==
    ASSUME Memory(heap), from \in {0, 1}, free \in Nat, NEW o \in Nat, NEW h \in HeaderRecords,
           o + 1 < size(from), o + h.size < size(from), free + h.size < size(to),
           NEW G, G = copied(o, h)
    PROVE  HasCopied(G, o, h)
<1>1. to \in {0, 1} /\ to # from /\ (\A s \in {0, 1} : s = from \/ s = to)
  BY DEF to
<1>2. /\ DOMAIN heap = {0, 1}
      /\ DOMAIN heap[from] = 0 .. size(from) - 1 /\ DOMAIN heap[to] = 0 .. size(to) - 1
      /\ size(from) \in Nat /\ size(to) \in Nat
  BY <1>1, MemoryDomain DEF size, Memory
<1>3. h.size \in Nat
  BY DEF HeaderRecords
<1>4. o \in DOMAIN heap[from] /\ o + 1 \in DOMAIN heap[from]
  BY <1>2
<1> DEFINE T == [p \in DOMAIN heap[to] |->
                  IF p = free THEN Header(h)
                  ELSE IF p \in free .. free + h.size
                  THEN heap[from][o + p - free]
                  ELSE heap[to][p]]
           B == [heap[from] EXCEPT
                    ![o] = Header([h EXCEPT !.forward = TRUE]),
                    ![o + 1] = Pointer(<<to, free>>)]
<1>5. G = [heap EXCEPT ![to] = T, ![from] = B]
  BY DEF copied
<1>6. T \in [DOMAIN heap[to] -> Words]
  <2> SUFFICES ASSUME NEW p \in DOMAIN heap[to] PROVE T[p] \in Words
    OBVIOUS
  <2>1. CASE p = free
    BY <2>1 DEF Words
  <2>2. CASE p # free /\ p \in free .. free + h.size
    <3>1. o + p - free \in DOMAIN heap[from]
      BY <1>2, <1>3, <2>2, SMTT(40)
    <3>2. heap[from][o + p - free] \in Words
      BY <3>1, MemoryDomain
    <3> QED BY <2>2, <3>2
  <2>3. CASE p # free /\ p \notin free .. free + h.size
    <3>1. heap[to][p] \in Words
      BY <1>1, MemoryDomain
    <3> QED BY <2>3, <3>1
  <2> QED BY <2>1, <2>2, <2>3
<1>7. B \in [DOMAIN heap[from] -> Words]
  <2>1. heap[from] \in [DOMAIN heap[from] -> Words]
    BY MemoryDomain
  <2>2. Header([h EXCEPT !.forward = TRUE]) \in Words
    BY DEF Words, HeaderRecords
  <2>3. Pointer(<<to, free>>) \in Words
    <3>1. <<to, free>> \in (0 .. 2) \X Nat
      BY <1>1
    <3> QED BY <3>1 DEF Words
  <2> QED BY <2>1, <2>2, <2>3
<1>8. \A p \in DOMAIN heap[from] :
        B[p] = IF p = o + 1 THEN Pointer(<<to, free>>)
               ELSE IF p = o THEN Forwarded(h)
               ELSE heap[from][p]
  BY <1>4 DEF Forwarded
<1>9. DOMAIN G = {0, 1} /\ G[to] = T /\ G[from] = B
  <2> HIDE DEF T, B
  <2> QED BY <1>1, <1>2, <1>5
<1>10. \A s \in {0, 1} : G[s] \in [DOMAIN heap[s] -> Words]
  <2> HIDE DEF T, B
  <2> QED BY <1>1, <1>6, <1>7, <1>9
<1>11. Memory(G) /\ \A s \in {0, 1} : DOMAIN G[s] = DOMAIN heap[s]
  <2> HIDE DEF T, B
  <2> QED BY <1>9, <1>10, MemoryAgain
<1>12. \A p \in DOMAIN heap[to] :
                T[p] = IF p = free THEN Header(h)
                           ELSE IF p \in free .. free + h.size THEN heap[from][o + p - free]
                           ELSE heap[to][p]
  OBVIOUS
<1> QED
  <2> HIDE DEF T, B
  <2> QED BY <1>8, <1>9, <1>11, <1>12, Zenon DEF HasCopied

Renamed(N, s, o, v) == [N EXCEPT ![s][o] = v]

LEMMA NameSet ==
    ASSUME NEW N, Tables(N), NEW s \in {0, 1}, NEW o \in 0 .. MaxHeap - 1, NEW v,
           NEW M, M = Renamed(N, s, o, v)
    PROVE  /\ Tables(M) /\ \A t \in {0, 1} : t # s => M[t] = N[t]
           /\ M[s][o] = v /\ \A p : p # o => M[s][p] = N[s][p]
<1>1. M = [N EXCEPT ![s] = [N[s] EXCEPT ![o] = v]]
  BY DEF Renamed
<1>2. 1 - s \in {0, 1} /\ 1 - s # s /\ \A t \in {0, 1} : t = s \/ t = 1 - s
  OBVIOUS
<1>3. DOMAIN M = {0, 1} /\ M[1 - s] = N[1 - s] /\ M[s] = [N[s] EXCEPT ![o] = v]
  BY <1>1, <1>2 DEF Tables
<1>4. DOMAIN N[s] = 0 .. MaxHeap - 1 /\ DOMAIN N[1 - s] = 0 .. MaxHeap - 1
  BY <1>2 DEF Tables
<1>5. DOMAIN M[s] = 0 .. MaxHeap - 1 /\ M[s][o] = v
  BY <1>3, <1>4
<1>6. ASSUME NEW p, p # o PROVE M[s][p] = N[s][p]
  BY <1>3, <1>6
<1> QED BY <1>2, <1>3, <1>4, <1>5, <1>6 DEF Tables

\* What holds of every copy that does not stop the program
Took(copy) ==
    /\ Memory(copy.heap) /\ \A s \in {0, 1} : DOMAIN copy.heap[s] = DOMAIN heap[s]
    /\ Tables(copy.name) /\ copy.name[from] = name[from]
    /\ copy.free \in Nat /\ free <= copy.free /\ copy.free <= size(to)
    /\ copy.word \in Words
    /\ \A q \in DOMAIN heap[to] : q < free => copy.heap[to][q] = heap[to][q]
    /\ \A q : q # free => copy.name[to][q] = name[to][q]
    /\ \/ copy.heap[to][free] = heap[to][free]
       \/ \E h \in HeaderRecords : copy.heap[to][free] = Header(h)

\* The sizes that SpacesGrow gives
Sized == from \in {0, 1} /\ size(from) \in 1 .. MaxHeap /\ size(to) \in 1 .. MaxHeap

LEMMA CopyTook ==
    ASSUME Memory(heap), Tables(name), Sized, free \in Nat,
           NEW word \in Words, NEW copy \in gc_copy_tuple(word), copy.stop = "no"
    PROVE  Took(copy)
<1>1. to \in {0, 1} /\ to = 1 - from /\ from = 1 - to
  BY DEF to, Sized
<1>2. /\ DOMAIN heap = {0, 1} /\ from \in {0, 1}
      /\ DOMAIN heap[from] = 0 .. size(from) - 1 /\ DOMAIN heap[to] = 0 .. size(to) - 1
      /\ size(from) \in Nat /\ size(to) \in Nat
  BY <1>1, MemoryDomain DEF size, Memory, Sized
<1>3. PICK o : o = word[2][2]
  OBVIOUS
<1>4. PICK h \in AsHeader(heap[from][o]) : in_from_space(word) /\ CopyOf(copy, o, h)
  <2>1. copy.stop \notin {"abort", "wild"}
    OBVIOUS
  <2> QED BY <1>3, <2>1, CopyCases, Zenon
<1>5. o \in Nat
  <2>1. word[1] = "tuple"
    BY <1>4 DEF in_from_space
  <2>2. word[2] \in (0 .. 2) \X Nat
    BY <2>1, WordIs
  <2> QED BY <1>3, <2>2
<1>6. free < size(to)
  BY <1>2, <1>4 DEF CopyOf
<1>7. ~ o + 1 >= size(from)
  BY <1>4 DEF CopyOf
<1>8. o + 1 < size(from) /\ o \in DOMAIN heap[from] /\ o + 1 \in DOMAIN heap[from]
  BY <1>2, <1>5, <1>7
<1>9. h \in HeaderRecords /\ h.size \in Nat
  BY <1>2, <1>8, MemoryDomain, HeaderTaken DEF HeaderRecords
<1>10. CASE /\ h.forward
            /\ copy.heap = heap /\ copy.name = name /\ copy.free = free
            /\ copy.word = heap[from][o + 1]
  <2>1. copy.word \in Words
    BY <1>2, <1>8, <1>10, MemoryDomain
  <2>2. copy.free \in Nat /\ free <= copy.free /\ copy.free <= size(to)
    BY <1>2, <1>6, <1>10
  <2> QED BY <1>10, <2>1, <2>2 DEF Took
<1>11. CASE /\ ~ h.forward
            /\ ~ o + h.size >= size(from)
            /\ ~ free + h.size >= size(to)
            /\ copy.heap = copied(o, h)
            /\ copy.name = [name EXCEPT ![to][free] = name[from][o]]
            /\ copy.free = free + h.size + 1
            /\ copy.word = Pointer(<<to, free>>)
  <2>1. o + h.size < size(from) /\ free + h.size < size(to)
    BY <1>2, <1>5, <1>9, <1>11
  <2>2. PICK G, M : /\ G = copied(o, h) /\ G = copy.heap
                    /\ M = [name EXCEPT ![to][free] = name[from][o]] /\ M = copy.name
    BY <1>11
  <2>3. /\ Memory(G) /\ \A s \in {0, 1} : DOMAIN G[s] = DOMAIN heap[s]
        /\ \A p \in DOMAIN heap[to] :
             G[to][p] = IF p = free THEN Header(h)
                        ELSE IF p \in free .. free + h.size THEN heap[from][o + p - free]
                        ELSE heap[to][p]
    <3>1. G = copied(o, h)
      BY <2>2
    <3>2. HasCopied(G, o, h)
      BY <1>2, <1>5, <1>8, <1>9, <2>1, <3>1, CopiedFacts
    <3> QED BY <3>2 DEF HasCopied
  <2>4. /\ Tables(M) /\ \A t \in {0, 1} : t # to => M[t] = name[t]
        /\ \A q : q # free => M[to][q] = name[to][q]
    <3>1. free \in 0 .. MaxHeap - 1
      BY <1>6, SizesAssumption DEF Sized
    <3>2. M = Renamed(name, to, free, name[from][o])
      BY <2>2 DEF Renamed
    <3>3. Tables(name) /\ to \in {0, 1}
      BY <1>1
    <3> QED BY <3>1, <3>2, <3>3, NameSet
  <2>5. copy.free \in Nat /\ free <= copy.free /\ copy.free <= size(to)
    BY <1>2, <1>9, <1>11, <2>1
  <2>6. copy.word \in Words
    <3>1. <<to, free>> \in (0 .. 2) \X Nat
      BY <1>1
    <3> QED BY <1>11, <3>1 DEF Words
  <2>7. \A q \in DOMAIN heap[to] : q < free => G[to][q] = heap[to][q]
    <3> SUFFICES ASSUME NEW q \in DOMAIN heap[to], q < free PROVE G[to][q] = heap[to][q]
      OBVIOUS
    <3>1. q # free /\ q \notin free .. free + h.size
      BY <1>2
    <3> QED BY <2>3, <3>1
  <2>8. G[to][free] = Header(h)
    <3>1. free \in DOMAIN heap[to]
      BY <1>2, <1>6
    <3> QED BY <2>3, <3>1
  <2>9. M[from] = name[from]
    BY <1>1, <2>4
  <2> QED BY <1>9, <2>2, <2>3, <2>4, <2>5, <2>6, <2>7, <2>8, <2>9, Zenon DEF Took
<1> QED BY <1>4, <1>10, <1>11 DEF CopyOf

-----------------------------------------------------------------------------
(* What keeps live tuples alive *)

\* The header of o and the fields in its mask are in G what they are in H.
SameTuple(H, G, s, o) ==
    /\ G[s][o] = H[s][o] /\ o + SizeAt(H, s, o) \in DOMAIN G[s]
    /\ \A k \in MaskAt(H, s, o) : G[s][o + k + 1] = H[s][o + k + 1]

LEMMA TupleFacts ==
    ASSUME NEW H, NEW s, NEW o, IsTuple(H, s, o)
    PROVE  /\ o \in Nat /\ SizeAt(H, s, o) \in Nat \ {0} /\ SizeAt(H, s, o) <= 24
           /\ MaskAt(H, s, o) \in SUBSET Nat
           /\ \A k \in MaskAt(H, s, o) : k \in 0 .. SizeAt(H, s, o) - 1
           /\ o + SizeAt(H, s, o) \in DOMAIN H[s]
           /\ \E h \in HeaderRecords :
                /\ H[s][o] = Header(h) /\ SizeAt(H, s, o) = h.size
                /\ MaskAt(H, s, o) = h.mask /\ ~ h.forward
<1>1. PICK h \in HeaderRecords :
        /\ H[s][o] = Header(h) /\ h.size > 0 /\ h.size <= 24
        /\ h.mask \subseteq 0 .. h.size - 1 /\ ~ h.forward
  BY DEF IsTuple
<1>2. SizeAt(H, s, o) = h.size /\ MaskAt(H, s, o) = h.mask
  BY <1>1, WordKinds DEF SizeAt, MaskAt
<1>3. h.size \in Nat /\ h.mask \in SUBSET Nat
  BY DEF HeaderRecords
<1> QED BY <1>1, <1>2, <1>3 DEF IsTuple

LEMMA SameTupleIs ==
    ASSUME NEW H, NEW G, NEW s, NEW o, IsTuple(H, s, o), SameTuple(H, G, s, o)
    PROVE  /\ IsTuple(G, s, o) /\ SizeAt(G, s, o) = SizeAt(H, s, o)
           /\ MaskAt(G, s, o) = MaskAt(H, s, o)
BY DEF IsTuple, SameTuple, SizeAt, MaskAt

LEMMA LiveKept ==
    ASSUME NEW H, NEW N, NEW R, NEW s, NEW S, NEW L, Live(H, N, R, s, S, L),
           NEW G, \A o \in S : SameTuple(H, G, s, o),
           NEW M, \A o \in S : M[s][o] = N[s][o],
           NEW Q, \A j \in 1 .. Len(Q) : PointsInto(Q[j], s, S),
           NEW K \in Nat, L <= K
    PROVE  Live(G, M, Q, s, S, K)
<1>1. \A o \in S : IsTuple(G, s, o) /\ SizeAt(G, s, o) = SizeAt(H, s, o)
                   /\ MaskAt(G, s, o) = MaskAt(H, s, o)
  BY SameTupleIs DEF Live
<1>2. ASSUME NEW o \in S PROVE o + SizeAt(G, s, o) < K
  <2>1. o + SizeAt(H, s, o) < L /\ IsTuple(H, s, o) /\ L \in Nat
    BY DEF Live
  <2>2. o \in Nat /\ SizeAt(H, s, o) \in Nat
    BY <2>1, TupleFacts
  <2>3. o + SizeAt(H, s, o) < K
    BY <2>1, <2>2
  <2> QED BY <1>1, <2>3
<1>3. Apart(G, s, S)
  BY <1>1 DEF Live, Apart
<1>4. \A o \in S : \A k \in MaskAt(G, s, o) : PointsInto(G[s][o + k + 1], s, S)
  BY <1>1 DEF Live, SameTuple
<1>5. Named(M, s, S)
  BY DEF Live, Named
<1> QED BY <1>1, <1>2, <1>3, <1>4, <1>5 DEF Live

\* A word that is written is no word of another tuple.
LEMMA ApartWords ==
    ASSUME NEW H, NEW s, NEW S, \A o \in S : o \in Nat /\ SizeAt(H, s, o) \in Nat,
           Apart(H, s, S), NEW o \in S, NEW p \in S, o # p
    PROVE  \A j \in 0 .. SizeAt(H, s, o), k \in 0 .. SizeAt(H, s, p) : o + j # p + k
<1>1. o \in Nat /\ p \in Nat /\ SizeAt(H, s, o) \in Nat /\ SizeAt(H, s, p) \in Nat
  OBVIOUS
<1>2. (o < p => o + SizeAt(H, s, o) < p) /\ (p < o => p + SizeAt(H, s, p) < o)
  BY DEF Apart
<1> QED BY <1>1, <1>2

\* The tuples S of a space
Tuples(H, s, S) == (\A o \in S : IsTuple(H, s, o)) /\ Apart(H, s, S)

\* The words of the tuple at o are in G what they are in H.
SameWords(H, G, s, o) ==
    \A j \in 0 .. SizeAt(H, s, o) : G[s][o + j] = H[s][o + j]

\* G is H in which the field k of the tuple c has become w, and the mask m.
FieldSet(H, G, s, S, c, k, w, m) ==
    /\ Memory(G) /\ \A t \in {0, 1} : DOMAIN G[t] = DOMAIN H[t]
    /\ \A t \in {0, 1} : t # s => G[t] = H[t]
    /\ \A o \in S : o # c => SameTuple(H, G, s, o) /\ SameWords(H, G, s, o)
    /\ IsTuple(G, s, c) /\ SizeAt(G, s, c) = SizeAt(H, s, c) /\ MaskAt(G, s, c) = m
    /\ G[s][c + k + 1] = w
    /\ \A j \in 0 .. SizeAt(H, s, c) - 1 : j # k => G[s][c + j + 1] = H[s][c + j + 1]

\* A store into a field of one of the tuples
LEMMA StoreApart ==
    ASSUME NEW H, Memory(H), NEW s \in {0, 1}, NEW S, Tuples(H, s, S), NEW c \in S,
           NEW k \in 0 .. SizeAt(H, s, c) - 1, NEW w \in Words,
           NEW m \in SUBSET (0 .. SizeAt(H, s, c) - 1), NEW G, G = StoredMask(H, s, c, k, w, m)
    PROVE  FieldSet(H, G, s, S, c, k, w, m)
<1>0. (\A o \in S : IsTuple(H, s, o)) /\ Apart(H, s, S)
  BY DEF Tuples
<1>1. PICK h \in HeaderRecords :
        /\ H[s][c] = Header(h) /\ SizeAt(H, s, c) = h.size /\ MaskAt(H, s, c) = h.mask
        /\ ~ h.forward
  BY <1>0, TupleFacts
<1>2. /\ c \in Nat /\ SizeAt(H, s, c) \in Nat \ {0} /\ c + SizeAt(H, s, c) \in DOMAIN H[s]
      /\ k \in Nat
  <2>1. IsTuple(H, s, c)
    BY <1>0
  <2>2. c \in Nat /\ SizeAt(H, s, c) \in Nat \ {0} /\ c + SizeAt(H, s, c) \in DOMAIN H[s]
    BY <2>1, TupleFacts
  <2> QED BY <2>2
<1>3. PICK D : D = DOMAIN H[s]
  OBVIOUS
<1>4. /\ DOMAIN H = {0, 1} /\ H[s] \in [D -> Words] /\ Cardinality(D) \in Nat
      /\ D = 0 .. Cardinality(D) - 1
  BY <1>3, MemoryDomain DEF Memory
<1>5. \A j \in 0 .. SizeAt(H, s, c) : c + j \in D
  <2>1. c + SizeAt(H, s, c) \in D
    BY <1>2, <1>3
  <2> QED BY <1>2, <1>4, <2>1
<1>6. c \in D
  BY <1>2, <1>5
<1>7. /\ DOMAIN G = {0, 1} /\ G[1 - s] = H[1 - s] /\ DOMAIN G[s] = D
      /\ \A p \in D : G[s][p] = IF p = c + k + 1 THEN w
                                ELSE IF p = c THEN Masked(h, m)
                                ELSE H[s][p]
  <2>1. /\ DOMAIN G = {0, 1} /\ (\A t \in {0, 1} : t # s => G[t] = H[t])
        /\ DOMAIN G[s] = DOMAIN H[s]
        /\ \A p \in DOMAIN H[s] :
             G[s][p] = IF p = c + k + 1 THEN w ELSE IF p = c THEN Masked(h, m) ELSE H[s][p]
    <3>1. c \in DOMAIN H[s] /\ k \in Nat /\ H[s][c] = Header(h)
      BY <1>1, <1>2, <1>3, <1>6
    <3> QED BY <3>1, StoredFacts
  <2>2. 1 - s \in {0, 1} /\ 1 - s # s
    OBVIOUS
  <2> QED BY <1>3, <2>1, <2>2
<1>8. PICK e \in HeaderRecords : /\ Masked(h, m) = Header(e)
                                 /\ e.size = h.size /\ e.mask = m /\ ~ e.forward
  <2>1. m \in SUBSET Nat
    BY <1>2
  <2>2. [h EXCEPT !.mask = m] \in HeaderRecords
    BY <2>1 DEF HeaderRecords
  <2>3. [h EXCEPT !.mask = m].size = h.size /\ [h EXCEPT !.mask = m].mask = m
        /\ ~ [h EXCEPT !.mask = m].forward
    BY <1>1 DEF HeaderRecords
  <2> QED BY <2>2, <2>3 DEF Masked
<1>9. c + k + 1 # c /\ c + k + 1 \in D
  <2>1. k + 1 \in 0 .. SizeAt(H, s, c) /\ c + k + 1 = c + (k + 1)
    BY <1>2
  <2> QED BY <1>2, <1>5, <2>1
<1>10. G[s][c] = Header(e) /\ G[s][c + k + 1] = w
  BY <1>6, <1>7, <1>8, <1>9
<1>11. Memory(G) /\ \A t \in {0, 1} : DOMAIN G[t] = DOMAIN H[t]
  <2>1. ASSUME NEW t \in {0, 1} PROVE G[t] \in [DOMAIN H[t] -> Words]
    <3>1. CASE t = s
      <4>1. ASSUME NEW p \in D PROVE G[s][p] \in Words
        <5>1. Header(e) \in Words /\ H[s][p] \in Words
          BY <1>4 DEF Words
        <5> QED BY <1>7, <1>8, <5>1
      <4>2. G[s] = [p \in D |-> G[s][p]]
        <5>1. G[s] = [G[s] EXCEPT ![c] = G[s][c]]
          BY <1>2, <1>7, <1>4, <1>6, ZenonT(60) DEF StoredMask, stored
        <5> QED BY <1>7, <5>1
      <4> QED BY <1>3, <3>1, <4>1, <4>2
    <3>2. CASE t = 1 - s
      BY <1>7, <3>2, MemoryDomain
    <3> QED BY <3>1, <3>2
  <2> QED BY <1>7, <2>1, MemoryAgain
<1>12. ASSUME NEW o \in S, o # c PROVE SameTuple(H, G, s, o) /\ SameWords(H, G, s, o)
  <2>1. /\ o \in Nat /\ SizeAt(H, s, o) \in Nat \ {0} /\ o + SizeAt(H, s, o) \in D
        /\ \A j \in MaskAt(H, s, o) : j \in 0 .. SizeAt(H, s, o) - 1
    BY <1>0, <1>3, TupleFacts
  <2>2. \A j \in 0 .. SizeAt(H, s, o) : o + j \in D
    BY <1>4, <2>1
  <2>3. ASSUME NEW j \in 0 .. SizeAt(H, s, o) PROVE G[s][o + j] = H[s][o + j]
    <3>1. \A i \in 0 .. SizeAt(H, s, c) : o + j # c + i
      <4>1. \A q \in S : q \in Nat /\ SizeAt(H, s, q) \in Nat
        BY <1>0, TupleFacts
      <4> QED BY <1>0, <1>12, <4>1, ApartWords
    <3>2. o + j # c + k + 1 /\ o + j # c
      <4>1. k + 1 \in 0 .. SizeAt(H, s, c) /\ 0 \in 0 .. SizeAt(H, s, c)
            /\ c + k + 1 = c + (k + 1) /\ c + 0 = c
        BY <1>2
      <4>2. o + j # c + (k + 1) /\ o + j # c + 0
        BY <3>1, <4>1
      <4> QED BY <4>1, <4>2
    <3> QED BY <1>7, <2>2, <3>2
  <2>4. G[s][o] = H[s][o]
    <3>1. 0 \in 0 .. SizeAt(H, s, o) /\ o + 0 = o
      BY <2>1
    <3> QED BY <2>3, <3>1
  <2>5. ASSUME NEW j \in MaskAt(H, s, o) PROVE G[s][o + j + 1] = H[s][o + j + 1]
    <3>1. j + 1 \in 0 .. SizeAt(H, s, o) /\ o + (j + 1) = o + j + 1
      BY <2>1
    <3> QED BY <2>3, <3>1
  <2> QED BY <1>7, <2>1, <2>3, <2>4, <2>5 DEF SameTuple, SameWords
<1>13. /\ SizeAt(G, s, c) = SizeAt(H, s, c) /\ MaskAt(G, s, c) = m /\ IsTuple(G, s, c)
  <2>1. SizeAt(G, s, c) = SizeAt(H, s, c) /\ MaskAt(G, s, c) = m
    BY <1>1, <1>8, <1>10, WordKinds DEF SizeAt, MaskAt
  <2>2. e.size > 0 /\ e.size <= 24 /\ e.mask \subseteq 0 .. e.size - 1
    <3>1. SizeAt(H, s, c) <= 24
      BY <1>0, TupleFacts
    <3> QED BY <1>1, <1>2, <1>8, <3>1
  <2>3. c + SizeAt(G, s, c) \in DOMAIN G[s]
    BY <1>2, <1>3, <1>7, <2>1
  <2> QED BY <1>2, <1>8, <1>10, <2>1, <2>2, <2>3 DEF IsTuple
<1>14. ASSUME NEW j \in 0 .. SizeAt(H, s, c) - 1, j # k
       PROVE  G[s][c + j + 1] = H[s][c + j + 1]
  <2>1. j + 1 \in 0 .. SizeAt(H, s, c) /\ c + (j + 1) = c + j + 1
    BY <1>2
  <2>2. c + j + 1 \in D /\ c + j + 1 # c /\ c + j + 1 # c + k + 1
    BY <1>2, <1>5, <1>14, <2>1
  <2> QED BY <1>7, <2>2
<1>15. \A t \in {0, 1} : t # s => G[t] = H[t]
  BY <1>7
<1> QED BY <1>10, <1>11, <1>12, <1>13, <1>14, <1>15 DEF FieldSet

\* The mask m has the bits it had, and k only if w points to a tuple.
Fits(H, s, S, c, k, w, m) ==
    \A j \in m : IF j = k THEN PointsInto(w, s, S) ELSE j \in MaskAt(H, s, c)

StillLive(H, G, N, R, s, S, L) ==
    /\ Memory(G) /\ \A t \in {0, 1} : DOMAIN G[t] = DOMAIN H[t]
    /\ Live(G, N, R, s, S, L)

LEMMA LiveStored ==
    ASSUME NEW H, Memory(H), NEW N, NEW R, NEW s \in {0, 1}, NEW S, NEW L,
           Live(H, N, R, s, S, L), NEW c \in S, NEW k \in 0 .. SizeAt(H, s, c) - 1,
           NEW w \in Words, NEW m \in SUBSET (0 .. SizeAt(H, s, c) - 1),
           Fits(H, s, S, c, k, w, m), NEW G, G = StoredMask(H, s, c, k, w, m)
    PROVE  StillLive(H, G, N, R, s, S, L)
<1>1. (\A o \in S : IsTuple(H, s, o)) /\ Apart(H, s, S)
  BY DEF Live
<1>2. /\ Memory(G) /\ \A t \in {0, 1} : DOMAIN G[t] = DOMAIN H[t]
      /\ \A o \in S : o # c => SameTuple(H, G, s, o)
      /\ IsTuple(G, s, c) /\ SizeAt(G, s, c) = SizeAt(H, s, c) /\ MaskAt(G, s, c) = m
      /\ G[s][c + k + 1] = w
      /\ \A j \in 0 .. SizeAt(H, s, c) - 1 : j # k => G[s][c + j + 1] = H[s][c + j + 1]
  <2>1. Tuples(H, s, S)
    BY <1>1 DEF Tuples
  <2>2. FieldSet(H, G, s, S, c, k, w, m)
    BY <2>1, StoreApart
  <2> QED BY <2>2 DEF FieldSet
<1>3. \A o \in S : IsTuple(G, s, o) /\ SizeAt(G, s, o) = SizeAt(H, s, o)
  BY <1>1, <1>2, SameTupleIs
<1>4. ASSUME NEW o \in S, NEW j \in MaskAt(G, s, o)
      PROVE  PointsInto(G[s][o + j + 1], s, S)
  <2>1. CASE o = c
    <3>1. j \in m /\ j \in 0 .. SizeAt(H, s, c) - 1
      BY <1>2, <1>4, <2>1
    <3>2. CASE j = k
      BY <1>2, <2>1, <3>1, <3>2 DEF Fits
    <3>3. CASE j # k
      <4>1. j \in MaskAt(H, s, c)
        BY <3>1, <3>3 DEF Fits
      <4>2. PointsInto(H[s][c + j + 1], s, S)
        BY <4>1 DEF Live
      <4> QED BY <1>2, <2>1, <3>1, <3>3, <4>2
    <3> QED BY <3>2, <3>3
  <2>2. CASE o # c
    <3>1. SameTuple(H, G, s, o) /\ MaskAt(G, s, o) = MaskAt(H, s, o)
      BY <1>1, <1>2, <2>2, SameTupleIs
    <3>2. PointsInto(H[s][o + j + 1], s, S)
      BY <1>4, <3>1 DEF Live
    <3> QED BY <1>4, <3>1, <3>2 DEF SameTuple
  <2> QED BY <2>1, <2>2
<1>5. Apart(G, s, S) /\ \A o \in S : o + SizeAt(G, s, o) < L
  BY <1>3 DEF Live, Apart
<1> QED BY <1>2, <1>3, <1>4, <1>5 DEF Live, StillLive

-----------------------------------------------------------------------------
(* The copy of a tuple that the roots reach *)

LEMMA OldExtents ==
    ASSUME NEW H, NEW f, NEW U, NEW F, NEW C, OldSpace(H, f, U, F, C)
    PROVE  \A o \in U \cup F : /\ o \in Nat /\ SizeAt(H, f, o) \in Nat \ {0}
                               /\ o + SizeAt(H, f, o) \in DOMAIN H[f]
<1>1. \A o \in U : /\ o \in Nat /\ SizeAt(H, f, o) \in Nat \ {0}
                   /\ o + SizeAt(H, f, o) \in DOMAIN H[f]
  BY TupleFacts DEF OldSpace
<1>2. ASSUME NEW o \in F
      PROVE  /\ o \in Nat /\ SizeAt(H, f, o) \in Nat \ {0}
             /\ o + SizeAt(H, f, o) \in DOMAIN H[f]
  <2>1. PICK c : IsForward(H, f, o, 1 - f, c)
    BY DEF OldSpace
  <2>2. PICK h \in HeaderRecords : H[f][o] = Header(h) /\ h.size > 0
    BY <2>1 DEF IsForward
  <2>3. SizeAt(H, f, o) = h.size /\ h.size \in Nat
    BY <2>2, WordKinds DEF SizeAt, HeaderRecords
  <2> QED BY <2>1, <2>2, <2>3 DEF IsForward
<1> QED BY <1>1, <1>2

LEMMA OldSpaceSame ==
    ASSUME NEW H, NEW f, NEW U, NEW F, NEW C, OldSpace(H, f, U, F, C), NEW G, G[f] = H[f]
    PROVE  OldSpace(G, f, U, F, C)
<1>1. \A o : SizeAt(G, f, o) = SizeAt(H, f, o) /\ MaskAt(G, f, o) = MaskAt(H, f, o)
  BY DEF SizeAt, MaskAt
<1>2. \A o : IsTuple(G, f, o) <=> IsTuple(H, f, o)
  BY <1>1 DEF IsTuple
<1>3. \A o, t, c : IsForward(G, f, o, t, c) <=> IsForward(H, f, o, t, c)
  BY <1>1 DEF IsForward
<1> QED BY <1>1, <1>2, <1>3 DEF OldSpace, Apart

\* A header and a forward at p change no other tuple.
LEMMA OldWordsKept ==
    ASSUME NEW H, Memory(H), NEW f \in {0, 1}, NEW U, NEW F, NEW C, OldSpace(H, f, U, F, C),
           NEW p \in U \cup F, NEW G, \A q \in DOMAIN H[f] : q # p /\ q # p + 1 => G[f][q] = H[f][q]
    PROVE  \A o \in U \cup F : o # p => SameWords(H, G, f, o)
<1>1. PICK S : S = U \cup F
  OBVIOUS
<1>2. \A o \in S : /\ o \in Nat /\ SizeAt(H, f, o) \in Nat \ {0}
                   /\ o + SizeAt(H, f, o) \in DOMAIN H[f]
  BY <1>1, OldExtents
<1>3. ASSUME NEW o \in S, o # p, NEW j \in 0 .. SizeAt(H, f, o)
      PROVE  G[f][o + j] = H[f][o + j]
  <2>1. Apart(H, f, S) /\ p \in S
    BY <1>1 DEF OldSpace
  <2>2. \A q \in S : q \in Nat /\ SizeAt(H, f, q) \in Nat
    BY <1>2
  <2>4. \A i \in 0 .. SizeAt(H, f, p) : o + j # p + i
    BY <1>3, <2>1, <2>2, ApartWords
  <2>5. 0 \in 0 .. SizeAt(H, f, p) /\ 1 \in 0 .. SizeAt(H, f, p) /\ p + 0 = p
    BY <1>2, <2>1
  <2>6. o + j # p + 1 /\ o + j # p
    BY <2>4, <2>5
  <2>7. o + j \in DOMAIN H[f]
    <3>1. DOMAIN H[f] = 0 .. Cardinality(DOMAIN H[f]) - 1 /\ Cardinality(DOMAIN H[f]) \in Nat
      BY MemoryDomain
    <3>2. o \in Nat /\ SizeAt(H, f, o) \in Nat /\ o + SizeAt(H, f, o) \in DOMAIN H[f]
      BY <1>2
    <3> QED BY <3>1, <3>2
  <2> QED BY <2>6, <2>7
<1> QED BY <1>1, <1>3 DEF SameWords

\* The old space after the tuple at p has been copied to c
LEMMA OldSpaceMoved ==
    ASSUME NEW H, Memory(H), NEW f \in {0, 1}, NEW U, NEW F, NEW C, OldSpace(H, f, U, F, C),
           NEW p \in U, NEW c, NEW h \in HeaderRecords, H[f][p] = Header(h),
           NEW G, DOMAIN G[f] = DOMAIN H[f],
           \A q \in DOMAIN H[f] : G[f][q] = IF q = p + 1 THEN Pointer(<<1 - f, c>>)
                                            ELSE IF q = p THEN Forwarded(h)
                                            ELSE H[f][q]
    PROVE  OldSpace(G, f, U \ {p}, F \cup {p}, C \cup {c})
<1>1. PICK V, E : V = U \ {p} /\ E = F \cup {p}
  OBVIOUS
<1>2. \A o \in U \cup F : /\ o \in Nat /\ SizeAt(H, f, o) \in Nat \ {0}
                          /\ o + SizeAt(H, f, o) \in DOMAIN H[f]
  BY OldExtents
<1>3. IsTuple(H, f, p) /\ \A o \in U : IsTuple(H, f, o)
  BY DEF OldSpace
<1>4. h.size > 0 /\ ~ h.forward /\ h.size = SizeAt(H, f, p) /\ h.size \in Nat
  <2>1. PICK e \in HeaderRecords : H[f][p] = Header(e) /\ e.size > 0 /\ ~ e.forward
    BY <1>3 DEF IsTuple
  <2>2. e = h
    <3>1. Header(e) = Header(h)
      BY <2>1
    <3> QED BY <3>1 DEF Header
  <2>3. h.size = SizeAt(H, f, p)
    BY WordKinds DEF SizeAt
  <2> QED BY <2>1, <2>2, <2>3 DEF HeaderRecords
<1>5. ASSUME NEW o \in U \cup F, o # p, NEW j \in 0 .. SizeAt(H, f, o)
      PROVE  G[f][o + j] = H[f][o + j]
  <2>1. \A q \in DOMAIN H[f] : q # p /\ q # p + 1 => G[f][q] = H[f][q]
    OBVIOUS
  <2>2. SameWords(H, G, f, o)
    BY <1>5, <2>1, OldWordsKept
  <2> QED BY <2>2 DEF SameWords
<1>6. ASSUME NEW o \in U \cup F, o # p
      PROVE  /\ G[f][o] = H[f][o] /\ G[f][o + 1] = H[f][o + 1]
             /\ SizeAt(G, f, o) = SizeAt(H, f, o)
  <2>1. 0 \in 0 .. SizeAt(H, f, o) /\ 1 \in 0 .. SizeAt(H, f, o) /\ o + 0 = o
    BY <1>2
  <2>2. G[f][o + 0] = H[f][o + 0] /\ G[f][o + 1] = H[f][o + 1]
    BY <1>5, <1>6, <2>1
  <2> QED BY <2>1, <2>2 DEF SizeAt
<1>7. /\ p \in DOMAIN H[f] /\ p + 1 \in DOMAIN H[f] /\ p + 1 # p /\ p \in Nat
  <2>1. DOMAIN H[f] = 0 .. Cardinality(DOMAIN H[f]) - 1 /\ Cardinality(DOMAIN H[f]) \in Nat
    BY MemoryDomain
  <2>2. p \in Nat /\ SizeAt(H, f, p) \in Nat \ {0} /\ p + SizeAt(H, f, p) \in DOMAIN H[f]
    BY <1>2
  <2> QED BY <2>1, <2>2
<1>8. PICK e \in HeaderRecords : Forwarded(h) = Header(e) /\ e.size = h.size /\ e.forward
  <2>1. [h EXCEPT !.forward = TRUE] \in HeaderRecords
    BY DEF HeaderRecords
  <2>2. [h EXCEPT !.forward = TRUE].size = h.size /\ [h EXCEPT !.forward = TRUE].forward
    BY DEF HeaderRecords
  <2> QED BY <2>1, <2>2 DEF Forwarded
<1>9. /\ G[f][p] = Header(e) /\ G[f][p + 1] = Pointer(<<1 - f, c>>)
      /\ SizeAt(G, f, p) = SizeAt(H, f, p)
  <2>1. G[f][p] = Header(e) /\ G[f][p + 1] = Pointer(<<1 - f, c>>)
    BY <1>7, <1>8
  <2> QED BY <1>4, <1>8, <2>1, WordKinds DEF SizeAt
<1>10. IsForward(G, f, p, 1 - f, c)
  BY <1>2, <1>4, <1>7, <1>8, <1>9 DEF IsForward
<1>11. ASSUME NEW o \in V
       PROVE  IsTuple(G, f, o) /\ MaskAt(G, f, o) = MaskAt(H, f, o) /\ SameTuple(H, G, f, o)
  <2>1. o \in U /\ o # p /\ o \in U \cup F
    BY <1>1, <1>11
  <2>2. \A k \in MaskAt(H, f, o) : k \in 0 .. SizeAt(H, f, o) - 1
    BY <1>3, <2>1, TupleFacts
  <2>3. ASSUME NEW k \in MaskAt(H, f, o) PROVE G[f][o + k + 1] = H[f][o + k + 1]
    <3>1. o \in Nat /\ SizeAt(H, f, o) \in Nat
      BY <1>2, <2>1
    <3>2. k + 1 \in 0 .. SizeAt(H, f, o) /\ o + (k + 1) = o + k + 1
      BY <2>2, <3>1
    <3>3. G[f][o + (k + 1)] = H[f][o + (k + 1)]
      BY <1>5, <2>1, <3>2
    <3> QED BY <3>2, <3>3
  <2>4. SameTuple(H, G, f, o)
    BY <1>2, <1>6, <2>1, <2>3 DEF SameTuple
  <2> QED BY <1>3, <2>1, <2>4, SameTupleIs
<1>12. ASSUME NEW o \in E PROVE \E d \in C \cup {c} : IsForward(G, f, o, 1 - f, d)
  <2>1. CASE o = p
    BY <1>10, <2>1
  <2>2. CASE o # p
    <3>1. o \in F /\ o \in U \cup F
      BY <1>1, <1>12, <2>2
    <3>2. PICK d \in C : IsForward(H, f, o, 1 - f, d)
      BY <3>1 DEF OldSpace
    <3>3. IsForward(G, f, o, 1 - f, d)
      BY <1>6, <2>2, <3>1, <3>2 DEF IsForward
    <3> QED BY <3>3
  <2> QED BY <2>1, <2>2
<1>13. Apart(G, f, V \cup E)
  <2>1. \A o \in U \cup F : SizeAt(G, f, o) = SizeAt(H, f, o)
    BY <1>6, <1>9
  <2>2. V \cup E = U \cup F
    BY <1>1
  <2> QED BY <2>1, <2>2 DEF OldSpace, Apart
<1>14. ASSUME NEW o \in V, NEW k \in MaskAt(G, f, o)
       PROVE  PointsInto(G[f][o + k + 1], f, V \cup E)
  <2>1. V \cup E = U \cup F /\ o \in U
    BY <1>1, <1>14
  <2>2. k \in MaskAt(H, f, o) /\ G[f][o + k + 1] = H[f][o + k + 1]
    BY <1>11, <1>14 DEF SameTuple
  <2>3. PointsInto(H[f][o + k + 1], f, U \cup F)
    BY <2>1, <2>2 DEF OldSpace
  <2> QED BY <2>1, <2>2, <2>3
<1>15. OldSpace(G, f, V, E, C \cup {c})
  BY <1>11, <1>12, <1>13, <1>14 DEF OldSpace
<1> QED BY <1>1, <1>15

\* The new space after a tuple with header h has been copied to its end
HeaderOk(h) ==
    /\ h \in HeaderRecords /\ h.size > 0 /\ h.size <= 24
    /\ h.mask \in SUBSET (0 .. h.size - 1) /\ ~ h.forward

Below(H, G, t, L) ==
    DOMAIN G[t] = DOMAIN H[t] /\ \A q \in DOMAIN H[t] : q < L => G[t][q] = H[t][q]

LEMMA BelowSame ==
    ASSUME NEW H, Memory(H), NEW t \in {0, 1}, NEW L \in Nat, NEW G, Below(H, G, t, L),
           NEW c, IsTuple(H, t, c), c + SizeAt(H, t, c) < L
    PROVE  SameTuple(H, G, t, c)
<1>1. /\ c \in Nat /\ SizeAt(H, t, c) \in Nat \ {0} /\ c + SizeAt(H, t, c) \in DOMAIN H[t]
      /\ \A k \in MaskAt(H, t, c) : k \in 0 .. SizeAt(H, t, c) - 1
  BY TupleFacts
<1>2. DOMAIN H[t] = 0 .. Cardinality(DOMAIN H[t]) - 1 /\ Cardinality(DOMAIN H[t]) \in Nat
  BY MemoryDomain
<1>3. ASSUME NEW j \in 0 .. SizeAt(H, t, c) PROVE G[t][c + j] = H[t][c + j]
  <2>1. c + j \in DOMAIN H[t] /\ c + j < L
    BY <1>1, <1>2
  <2> QED BY <2>1 DEF Below
<1>4. G[t][c] = H[t][c]
  <2>1. 0 \in 0 .. SizeAt(H, t, c) /\ c + 0 = c
    BY <1>1
  <2> QED BY <1>3, <2>1
<1>5. ASSUME NEW k \in MaskAt(H, t, c) PROVE G[t][c + k + 1] = H[t][c + k + 1]
  <2>1. k + 1 \in 0 .. SizeAt(H, t, c) /\ c + (k + 1) = c + k + 1
    BY <1>1
  <2> QED BY <1>3, <2>1
<1> QED BY <1>1, <1>4, <1>5 DEF SameTuple, Below

OneCopyMore(H, G, t, C, L, h) ==
    /\ NewSpace(G, t, C \cup {L}, L + h.size + 1)
    /\ \A c \in C : SameTuple(H, G, t, c)
    /\ IsTuple(G, t, L) /\ SizeAt(G, t, L) = h.size /\ MaskAt(G, t, L) = h.mask

LEMMA NewSpaceGrown ==
    ASSUME NEW H, Memory(H), NEW t \in {0, 1}, NEW C, NEW L, NewSpace(H, t, C, L),
           NEW h, HeaderOk(h), NEW G, Below(H, G, t, L), L + h.size \in DOMAIN H[t],
           G[t][L] = Header(h)
    PROVE  OneCopyMore(H, G, t, C, L, h)
<1>1. PICK M, E : M = L + h.size + 1 /\ E = C \cup {L}
  OBVIOUS
<1>2. L \in Nat /\ h.size \in Nat /\ h.size > 0 /\ M \in Nat
  BY <1>1 DEF NewSpace, HeaderOk, HeaderRecords
<1>3. \A c \in C : IsTuple(H, t, c) /\ c + SizeAt(H, t, c) < L
                   /\ c + SizeAt(H, t, c) + 1 \in C \cup {L}
  BY DEF NewSpace
<1>4. \A c \in C : SameTuple(H, G, t, c)
  BY <1>2, <1>3, BelowSame
<1>5. \A c \in C : IsTuple(G, t, c) /\ SizeAt(G, t, c) = SizeAt(H, t, c)
                   /\ c \in Nat /\ SizeAt(H, t, c) \in Nat
  BY <1>3, <1>4, SameTupleIs, TupleFacts
<1>6. SizeAt(G, t, L) = h.size /\ MaskAt(G, t, L) = h.mask
  BY WordKinds DEF SizeAt, MaskAt
<1>7. IsTuple(G, t, L)
  <2>1. L + SizeAt(G, t, L) \in DOMAIN G[t]
    BY <1>6 DEF Below
  <2> QED BY <1>2, <2>1 DEF IsTuple, HeaderOk
<1>8. ASSUME NEW c \in E
      PROVE  c + SizeAt(G, t, c) < M /\ c + SizeAt(G, t, c) + 1 \in E \cup {M}
  <2>1. CASE c = L
    BY <1>1, <1>2, <1>6, <2>1
  <2>2. CASE c \in C
    <3>1. c + SizeAt(H, t, c) < M
      BY <1>1, <1>2, <1>3, <1>5, <2>2
    <3> QED BY <1>1, <1>3, <1>5, <2>2, <3>1
  <2> QED BY <1>1, <1>8, <2>1, <2>2
<1>9. Apart(G, t, E)
  <2> SUFFICES ASSUME NEW o \in E, NEW p \in E, o < p
               PROVE  o + SizeAt(G, t, o) < p
    BY DEF Apart
  <2>1. CASE o \in C /\ p \in C
    <3>1. o + SizeAt(H, t, o) < p
      BY <2>1 DEF NewSpace, Apart
    <3> QED BY <1>5, <2>1, <3>1
  <2>2. CASE o \in C /\ p = L
    <3>1. o + SizeAt(H, t, o) < p
      BY <1>3, <2>2
    <3> QED BY <1>5, <2>2, <3>1
  <2>3. CASE o = L
    <3>1. ASSUME p \in C PROVE FALSE
      <4>1. p + SizeAt(H, t, p) < L /\ p \in Nat /\ SizeAt(H, t, p) \in Nat
        BY <1>3, <1>5, <3>1
      <4> QED BY <1>2, <2>3, <4>1
    <3>2. p = L
      BY <1>1, <3>1
    <3> QED BY <1>2, <2>3, <3>2
  <2> QED BY <1>1, <2>1, <2>2, <2>3
<1>10. 0 \in E \cup {M}
  BY <1>1 DEF NewSpace
<1>11. NewSpace(G, t, E, M)
  BY <1>1, <1>2, <1>5, <1>7, <1>8, <1>9, <1>10 DEF NewSpace
<1> QED BY <1>1, <1>4, <1>6, <1>7, <1>11 DEF OneCopyMore

\* What the copy does to a collection: a tuple that has been copied is not
\* copied again, and one that has not been goes to the end of the copies.
MovesTo(copy, V, E, D, U, F, C, w, i) ==
    /\ V \in SUBSET Nat /\ E \in SUBSET Nat /\ D \in SUBSET Nat
    /\ V \cup E = U \cup F /\ C \subseteq D
    /\ Copying(copy.heap, copy.name, roots, from, V, E, D, copy.free, w, i)
    /\ PointsInto(copy.word, 1 - from, D)
    /\ \A c \in C : SameTuple(heap, copy.heap, 1 - from, c)

Moves(copy, U, F, C, w, i) == \E V, E, D : MovesTo(copy, V, E, D, U, F, C, w, i)

\* The tuple at p has been copied: its copy is what the word after its header
\* leads to.
KnownCopy(copy, p) ==
    /\ copy.heap = heap /\ copy.name = name /\ copy.free = free
    /\ copy.word = heap[from][p + 1]

LEMMA CopyKnownIs ==
    ASSUME NEW p, NEW c, IsForward(heap, from, p, 1 - from, c),
           NEW copy \in gc_copy_tuple(Pointer(<<from, p>>)), copy.stop = "no"
    PROVE  KnownCopy(copy, p)
<1>2. PICK h \in HeaderRecords : heap[from][p] = Header(h) /\ h.forward
  BY DEF IsForward
<1>3. AsHeader(heap[from][p]) = {h}
  BY <1>2, HeaderItself
<1>4. Pointer(<<from, p>>)[2][2] = p
  BY DEF Pointer
<1>5. copy.stop \notin {"abort", "wild"}
  OBVIOUS
<1>6. \E e \in AsHeader(heap[from][p]) : CopyOf(copy, p, e)
  BY <1>4, <1>5, CopyCases
<1> QED BY <1>2, <1>3, <1>6 DEF CopyOf, KnownCopy

LEMMA CopyKnown ==
    ASSUME Memory(heap), from \in {0, 1}, NEW U \in SUBSET Nat, NEW F \in SUBSET Nat,
           NEW C \in SUBSET Nat, NEW w, NEW i,
           Copying(heap, name, roots, from, U, F, C, free, w, i), NEW p \in F,
           NEW copy \in gc_copy_tuple(Pointer(<<from, p>>)), copy.stop = "no"
    PROVE  MovesTo(copy, U, F, C, U, F, C, w, i)
<1>1. PICK c \in C : IsForward(heap, from, p, 1 - from, c)
  BY DEF Copying, OldSpace
<1>5. /\ copy.heap = heap /\ copy.name = name /\ copy.free = free
      /\ copy.word = heap[from][p + 1]
  BY <1>1, CopyKnownIs DEF KnownCopy
<1>6. copy.word = Pointer(<<1 - from, c>>)
  BY <1>1, <1>5 DEF IsForward
<1>7. PointsInto(copy.word, 1 - from, C)
  BY <1>6 DEF PointsInto
<1>8. \A d \in C : SameTuple(heap, copy.heap, 1 - from, d)
  BY <1>5, TupleFacts DEF SameTuple, Copying, NewSpace
<1>9. Copying(copy.heap, copy.name, roots, from, U, F, C, copy.free, w, i)
  BY <1>5
<1> QED BY <1>7, <1>8, <1>9, Zenon DEF MovesTo

\* h is the header of the tuple at p, which has been copied to the end.
NewCopy(copy, p, h) ==
    /\ HeaderOk(h) /\ heap[from][p] = Header(h)
    /\ p + h.size < size(from) /\ free + h.size < size(to)
    /\ HasCopied(copy.heap, p, h)
    /\ copy.free = free + h.size + 1 /\ copy.word = Pointer(<<to, free>>)
    /\ copy.name[from] = name[from] /\ copy.name[to][free] = name[from][p]
    /\ \A q : q # free => copy.name[to][q] = name[to][q]

LEMMA CopyNewIs ==
    ASSUME Memory(heap), Tables(name), Sized, free \in Nat, NEW p, IsTuple(heap, from, p),
           NEW copy \in gc_copy_tuple(Pointer(<<from, p>>)), copy.stop = "no"
    PROVE  \E h : NewCopy(copy, p, h)
<1>1. /\ from \in {0, 1} /\ to \in {0, 1} /\ to = 1 - from /\ to # from
  BY DEF Sized, to
<1>2. /\ size(from) \in Nat /\ DOMAIN heap[from] = 0 .. size(from) - 1
      /\ size(to) \in Nat /\ DOMAIN heap[to] = 0 .. size(to) - 1
      /\ size(to) <= MaxHeap /\ MaxHeap \in Nat
  BY <1>1, MemoryDomain, SizesAssumption DEF size, Sized
<1>3. p \in Nat
  BY DEF IsTuple
<1>4. PICK h : heap[from][p] = Header(h) /\ HeaderOk(h)
  BY DEF IsTuple, HeaderOk
<1>5. h \in HeaderRecords /\ ~ h.forward /\ h.size \in Nat /\ h.size > 0
      /\ h.mask \in SUBSET (0 .. h.size - 1)
  BY <1>4 DEF HeaderOk, HeaderRecords
<1>6. CopyOf(copy, p, h)
  <2>1. copy.stop \notin {"abort", "wild"} /\ AsHeader(heap[from][p]) = {h}
    BY <1>4, HeaderItself
  <2>2. Pointer(<<from, p>>)[2][2] = p
    BY DEF Pointer
  <2>3. \E e \in AsHeader(heap[from][p]) : CopyOf(copy, p, e)
    BY <2>1, <2>2, CopyCases
  <2> QED BY <2>1, <2>3
<1>7. /\ free < size(to) /\ p + 1 < size(from) /\ p + h.size < size(from)
      /\ free + h.size < size(to)
      /\ copy.free = free + h.size + 1 /\ copy.word = Pointer(<<to, free>>)
  BY <1>2, <1>3, <1>5, <1>6, SMTT(40) DEF CopyOf
<1>8. PICK G, M : /\ G = copied(p, h) /\ G = copy.heap
                  /\ M = Renamed(name, to, free, name[from][p]) /\ M = copy.name
  BY <1>5, <1>6 DEF CopyOf, Renamed
<1>9. HasCopied(G, p, h)
  <2>1. G = copied(p, h)
    BY <1>8
  <2> QED BY <1>1, <1>2, <1>3, <1>5, <1>7, <2>1, CopiedFacts
<1>10. M[from] = name[from] /\ M[to][free] = name[from][p]
       /\ \A q : q # free => M[to][q] = name[to][q]
  <2>1. free \in 0 .. MaxHeap - 1
    BY <1>2, <1>7
  <2>2. M = Renamed(name, to, free, name[from][p])
    BY <1>8
  <2>3. /\ \A t \in {0, 1} : t # to => M[t] = name[t]
        /\ M[to][free] = name[from][p] /\ \A q : q # free => M[to][q] = name[to][q]
    BY <1>1, <2>1, <2>2, NameSet
  <2> QED BY <1>1, <2>3
<1>11. copy.heap = G /\ copy.name = M
  BY <1>8
<1> QED BY <1>4, <1>7, <1>9, <1>10, <1>11 DEF NewCopy

LEMMA CopyNew ==
    ASSUME Memory(heap), Tables(name), Sized, NEW U \in SUBSET Nat, NEW F \in SUBSET Nat,
           NEW C \in SUBSET Nat, NEW w \in Nat, w <= free, NEW i,
           Copying(heap, name, roots, from, U, F, C, free, w, i), NEW p \in U,
           NEW copy \in gc_copy_tuple(Pointer(<<from, p>>)), copy.stop = "no"
    PROVE  MovesTo(copy, U \ {p}, F \cup {p}, C \cup {free}, U, F, C, w, i)
<1>1. /\ from \in {0, 1} /\ to \in {0, 1} /\ to = 1 - from /\ to # from
      /\ OldSpace(heap, from, U, F, C) /\ NewSpace(heap, to, C, free)
      /\ Pointers(heap, roots, from, U, F, C, w, i) /\ NamedApart(name, from, U, C)
  BY DEF Copying, Sized, to
<1>2. /\ size(from) \in Nat /\ DOMAIN heap[from] = 0 .. size(from) - 1
      /\ size(to) \in Nat /\ DOMAIN heap[to] = 0 .. size(to) - 1
      /\ size(to) <= MaxHeap /\ free \in Nat /\ MaxHeap \in Nat
  BY <1>1, MemoryDomain, SizesAssumption, SMTT(40) DEF size, Sized, NewSpace
<1>3. IsTuple(heap, from, p) /\ p \in Nat
  BY <1>1 DEF OldSpace
<1>4. PICK h : NewCopy(copy, p, h)
  <2>1. free \in Nat
    BY <1>2
  <2> QED BY <1>3, <2>1, CopyNewIs
<1>5. heap[from][p] = Header(h) /\ HeaderOk(h)
      /\ h \in HeaderRecords /\ ~ h.forward /\ h.size \in Nat /\ h.size > 0
      /\ h.mask \in SUBSET (0 .. h.size - 1)
  BY <1>4 DEF NewCopy, HeaderOk, HeaderRecords
<1>7. /\ p + h.size < size(from) /\ free + h.size < size(to)
      /\ copy.free = free + h.size + 1 /\ copy.word = Pointer(<<to, free>>)
  BY <1>4 DEF NewCopy
<1>8. PICK G, M, D : G = copy.heap /\ M = copy.name /\ D = C \cup {free}
  OBVIOUS
<1>9. PICK V, E : V = U \ {p} /\ E = F \cup {p}
  OBVIOUS
<1>10. /\ \A s \in {0, 1} : DOMAIN G[s] = DOMAIN heap[s]
       /\ \A q \in DOMAIN heap[to] :
            G[to][q] = IF q = free THEN Header(h)
                       ELSE IF q \in free .. free + h.size THEN heap[from][p + q - free]
                       ELSE heap[to][q]
       /\ \A q \in DOMAIN heap[from] :
            G[from][q] = IF q = p + 1 THEN Pointer(<<to, free>>)
                         ELSE IF q = p THEN Forwarded(h)
                         ELSE heap[from][q]
  BY <1>4, <1>8 DEF NewCopy, HasCopied
<1>11. OldSpace(G, from, V, E, D)
  <2>1. \A q \in DOMAIN heap[from] :
            G[from][q] = IF q = p + 1 THEN Pointer(<<1 - from, free>>)
                         ELSE IF q = p THEN Forwarded(h)
                         ELSE heap[from][q]
    BY <1>1, <1>10
  <2>2. DOMAIN G[from] = DOMAIN heap[from]
    BY <1>1, <1>10
  <2>3. OldSpace(G, from, U \ {p}, F \cup {p}, C \cup {free})
    BY <1>1, <1>5, <2>1, <2>2, OldSpaceMoved
  <2> QED BY <1>8, <1>9, <2>3
<1>12. free \in DOMAIN heap[to] /\ free + h.size \in DOMAIN heap[to]
  BY <1>2, <1>5, <1>7, SMTT(40)
<1>13. Below(heap, G, to, free) /\ G[to][free] = Header(h)
  <2>1. ASSUME NEW q \in DOMAIN heap[to], q < free PROVE G[to][q] = heap[to][q]
    <3>1. q # free /\ q \notin free .. free + h.size
      BY <1>2, <1>5, <2>1
    <3> QED BY <1>10, <3>1
  <2>2. G[to][free] = Header(h)
    BY <1>10, <1>12
  <2> QED BY <1>1, <1>10, <2>1, <2>2 DEF Below
<1>14. /\ NewSpace(G, to, D, free + h.size + 1)
       /\ \A c \in C : SameTuple(heap, G, to, c)
       /\ IsTuple(G, to, free) /\ SizeAt(G, to, free) = h.size /\ MaskAt(G, to, free) = h.mask
  <2>1. /\ NewSpace(G, to, C \cup {free}, free + h.size + 1)
        /\ \A c \in C : SameTuple(heap, G, to, c)
        /\ IsTuple(G, to, free) /\ SizeAt(G, to, free) = h.size /\ MaskAt(G, to, free) = h.mask
    <3>1. OneCopyMore(heap, G, to, C, free, h)
      BY <1>1, <1>5, <1>12, <1>13, NewSpaceGrown
    <3> QED BY <3>1 DEF OneCopyMore
  <2> QED BY <1>8, <2>1
<1>15. V \cup E = U \cup F /\ V \in SUBSET Nat /\ E \in SUBSET Nat /\ D \in SUBSET Nat
       /\ C \subseteq D /\ free \in D
  BY <1>2, <1>3, <1>8, <1>9
<1>16. Pointers(G, roots, from, V, E, D, w, i)
  <2>1. ASSUME NEW c \in D, NEW k \in MaskAt(G, to, c)
        PROVE  IF c + k + 1 < w THEN PointsInto(G[to][c + k + 1], to, D)
               ELSE PointsInto(G[to][c + k + 1], from, U \cup F)
    <3>1. CASE c \in C
      <4>1. SameTuple(heap, G, to, c) /\ IsTuple(heap, to, c)
        BY <1>1, <1>14, <3>1 DEF NewSpace
      <4>2. k \in MaskAt(heap, to, c) /\ G[to][c + k + 1] = heap[to][c + k + 1]
        BY <2>1, <4>1, SameTupleIs DEF SameTuple
      <4>3. IF c + k + 1 < w THEN PointsInto(heap[to][c + k + 1], to, C)
            ELSE PointsInto(heap[to][c + k + 1], from, U \cup F)
        BY <1>1, <3>1, <4>2 DEF Pointers
      <4>4. PointsInto(heap[to][c + k + 1], to, C) => PointsInto(heap[to][c + k + 1], to, D)
        BY <1>15 DEF PointsInto
      <4> QED BY <4>2, <4>3, <4>4
    <3>2. CASE c = free
      <4>1. k \in h.mask /\ k \in 0 .. h.size - 1
        BY <1>5, <1>14, <2>1, <3>2
      <4>2. free + k + 1 \in DOMAIN heap[to] /\ free + k + 1 # free
            /\ free + k + 1 \in free .. free + h.size /\ p + (free + k + 1) - free = p + k + 1
            /\ ~ free + k + 1 < w
        <5>1. /\ k \in Nat /\ h.size \in Nat /\ free \in Nat /\ p \in Nat /\ w \in Nat
              /\ size(to) \in Nat /\ k < h.size /\ free + h.size < size(to) /\ w <= free
          BY <1>2, <1>3, <1>5, <1>7, <4>1
        <5>2. /\ free + k + 1 \in 0 .. size(to) - 1 /\ free + k + 1 # free
              /\ free + k + 1 \in free .. free + h.size
              /\ p + (free + k + 1) - free = p + k + 1 /\ ~ free + k + 1 < w
          BY <5>1
        <5> QED BY <1>2, <5>2
      <4>3. G[to][free + k + 1] = heap[from][p + k + 1]
        BY <1>10, <4>2
      <4>4. k \in MaskAt(heap, from, p)
        BY <1>5, <4>1, WordKinds DEF MaskAt
      <4>5. PointsInto(heap[from][p + k + 1], from, U \cup F)
        BY <1>1, <4>4 DEF OldSpace
      <4> QED BY <3>2, <4>2, <4>3, <4>5
    <3> QED BY <1>8, <2>1, <3>1, <3>2
  <2>2. ASSUME NEW j \in 1 .. Len(roots)
        PROVE  IF j <= i THEN PointsInto(roots[j], to, D)
               ELSE PointsInto(roots[j], from, U \cup F)
    <3>1. IF j <= i THEN PointsInto(roots[j], to, C) ELSE PointsInto(roots[j], from, U \cup F)
      BY <1>1 DEF Pointers
    <3>2. PointsInto(roots[j], to, C) => PointsInto(roots[j], to, D)
      BY <1>15 DEF PointsInto
    <3> QED BY <3>1, <3>2
  <2> QED BY <1>1, <1>15, <2>1, <2>2 DEF Pointers
<1>17. M[from] = name[from] /\ M[to][free] = name[from][p]
       /\ \A q : q # free => M[to][q] = name[to][q]
  BY <1>4, <1>8 DEF NewCopy
<1>18. \A c \in C : c # free
  <2>1. \A c \in C : c + SizeAt(heap, to, c) < free /\ IsTuple(heap, to, c)
    BY <1>1 DEF NewSpace
  <2>2. \A c \in C : c \in Nat /\ SizeAt(heap, to, c) \in Nat
    BY <2>1, TupleFacts
  <2> QED BY <1>2, <2>1, <2>2
<1>19. NamedApart(M, from, V, D)
  <2>1. \A c \in C : M[to][c] = name[to][c]
    BY <1>17, <1>18
  <2>2. /\ Named(name, from, U) /\ Named(name, to, C)
        /\ \A o \in U, c \in C : name[from][o] # name[to][c]
    BY <1>1 DEF NamedApart
  <2>3. Named(M, from, V)
    BY <1>9, <1>17, <2>2 DEF Named
  <2>4. Named(M, to, D)
    <3>1. \A c \in D : M[to][c] \in Names
      BY <1>8, <1>17, <2>1, <2>2 DEF Named
    <3>2. ASSUME NEW c \in D, NEW d \in D, M[to][c] = M[to][d] PROVE c = d
      <4>1. CASE c \in C /\ d \in C
        BY <2>1, <2>2, <3>2, <4>1 DEF Named
      <4>2. CASE c = free /\ d \in C
        <5>1. M[to][d] = name[to][d] /\ M[to][c] = name[from][p]
          BY <1>17, <2>1, <4>2
        <5> QED BY <2>2, <3>2, <4>2, <5>1
      <4>3. CASE c \in C /\ d = free
        <5>1. M[to][c] = name[to][c] /\ M[to][d] = name[from][p]
          BY <1>17, <2>1, <4>3
        <5> QED BY <2>2, <3>2, <4>3, <5>1
      <4>4. CASE c = free /\ d = free
        BY <4>4
      <4> QED BY <1>8, <3>2, <4>1, <4>2, <4>3, <4>4
    <3> QED BY <3>1, <3>2 DEF Named
  <2>5. ASSUME NEW o \in V, NEW c \in D PROVE M[from][o] # M[to][c]
    <3>1. o \in U /\ o # p /\ M[from][o] = name[from][o]
      BY <1>9, <1>17, <2>5
    <3>2. CASE c \in C
      BY <2>1, <2>2, <3>1, <3>2
    <3>3. CASE c = free
      BY <1>17, <2>2, <3>1, <3>3 DEF Named
    <3> QED BY <1>8, <2>5, <3>2, <3>3
  <2> QED BY <1>1, <2>3, <2>4, <2>5 DEF NamedApart
<1>20. Copying(G, M, roots, from, V, E, D, copy.free, w, i)
  BY <1>1, <1>7, <1>11, <1>14, <1>16, <1>19 DEF Copying
<1>21. PointsInto(copy.word, 1 - from, D)
  BY <1>1, <1>7, <1>15 DEF PointsInto
<1>22. \A c \in C : SameTuple(heap, G, 1 - from, c)
  BY <1>1, <1>14
<1>23. G = copy.heap /\ M = copy.name
  BY <1>8
<1>24. MovesTo(copy, V, E, D, U, F, C, w, i)
  BY <1>15, <1>20, <1>21, <1>22, <1>23 DEF MovesTo
<1> QED BY <1>8, <1>9, <1>24

-----------------------------------------------------------------------------
(* The words of the copies one by one *)

\* A field of one copy is neither a field nor the header of another.
LEMMA WordOfOne ==
    ASSUME NEW H, NEW t, NEW C, NEW L, NewSpace(H, t, C, L), NEW c \in C, NEW d \in C,
           NEW j \in MaskAt(H, t, d)
    PROVE  /\ d + j + 1 # c
           /\ \A k \in 0 .. SizeAt(H, t, c) - 1 : d + j + 1 = c + k + 1 => d = c /\ j = k
<1>1. /\ \A e \in C : e \in Nat /\ SizeAt(H, t, e) \in Nat
      /\ j \in 0 .. SizeAt(H, t, d) - 1
  BY TupleFacts DEF NewSpace
<1>2. c \in Nat /\ d \in Nat /\ SizeAt(H, t, c) \in Nat /\ SizeAt(H, t, d) \in Nat /\ j \in Nat
      /\ j < SizeAt(H, t, d)
  BY <1>1
<1>3. CASE d # c
  <2>1. \A a \in 0 .. SizeAt(H, t, d), b \in 0 .. SizeAt(H, t, c) : d + a # c + b
    BY <1>1, <1>3, ApartWords DEF NewSpace
  <2>2. j + 1 \in 0 .. SizeAt(H, t, d) /\ d + (j + 1) = d + j + 1
        /\ 0 \in 0 .. SizeAt(H, t, c) /\ c + 0 = c
    BY <1>2
  <2>3. d + (j + 1) # c + 0
    BY <2>1, <2>2
  <2>4. ASSUME NEW k \in 0 .. SizeAt(H, t, c) - 1 PROVE d + j + 1 # c + k + 1
    <3>1. k + 1 \in 0 .. SizeAt(H, t, c) /\ c + (k + 1) = c + k + 1
      BY <1>2
    <3>2. d + (j + 1) # c + (k + 1)
      BY <2>1, <2>2, <3>1
    <3> QED BY <2>2, <3>1, <3>2
  <2> QED BY <2>2, <2>3, <2>4
<1>4. CASE d = c
  BY <1>2, <1>4
<1> QED BY <1>3, <1>4

\* The cursor over the words passes a word that is no masked field.
LEMMA CursorPasses ==
    ASSUME NEW H, NEW N, NEW R, NEW f, NEW U, NEW F, NEW C, NEW L, NEW w \in Nat, NEW i,
           Copying(H, N, R, f, U, F, C, L, w, i),
           \A d \in C : \A j \in MaskAt(H, 1 - f, d) : d + j + 1 # w
    PROVE  Copying(H, N, R, f, U, F, C, L, w + 1, i)
<1>1. ASSUME NEW d \in C, NEW j \in MaskAt(H, 1 - f, d)
      PROVE  IF d + j + 1 < w + 1 THEN PointsInto(H[1 - f][d + j + 1], 1 - f, C)
             ELSE PointsInto(H[1 - f][d + j + 1], f, U \cup F)
  <2>1. IF d + j + 1 < w THEN PointsInto(H[1 - f][d + j + 1], 1 - f, C)
        ELSE PointsInto(H[1 - f][d + j + 1], f, U \cup F)
    BY DEF Copying, Pointers
  <2>2. d \in Nat /\ j \in Nat
    BY TupleFacts DEF Copying, NewSpace
  <2>3. (d + j + 1 < w + 1) <=> (d + j + 1 < w)
    BY <2>2
  <2> QED BY <2>1, <2>3
<1> QED BY <1>1 DEF Copying, Pointers

LEMMA HeaderPassed ==
    ASSUME NEW H, NEW N, NEW R, NEW f, NEW U, NEW F, NEW C, NEW L, NEW i, NEW c \in C,
           Copying(H, N, R, f, U, F, C, L, c, i)
    PROVE  Copying(H, N, R, f, U, F, C, L, c + 1, i)
<1>1. \A d \in C : \A j \in MaskAt(H, 1 - f, d) : d + j + 1 # c
  BY WordOfOne DEF Copying
<1>2. c \in Nat
  BY TupleFacts DEF Copying, NewSpace
<1> QED BY <1>1, <1>2, CursorPasses

LEMMA UnmaskedPassed ==
    ASSUME NEW H, NEW N, NEW R, NEW f, NEW U, NEW F, NEW C, NEW L, NEW i, NEW c \in C,
           NEW k \in 0 .. SizeAt(H, 1 - f, c) - 1, k \notin MaskAt(H, 1 - f, c),
           Copying(H, N, R, f, U, F, C, L, c + k + 1, i)
    PROVE  Copying(H, N, R, f, U, F, C, L, c + k + 1 + 1, i)
<1>1. \A d \in C : \A j \in MaskAt(H, 1 - f, d) : d + j + 1 # c + k + 1
  BY WordOfOne DEF Copying
<1>2. c + k + 1 \in Nat
  <2>1. c \in Nat /\ SizeAt(H, 1 - f, c) \in Nat
    BY TupleFacts DEF Copying, NewSpace
  <2> QED BY <2>1
<1> QED BY <1>1, <1>2, CursorPasses

\* What a field of a copy becomes when the tuple it points to has been copied
CopiedField(H, G, N, R, f, U, F, C, L, i, c, k) ==
    /\ Memory(G) /\ \A t \in {0, 1} : DOMAIN G[t] = DOMAIN H[t]
    /\ SizeAt(G, 1 - f, c) = SizeAt(H, 1 - f, c)
    /\ \E h \in HeaderRecords : G[1 - f][c] = Header(h)
    /\ Copying(G, N, R, f, U, F, C, L, c + k + 1 + 1, i)

LEMMA FieldCopied ==
    ASSUME NEW H, Memory(H), NEW N, NEW R, NEW f \in {0, 1}, NEW U, NEW F, NEW C, NEW L, NEW i,
           NEW c \in C, NEW k \in MaskAt(H, 1 - f, c),
           Copying(H, N, R, f, U, F, C, L, c + k + 1, i),
           NEW x \in Words, PointsInto(x, 1 - f, C),
           NEW G, G = StoredMask(H, 1 - f, c, k, x, MaskAt(H, 1 - f, c) \cup {k})
    PROVE  CopiedField(H, G, N, R, f, U, F, C, L, i, c, k)
<1>1. PICK t \in {0, 1} : t = 1 - f /\ t # f
  OBVIOUS
<1>2. NewSpace(H, t, C, L) /\ OldSpace(H, f, U, F, C) /\ NamedApart(N, f, U, C)
      /\ Pointers(H, R, f, U, F, C, c + k + 1, i)
  BY <1>1 DEF Copying
<1>3. Tuples(H, t, C)
  BY <1>2 DEF Tuples, NewSpace
<1>4. /\ IsTuple(H, t, c) /\ c \in Nat /\ SizeAt(H, t, c) \in Nat
      /\ k \in 0 .. SizeAt(H, t, c) - 1
      /\ MaskAt(H, t, c) \in SUBSET (0 .. SizeAt(H, t, c) - 1)
  BY <1>1, <1>2, TupleFacts DEF NewSpace
<1>5. PICK m \in SUBSET (0 .. SizeAt(H, t, c) - 1) :
        m = MaskAt(H, t, c) /\ m = MaskAt(H, t, c) \cup {k}
  BY <1>1, <1>4
<1>6. FieldSet(H, G, t, C, c, k, x, m)
  <2>1. G = StoredMask(H, t, c, k, x, m)
    BY <1>1, <1>5
  <2> QED BY <1>3, <1>4, <2>1, StoreApart
<1>7. /\ Memory(G) /\ \A s \in {0, 1} : DOMAIN G[s] = DOMAIN H[s]
      /\ G[f] = H[f]
      /\ \A o \in C : o # c => SameTuple(H, G, t, o)
      /\ IsTuple(G, t, c) /\ SizeAt(G, t, c) = SizeAt(H, t, c) /\ MaskAt(G, t, c) = m
      /\ G[t][c + k + 1] = x
      /\ \A j \in 0 .. SizeAt(H, t, c) - 1 : j # k => G[t][c + j + 1] = H[t][c + j + 1]
  BY <1>1, <1>6 DEF FieldSet
<1>8. \A o \in C : /\ IsTuple(G, t, o) /\ SizeAt(G, t, o) = SizeAt(H, t, o)
                   /\ MaskAt(G, t, o) = MaskAt(H, t, o)
  <2> SUFFICES ASSUME NEW o \in C
               PROVE  /\ IsTuple(G, t, o) /\ SizeAt(G, t, o) = SizeAt(H, t, o)
                      /\ MaskAt(G, t, o) = MaskAt(H, t, o)
    OBVIOUS
  <2>1. CASE o = c
    BY <1>5, <1>7, <2>1
  <2>2. CASE o # c
    <3>1. IsTuple(H, t, o) /\ SameTuple(H, G, t, o)
      BY <1>2, <1>7, <2>2 DEF NewSpace
    <3> QED BY <3>1, SameTupleIs
  <2> QED BY <2>1, <2>2
<1>9. NewSpace(G, t, C, L)
  BY <1>2, <1>8 DEF NewSpace, Apart
<1>10. OldSpace(G, f, U, F, C)
  BY <1>2, <1>7, OldSpaceSame
<1>11. ASSUME NEW d \in C, NEW j \in MaskAt(G, t, d)
       PROVE  IF d + j + 1 < c + k + 1 + 1 THEN PointsInto(G[t][d + j + 1], t, C)
              ELSE PointsInto(G[t][d + j + 1], f, U \cup F)
  <2>1. j \in MaskAt(H, t, d) /\ j \in 0 .. SizeAt(H, t, d) - 1 /\ d \in Nat /\ j \in Nat
    BY <1>2, <1>8, <1>11, TupleFacts DEF NewSpace
  <2>2. CASE d = c /\ j = k
    <3>1. d + j + 1 < c + k + 1 + 1
      BY <1>4, <2>1, <2>2
    <3> QED BY <1>1, <1>7, <2>2, <3>1
  <2>3. CASE ~ (d = c /\ j = k)
    <3>1. d + j + 1 # c + k + 1
      BY <1>2, <1>4, <2>1, <2>3, WordOfOne
    <3>2. (d + j + 1 < c + k + 1 + 1) <=> (d + j + 1 < c + k + 1)
      BY <1>4, <2>1, <3>1
    <3>3. G[t][d + j + 1] = H[t][d + j + 1]
      BY <1>7, <2>1, <2>3 DEF SameTuple
    <3>4. IF d + j + 1 < c + k + 1 THEN PointsInto(H[t][d + j + 1], t, C)
          ELSE PointsInto(H[t][d + j + 1], f, U \cup F)
      BY <1>1, <1>2, <2>1 DEF Pointers
    <3> QED BY <3>2, <3>3, <3>4
  <2> QED BY <2>2, <2>3
<1>12. Pointers(G, R, f, U, F, C, c + k + 1 + 1, i)
  BY <1>1, <1>2, <1>11 DEF Pointers
<1>13. Copying(G, N, R, f, U, F, C, L, c + k + 1 + 1, i)
  BY <1>1, <1>2, <1>9, <1>10, <1>12 DEF Copying
<1>14. \E h \in HeaderRecords : G[t][c] = Header(h)
  BY <1>7 DEF IsTuple
<1> QED BY <1>1, <1>7, <1>13, <1>14 DEF CopiedField

LEMMA RootCopied ==
    ASSUME NEW H, NEW N, NEW R \in Seq(Words), NEW f, NEW U, NEW F, NEW C, NEW L, NEW w,
           NEW i \in Nat, i < Len(R), Copying(H, N, R, f, U, F, C, L, w, i),
           NEW x, PointsInto(x, 1 - f, C), NEW Q, Len(Q) = Len(R), Q[i + 1] = x,
           \A j \in 1 .. Len(R) : j # i + 1 => Q[j] = R[j]
    PROVE  Copying(H, N, Q, f, U, F, C, L, w, i + 1)
<1>1. ASSUME NEW j \in 1 .. Len(Q)
      PROVE  IF j <= i + 1 THEN PointsInto(Q[j], 1 - f, C) ELSE PointsInto(Q[j], f, U \cup F)
  <2>1. CASE j = i + 1
    BY <2>1
  <2>2. CASE j # i + 1
    <3>1. j \in 1 .. Len(R) /\ Q[j] = R[j]
      BY <1>1, <2>2
    <3>2. IF j <= i THEN PointsInto(R[j], 1 - f, C) ELSE PointsInto(R[j], f, U \cup F)
      BY <3>1 DEF Copying, Pointers
    <3>3. (j <= i + 1) <=> (j <= i)
      BY <2>2, <3>1
    <3> QED BY <3>1, <3>2, <3>3
  <2> QED BY <2>1, <2>2
<1> QED BY <1>1 DEF Copying, Pointers

\* The last word has been set.
LEMMA CopyingEnds ==
    ASSUME NEW H, NEW N, NEW R \in Seq(Words), NEW f, NEW U, NEW F, NEW C, NEW L,
           Copying(H, N, R, f, U, F, C, L, L, Len(R))
    PROVE  Live(H, N, R, 1 - f, C, L)
<1>1. /\ NewSpace(H, 1 - f, C, L) /\ Named(N, 1 - f, C)
      /\ Pointers(H, R, f, U, F, C, L, Len(R))
  BY DEF Copying, NamedApart
<1>2. ASSUME NEW c \in C, NEW k \in MaskAt(H, 1 - f, c)
      PROVE  PointsInto(H[1 - f][c + k + 1], 1 - f, C)
  <2>1. /\ c \in Nat /\ SizeAt(H, 1 - f, c) \in Nat /\ k \in 0 .. SizeAt(H, 1 - f, c) - 1
        /\ c + SizeAt(H, 1 - f, c) < L /\ L \in Nat
    BY <1>1, TupleFacts DEF NewSpace
  <2>2. c + k + 1 < L
    BY <2>1
  <2>3. IF c + k + 1 < L THEN PointsInto(H[1 - f][c + k + 1], 1 - f, C)
        ELSE PointsInto(H[1 - f][c + k + 1], f, U \cup F)
    BY <1>1 DEF Pointers
  <2> QED BY <2>2, <2>3
<1>3. ASSUME NEW j \in 1 .. Len(R) PROVE PointsInto(R[j], 1 - f, C)
  <2>1. IF j <= Len(R) THEN PointsInto(R[j], 1 - f, C) ELSE PointsInto(R[j], f, U \cup F)
    BY <1>1 DEF Pointers
  <2>2. j <= Len(R)
    OBVIOUS
  <2> QED BY <2>1, <2>2
<1> QED BY <1>1, <1>2, <1>3 DEF Live, NewSpace

LEMMA CopyingBegins ==
    ASSUME NEW H, NEW N, NEW R \in Seq(Words), NEW f, NEW S, NEW L, Live(H, N, R, f, S, L)
    PROVE  Copying(H, N, R, f, S, {}, {}, 0, 0, 0)
<1>1. PICK E : E = {}
  OBVIOUS
<1>2. OldSpace(H, f, S, E, E)
  <2>1. S \cup E = S
    BY <1>1
  <2> QED BY <1>1, <2>1 DEF OldSpace, Live
<1>3. NewSpace(H, 1 - f, E, 0)
  BY <1>1 DEF NewSpace, Apart
<1>4. Pointers(H, R, f, S, E, E, 0, 0)
  <2>1. S \cup E = S /\ \A j \in 1 .. Len(R) : ~ j <= 0
    BY <1>1
  <2> QED BY <1>1, <2>1 DEF Pointers, Live
<1>5. NamedApart(N, f, S, E)
  BY <1>1 DEF NamedApart, Named, Live
<1>6. Copying(H, N, R, f, S, E, E, 0, 0, 0)
  BY <1>2, <1>3, <1>4, <1>5 DEF Copying
<1> QED BY <1>1, <1>6

-----------------------------------------------------------------------------
(* The steps: first the program's own *)

LEMMA SizeTypes ==
    ASSUME GcTypes, SpacesGrow
    PROVE  /\ Sized /\ from \in {0, 1} /\ to \in {0, 1} /\ to = 1 - from /\ from = 1 - to
           /\ to # from
           /\ size(from) \in Nat /\ DOMAIN heap[from] = 0 .. size(from) - 1
           /\ size(to) \in Nat /\ DOMAIN heap[to] = 0 .. size(to) - 1
           /\ size(from) > 0 /\ size(to) > 0
           /\ size(from) <= MaxHeap /\ size(to) <= MaxHeap /\ MaxHeap \in Nat
<1>1. /\ from \in {0, 1} /\ to \in {0, 1} /\ to = 1 - from /\ to # from /\ from = 1 - to
      /\ Memory(heap)
  BY DEF GcTypes, to
<1>2. size(from) \in 1 .. MaxHeap /\ size(to) \in 1 .. MaxHeap
  BY DEF SpacesGrow
<1>3. DOMAIN heap[from] = 0 .. size(from) - 1 /\ DOMAIN heap[to] = 0 .. size(to) - 1
  BY <1>1, MemoryDomain DEF size
<1> QED BY <1>1, <1>2, <1>3, SizesAssumption DEF Sized

\* A step of the quiet collector that leaves the spaces where they are and as
\* large as they are
LEMMA QuietStep ==
    ASSUME Running, Quiet, Quiet', ~ Stopped', GcTypes', AtRest', Asked',
           pc = "grown" <=> pc' = "grown",
           \A s \in {0, 1} : DOMAIN heap'[s] = DOMAIN heap[s], from' = from,
           free' <= size(from)
    PROVE  GcInv'
<1>1. GcTypes /\ SpacesGrow
  BY DEF Running
<1>2. from \in {0, 1} /\ to \in {0, 1} /\ to' = to
  BY <1>1, SizeTypes DEF to
<1>3. size(from)' = size(from) /\ size(to)' = size(to)
  BY <1>2 DEF size
<1>4. SpacesGrow'
  <2>1. size(from) \in 1 .. MaxHeap /\ size(to) \in 1 .. MaxHeap
        /\ (IF pc = "grown" THEN size(from) = 2 * size(to) ELSE size(from) = size(to))
    BY <1>1 DEF SpacesGrow
  <2> QED BY <1>3, <2>1 DEF SpacesGrow
<1>5. InFields'
  BY DEF InFields, Quiet
<1> QED BY <1>4, <1>5 DEF GcInv, Running

LEMMA NewStep ==
    ASSUME Running, NEW n \in Sizes, tuple_new(n)
    PROVE  GcInv'
<1>1. GcTypes /\ SpacesGrow /\ Quiet /\ AtRest /\ pc = "mutator" /\ pc' = "allocate"
      /\ want' = n
  BY DEF Running, tuple_new, Quiet
<1>2. UNCHANGED <<heap, name, from, roots, free, scan, tuple, index, after>>
  BY DEF tuple_new
<1>3. n \in Nat /\ n > 0 /\ n <= 24
  BY SizesAssumption
<1>4. GcTypes'
  BY <1>1, <1>2, <1>3 DEF GcTypes
<1>5. AtRest'
  BY <1>1, <1>2 DEF AtRest
<1>6. Quiet' /\ ~ Stopped' /\ Asked'
  BY <1>1, <1>3 DEF Quiet, Stopped, Asked
<1>7. free' <= size(from)
  BY <1>1, <1>2 DEF SpacesGrow
<1> QED BY <1>1, <1>2, <1>4, <1>5, <1>6, <1>7, QuietStep

LEMMA CallGrowStep ==
    ASSUME Running, CallGrow
    PROVE  GcInv'
<1>1. GcTypes /\ SpacesGrow /\ Quiet /\ AtRest /\ pc = "mutator" /\ pc' = "grow"
  BY DEF Running, CallGrow, Quiet
<1>2. UNCHANGED <<heap, name, from, roots, free, scan, tuple, index, want, after>>
  BY DEF CallGrow
<1>3. GcTypes'
  BY <1>1, <1>2 DEF GcTypes
<1>4. AtRest'
  BY <1>1, <1>2 DEF AtRest
<1>5. Quiet' /\ ~ Stopped' /\ Asked'
  BY <1>1 DEF Quiet, Stopped, Asked
<1>6. free' <= size(from)
  BY <1>1, <1>2 DEF SpacesGrow
<1> QED BY <1>1, <1>2, <1>3, <1>4, <1>5, <1>6, QuietStep

LEMMA CheckStep ==
    ASSUME Running, CheckCopied
    PROVE  GcInv'
<1>1. GcTypes /\ SpacesGrow /\ Asked /\ Quiet /\ AtRest /\ pc = "check"
      /\ pc' \in {"allocate", "grow"}
  BY DEF Running, CheckCopied, Quiet
<1>2. UNCHANGED <<heap, name, from, roots, free, scan, tuple, index, want, after>>
  BY DEF CheckCopied
<1>3. GcTypes'
  BY <1>1, <1>2 DEF GcTypes
<1>4. AtRest'
  BY <1>1, <1>2 DEF AtRest
<1>5. Quiet' /\ ~ Stopped' /\ Asked'
  BY <1>1, <1>2 DEF Quiet, Stopped, Asked
<1>6. free' <= size(from)
  BY <1>1, <1>2 DEF SpacesGrow
<1> QED BY <1>1, <1>2, <1>3, <1>4, <1>5, <1>6, QuietStep

\* The roots change, and point to what was reached.
LEMMA RootsStep ==
    ASSUME Running, pc = "mutator", roots' \in Seq(Words),
           UNCHANGED <<heap, name, from, free, scan, tuple, index, want, pc, after>>,
           NEW S \in SUBSET Nat, NEW L \in 0 .. free, Live(heap, name, roots, from, S, L),
           \A j \in 1 .. Len(roots') : PointsInto(roots'[j], from, S)
    PROVE  GcInv'
<1>1. GcTypes /\ SpacesGrow /\ Quiet /\ pc' = "mutator" /\ free \in Nat
  BY DEF Running, Quiet, GcTypes
<1>2. GcTypes'
  BY <1>1 DEF GcTypes
<1>3. Live(heap', name', roots', from', S, L)
  <2>1. Live(heap, name, roots', from, S, L)
    BY DEF Live
  <2> QED BY <2>1
<1>4. AtRest'
  BY <1>3 DEF AtRest
<1>5. Quiet' /\ ~ Stopped' /\ Asked'
  BY <1>1 DEF Quiet, Stopped, Asked
<1>6. free' <= size(from)
  BY <1>1 DEF SpacesGrow
<1> QED BY <1>1, <1>2, <1>4, <1>5, <1>6, QuietStep

LEMMA PopStep ==
    ASSUME Running, gc_pop_root
    PROVE  GcInv'
<1>1. roots \in Seq(Words) /\ AtRest /\ pc = "mutator" /\ roots # <<>>
      /\ roots' = SubSeq(roots, 1, Len(roots) - 1)
  BY DEF Running, gc_pop_root, Quiet, GcTypes
<1>2. UNCHANGED <<heap, name, from, free, scan, tuple, index, want, pc, after>>
  BY DEF gc_pop_root
<1>3. PICK S \in SUBSET Nat, L \in 0 .. free : Live(heap, name, roots, from, S, L)
  BY <1>1 DEF AtRest
<1>4. /\ roots' \in Seq(Words) /\ Len(roots') = Len(roots) - 1
      /\ \A j \in 1 .. Len(roots') : roots'[j] = roots[j]
  <2>1. Len(roots) \in Nat /\ Len(roots) > 0
    BY <1>1
  <2>2. PICK n \in Nat : n = Len(roots) - 1
    BY <2>1
  <2>3. \A j \in 1 .. n : roots[j] \in Words
    BY <1>1, <2>1, <2>2
  <2>4. /\ SubSeq(roots, 1, n) \in Seq(Words)
        /\ Len(SubSeq(roots, 1, n)) = IF 1 <= n THEN n - 1 + 1 ELSE 0
        /\ \A j \in 1 .. n - 1 + 1 : SubSeq(roots, 1, n)[j] = roots[1 + j - 1]
    BY <2>3, SubSeqProperties
  <2>5. (IF 1 <= n THEN n - 1 + 1 ELSE 0) = n /\ n - 1 + 1 = n
        /\ \A j \in 1 .. n : 1 + j - 1 = j
    OBVIOUS
  <2>6. roots' = SubSeq(roots, 1, n)
    BY <1>1, <2>2
  <2>7. Len(roots') = n /\ \A j \in 1 .. n : roots'[j] = roots[j]
    BY <2>4, <2>5, <2>6
  <2> QED BY <2>2, <2>4, <2>6, <2>7
<1>5. \A j \in 1 .. Len(roots') : PointsInto(roots'[j], from, S)
  <2>1. \A j \in 1 .. Len(roots') : j \in 1 .. Len(roots)
    BY <1>1, <1>4
  <2> QED BY <1>3, <1>4, <2>1 DEF Live
<1> QED BY <1>1, <1>2, <1>3, <1>4, <1>5, RootsStep

\* A root leads to a tuple of the from-space.
LEMMA RootIs ==
    ASSUME NEW S \in SUBSET Nat, NEW L, Live(heap, name, roots, from, S, L),
           roots \in Seq(Words), NEW i \in DOMAIN roots
    PROVE  \E o \in S : /\ roots[i] = Pointer(<<from, o>>) /\ roots[i][2][1] = from
                        /\ roots[i][2][2] = o /\ roots[i][1] = "tuple"
<1>1. PICK o \in S : roots[i] = Pointer(<<from, o>>)
  <2>1. i \in 1 .. Len(roots)
    OBVIOUS
  <2> QED BY <2>1 DEF Live, PointsInto
<1> QED BY <1>1 DEF Pointer

LEMMA GetStep ==
    ASSUME Running, NEW i \in DOMAIN roots, NEW k \in 0 .. MaxTuple - 1, tuple_get_tuple(i, k)
    PROVE  GcInv'
<1>1. roots \in Seq(Words) /\ AtRest /\ pc = "mutator" /\ from \in {0, 1}
  BY DEF Running, tuple_get_tuple, Quiet, GcTypes
<1>2. UNCHANGED <<heap, name, from, free, scan, tuple, index, want, pc, after>>
  BY DEF tuple_get_tuple
<1>3. PICK S \in SUBSET Nat, L \in 0 .. free : Live(heap, name, roots, from, S, L)
  BY <1>1 DEF AtRest
<1>4. PICK o \in S : roots[i][2][1] = from /\ roots[i][2][2] = o
  BY <1>1, <1>3, RootIs
<1>5. k \in MaskAt(heap, from, o) /\ roots' = Append(roots, heap[from][o + k + 1])
  BY <1>4 DEF tuple_get_tuple, MaskAt
<1>6. PointsInto(heap[from][o + k + 1], from, S)
  BY <1>3, <1>5 DEF Live
<1>7. heap[from][o + k + 1] \in Words
  <2>1. PICK p \in S : heap[from][o + k + 1] = Pointer(<<from, p>>)
    BY <1>6 DEF PointsInto
  <2>2. <<from, p>> \in (0 .. 2) \X Nat
    BY <1>1
  <2> QED BY <2>1, <2>2 DEF Words
<1>8. /\ roots' \in Seq(Words) /\ Len(roots') = Len(roots) + 1
      /\ \A j \in 1 .. Len(roots') :
           roots'[j] = IF j = Len(roots) + 1 THEN heap[from][o + k + 1] ELSE roots[j]
  BY <1>1, <1>5, <1>7
<1>9. ASSUME NEW j \in 1 .. Len(roots') PROVE PointsInto(roots'[j], from, S)
  <2>1. CASE j = Len(roots) + 1
    BY <1>6, <1>8, <2>1
  <2>2. CASE j # Len(roots) + 1
    <3>1. j \in 1 .. Len(roots)
      BY <1>1, <1>8, <2>2
    <3> QED BY <1>3, <1>8, <2>2, <3>1 DEF Live
  <2> QED BY <2>1, <2>2
<1> QED BY <1>1, <1>2, <1>3, <1>8, <1>9, RootsStep

LEMMA SetStep ==
    ASSUME Running, NEW i \in DOMAIN roots, NEW k \in 0 .. MaxTuple - 1, NEW word,
           SetField(i, k, word),
           \/ \E j \in DOMAIN roots : word = roots[j]
           \/ \E a \in Atoms : word = Atom(a)
    PROVE  GcInv'
<1>1. GcTypes /\ SpacesGrow /\ Quiet /\ AtRest /\ pc = "mutator" /\ pc' = "mutator"
  BY DEF Running, SetField, Quiet
<1>2. UNCHANGED <<name, from, roots, free, scan, tuple, index, want, pc, after>>
  BY DEF SetField
<1>3. /\ Memory(heap) /\ roots \in Seq(Words) /\ from \in {0, 1} /\ free \in Nat
  BY <1>1 DEF GcTypes
<1>4. PICK S \in SUBSET Nat, L \in 0 .. free : Live(heap, name, roots, from, S, L)
  BY <1>1 DEF AtRest
<1>5. PICK o \in S : roots[i][2][1] = from /\ roots[i][2][2] = o
  BY <1>3, <1>4, RootIs
<1>6. /\ k < SizeAt(heap, from, o)
      /\ heap' = IF word[1] = "tuple"
                 THEN StoredMask(heap, from, o, k, word, MaskAt(heap, from, o) \cup {k})
                 ELSE StoredMask(heap, from, o, k, word, MaskAt(heap, from, o) \ {k})
  <2>1. k \in 0 .. 23
    BY SizesAssumption
  <2>2. /\ k < SizeAt(heap, from, o)
        /\ heap' = IF word[1] = "tuple" THEN tuple_set_tuple(heap, from, o, k, word)
                   ELSE tuple_set_atom(heap, from, o, k, word)
    BY <1>5 DEF SetField, SizeAt
  <2>3. /\ tuple_set_tuple(heap, from, o, k, word) = StoredMask(heap, from, o, k, word, MaskAt(heap, from, o) \cup {k})
        /\ tuple_set_atom(heap, from, o, k, word) = StoredMask(heap, from, o, k, word, MaskAt(heap, from, o) \ {k})
    BY <2>1, SmallIndex DEF tuple_set_tuple, tuple_set_atom, StoredMask, MaskAt
  <2> QED BY <2>2, <2>3, Zenon
<1>7. /\ SizeAt(heap, from, o) \in Nat
      /\ MaskAt(heap, from, o) \in SUBSET (0 .. SizeAt(heap, from, o) - 1)
  BY <1>4, TupleFacts DEF Live
<1>8. k \in 0 .. SizeAt(heap, from, o) - 1
  BY <1>6, <1>7, SizesAssumption
<1>9. PICK m \in SUBSET (0 .. SizeAt(heap, from, o) - 1) :
        /\ heap' = StoredMask(heap, from, o, k, word, m)
        /\ \A j \in m : IF j = k THEN PointsInto(word, from, S) ELSE j \in MaskAt(heap, from, o)
  <2>1. CASE \E j \in DOMAIN roots : word = roots[j]
    <3>1. word[1] = "tuple" /\ PointsInto(word, from, S)
      <4>1. PICK j \in DOMAIN roots : word = roots[j]
        BY <2>1
      <4>2. \E p \in S : roots[j] = Pointer(<<from, p>>) /\ roots[j][1] = "tuple"
        BY <1>3, <1>4, RootIs
      <4> QED BY <4>1, <4>2 DEF PointsInto
    <3>2. MaskAt(heap, from, o) \cup {k} \in SUBSET (0 .. SizeAt(heap, from, o) - 1)
      BY <1>7, <1>8
    <3> QED BY <1>6, <3>1, <3>2
  <2>2. CASE \E a \in Atoms : word = Atom(a)
    <3>1. word[1] # "tuple"
      BY <2>2 DEF Atom
    <3>2. MaskAt(heap, from, o) \ {k} \in SUBSET (0 .. SizeAt(heap, from, o) - 1)
      BY <1>7
    <3> QED BY <1>6, <3>1, <3>2
  <2> QED BY <2>1, <2>2
<1>10. word \in Words
  <2>1. CASE \E j \in DOMAIN roots : word = roots[j]
    BY <1>3, <2>1
  <2>2. CASE \E a \in Atoms : word = Atom(a)
    BY <2>2, SizesAssumption DEF Words
  <2> QED BY <2>1, <2>2
<1>11. PICK G : G = heap'
  OBVIOUS
<1>12. /\ Memory(G) /\ (\A t \in {0, 1} : DOMAIN G[t] = DOMAIN heap[t])
       /\ Live(G, name, roots, from, S, L)
  <2>1. G = StoredMask(heap, from, o, k, word, m) /\ Fits(heap, from, S, o, k, word, m)
    BY <1>9, <1>11 DEF Fits
  <2>2. StillLive(heap, G, name, roots, from, S, L)
    BY <1>3, <1>4, <1>8, <1>10, <2>1, LiveStored
  <2> QED BY <2>2 DEF StillLive
<1>13. GcTypes'
  BY <1>1, <1>2, <1>11, <1>12 DEF GcTypes
<1>14. AtRest'
  BY <1>2, <1>3, <1>11, <1>12 DEF AtRest
<1>15. Quiet' /\ ~ Stopped' /\ Asked'
  BY <1>1 DEF Quiet, Stopped, Asked
<1>16. free' <= size(from)
  BY <1>1, <1>2 DEF SpacesGrow
<1>17. \A t \in {0, 1} : DOMAIN heap'[t] = DOMAIN heap[t]
  BY <1>11, <1>12
<1> QED BY <1>1, <1>2, <1>13, <1>14, <1>15, <1>16, <1>17, QuietStep

-----------------------------------------------------------------------------
(* A new tuple *)

\* The live tuples take two words or more each.
LEMMA LiveCount ==
    ASSUME NEW S \in SUBSET Nat, NEW s, NEW H, NEW L \in Nat,
           \A o \in S : o \in Nat /\ SizeAt(H, s, o) \in Nat \ {0} /\ o + SizeAt(H, s, o) < L,
           Apart(H, s, S)
    PROVE  IsFiniteSet(S) /\ Cardinality(S) \in Nat /\ 2 * Cardinality(S) <= L
<1>1. IsFiniteSet(S) /\ Cardinality(S) \in Nat
  <2>1. \A o \in S : o <= L
    OBVIOUS
  <2> QED BY <2>1, FS_BoundedSetOfNaturals, FS_CardinalityType
<1>2. /\ IsFiniteSet({0, 1}) /\ Cardinality({0, 1}) = 2
  <2>1. {0, 1} = 0 .. 1
    OBVIOUS
  <2>2. IsFiniteSet(0 .. 1) /\ Cardinality(0 .. 1) = IF 0 > 1 THEN 0 ELSE 1 - 0 + 1
    <3>1. 0 \in Int /\ 1 \in Int
      OBVIOUS
    <3> QED BY <3>1, FS_Interval, Zenon
  <2> QED BY <2>1, <2>2
<1>3. /\ IsFiniteSet(S \X {0, 1}) /\ Cardinality(S \X {0, 1}) = Cardinality(S) * 2
  BY <1>1, <1>2, FS_Product
<1>4. IsFiniteSet(0 .. L - 1) /\ Cardinality(0 .. L - 1) = L
  <2>1. 0 \in Int /\ L - 1 \in Int
    OBVIOUS
  <2>2. /\ IsFiniteSet(0 .. L - 1)
        /\ Cardinality(0 .. L - 1) = IF 0 > L - 1 THEN 0 ELSE (L - 1) - 0 + 1
    BY <2>1, FS_Interval
  <2> QED BY <2>2
<1> DEFINE f == [x \in S \X {0, 1} |-> x[1] + x[2]]
<1>5. f \in [S \X {0, 1} -> 0 .. L - 1]
  <2> SUFFICES ASSUME NEW x \in S \X {0, 1} PROVE x[1] + x[2] \in 0 .. L - 1
    OBVIOUS
  <2>1. x[1] \in S /\ x[2] \in {0, 1}
    OBVIOUS
  <2>2. x[1] \in Nat /\ SizeAt(H, s, x[1]) \in Nat \ {0} /\ x[1] + SizeAt(H, s, x[1]) < L
    BY <2>1
  <2> QED BY <2>1, <2>2
<1>6. ASSUME NEW x \in S \X {0, 1}, NEW y \in S \X {0, 1}, f[x] = f[y] PROVE x = y
  <2>1. PICK o \in S, p \in S, b \in {0, 1}, c \in {0, 1} :
          o = x[1] /\ b = x[2] /\ p = y[1] /\ c = y[2]
    OBVIOUS
  <2>2. x[1] + x[2] = y[1] + y[2]
    BY <1>6
  <2>3. o + b = p + c
    BY <2>1, <2>2
  <2>4. /\ o \in Nat /\ SizeAt(H, s, o) \in Nat \ {0} /\ p \in Nat /\ SizeAt(H, s, p) \in Nat \ {0}
    OBVIOUS
  <2>5. (o < p => o + SizeAt(H, s, o) < p) /\ (p < o => p + SizeAt(H, s, p) < o)
    BY DEF Apart
  <2>6. o = p /\ b = c
    BY <2>3, <2>4, <2>5
  <2>7. x = <<x[1], x[2]>> /\ y = <<y[1], y[2]>>
    OBVIOUS
  <2>8. x[1] = y[1] /\ x[2] = y[2]
    BY <2>1, <2>6
  <2> QED BY <2>7, <2>8, Zenon
<1>7. f \in Injection(S \X {0, 1}, 0 .. L - 1)
  <2>1. DOMAIN f = S \X {0, 1}
    OBVIOUS
  <2> HIDE DEF f
  <2> QED BY <1>5, <1>6, <2>1 DEF Injection, IsInjective
<1>8. Cardinality(S \X {0, 1}) <= Cardinality(0 .. L - 1)
  <2> HIDE DEF f
  <2> QED BY <1>4, <1>7, FS_Injection
<1> QED BY <1>1, <1>3, <1>4, <1>8

LEMMA FreshName ==
    ASSUME NEW S, IsFiniteSet(S), NEW N, NEW s, Cardinality(S) < Cardinality(Names)
    PROVE  \E m \in Names : \A o \in S : N[s][o] # m
<1> SUFFICES ASSUME \A m \in Names : \E o \in S : N[s][o] = m
             PROVE  FALSE
  OBVIOUS
<1> DEFINE f == [m \in Names |-> CHOOSE o \in S : N[s][o] = m]
<1>1. \A m \in Names : f[m] \in S /\ N[s][f[m]] = m
  OBVIOUS
<1>2. f \in [Names -> S] /\ DOMAIN f = Names
  BY <1>1
<1>3. \A m, n \in Names : f[m] = f[n] => m = n
  BY <1>1
<1>4. f \in Injection(Names, S)
  <2> HIDE DEF f
  <2> QED BY <1>2, <1>3 DEF Injection, IsInjective
<1>5. Cardinality(Names) <= Cardinality(S)
  <2> HIDE DEF f
  <2> QED BY <1>4, FS_Injection
<1>6. Cardinality(Names) \in Nat /\ Cardinality(S) \in Nat
  BY NamesAssumption, FS_CardinalityType
<1> QED BY <1>5, <1>6

LEMMA AtCount ==
    ASSUME NEW s, NEW S, IsFiniteSet(S)
    PROVE  IsFiniteSet(At(s, S)) /\ Cardinality(At(s, S)) <= Cardinality(S)
<1> DEFINE f == [a \in At(s, S) |-> a[2]]
<1>1. f \in [At(s, S) -> S] /\ DOMAIN f = At(s, S)
  BY DEF At
<1>2. \A a, b \in At(s, S) : f[a] = f[b] => a = b
  BY DEF At
<1>3. f \in Injection(At(s, S), S)
  <2> HIDE DEF f
  <2> QED BY <1>1, <1>2 DEF Injection, IsInjective
<1> QED
  <2> HIDE DEF f
  <2> QED BY <1>3, FS_Injection

\* One word is written.
Written(H, s, e, v) == [H EXCEPT ![s][e] = v]

IsWritten(H, G, s, e, v) ==
    /\ Memory(G) /\ \A t \in {0, 1} : DOMAIN G[t] = DOMAIN H[t]
    /\ G[s][e] = v /\ \A p \in DOMAIN H[s] : p # e => G[s][p] = H[s][p]
    /\ \A t \in {0, 1} : t # s => G[t] = H[t]

LEMMA WrittenFacts ==
    ASSUME NEW H, Memory(H), NEW s \in {0, 1}, NEW e \in DOMAIN H[s], NEW v \in Words,
           NEW G, G = Written(H, s, e, v)
    PROVE  IsWritten(H, G, s, e, v)
<1>1. DOMAIN H = {0, 1} /\ H[s] \in [DOMAIN H[s] -> Words]
  BY MemoryDomain DEF Memory
<1>2. G = [H EXCEPT ![s] = [H[s] EXCEPT ![e] = v]]
  BY DEF Written
<1>3. /\ DOMAIN G = {0, 1} /\ G[s] = [H[s] EXCEPT ![e] = v]
      /\ \A t \in {0, 1} : t # s => G[t] = H[t]
  BY <1>1, <1>2
<1>4. G[s] \in [DOMAIN H[s] -> Words] /\ G[s][e] = v
      /\ \A p \in DOMAIN H[s] : p # e => G[s][p] = H[s][p]
  BY <1>1, <1>3
<1>5. \A t \in {0, 1} : G[t] \in [DOMAIN H[t] -> Words]
  <2> SUFFICES ASSUME NEW t \in {0, 1} PROVE G[t] \in [DOMAIN H[t] -> Words]
    OBVIOUS
  <2>1. CASE t = s
    BY <1>4, <2>1
  <2>2. CASE t # s
    BY <1>3, <2>2, MemoryDomain
  <2> QED BY <2>1, <2>2
<1>6. Memory(G) /\ \A t \in {0, 1} : DOMAIN G[t] = DOMAIN H[t]
  BY <1>3, <1>5, MemoryAgain
<1> QED BY <1>3, <1>4, <1>6 DEF IsWritten

\* The tuples that are still reached
LEMMA LiveReached ==
    ASSUME roots \in Seq(Words), from \in {0, 1}, NEW S \in SUBSET Nat, NEW L,
           Live(heap, name, roots, from, S, L), Covers(Reached), Reached \subseteq At(from, S)
    PROVE  Live(heap, name, roots, from, {o \in S : <<from, o>> \in Reached}, L)
<1>1. PICK P : P = {o \in S : <<from, o>> \in Reached}
  OBVIOUS
<1>2. \A o \in S : Resolved(<<from, o>>) = <<from, o>>
  BY TupleResolved DEF Live
<1>3. ASSUME NEW word, PointsInto(word, from, S), Resolved(word[2]) \in Reached
      PROVE  PointsInto(word, from, P)
  <2>1. PICK o \in S : word = Pointer(<<from, o>>)
    BY <1>3 DEF PointsInto
  <2>2. word[2] = <<from, o>>
    BY <2>1 DEF Pointer
  <2>3. o \in P
    BY <1>1, <1>2, <1>3, <2>2
  <2> QED BY <2>1, <2>3 DEF PointsInto
<1>4. ASSUME NEW j \in 1 .. Len(roots) PROVE PointsInto(roots[j], from, P)
  <2>1. PointsInto(roots[j], from, S)
    BY DEF Live
  <2>2. j \in DOMAIN roots
    OBVIOUS
  <2>3. Resolved(roots[j][2]) \in Reached
    BY <2>2 DEF Covers, FirstReached
  <2> QED BY <1>3, <2>1, <2>3
<1>5. ASSUME NEW o \in P, NEW k \in MaskAt(heap, from, o)
      PROVE  PointsInto(heap[from][o + k + 1], from, P)
  <2>1. o \in S /\ <<from, o>> \in Reached
    BY <1>1, <1>5
  <2>2. PointsInto(heap[from][o + k + 1], from, S)
    BY <2>1 DEF Live
  <2>3. /\ k \in HeaderOf(<<from, o>>).mask /\ FieldOf(<<from, o>>, k) = heap[from][o + k + 1]
        /\ FieldOf(<<from, o>>, k)[1] = "tuple"
    BY <1>5, <2>2 DEF HeaderOf, FieldOf, MaskAt, PointsInto, Pointer
  <2>4. Resolved(FieldOf(<<from, o>>, k)[2]) \in Children(<<from, o>>)
    BY <2>3 DEF Children
  <2>5. Resolved(heap[from][o + k + 1][2]) \in Reached
    BY <2>1, <2>3, <2>4 DEF Covers
  <2> QED BY <1>3, <2>2, <2>5
<1>6. P \subseteq S
  BY <1>1
<1>7. Live(heap, name, roots, from, P, L)
  BY <1>4, <1>5, <1>6 DEF Live, Apart, Named
<1> QED BY <1>1, <1>7

Allocated(H, G, M, Q, s, T, K) ==
    /\ Memory(G) /\ (\A t \in {0, 1} : DOMAIN G[t] = DOMAIN H[t]) /\ Tables(M)
    /\ Q \in Seq(Words) /\ Live(G, M, Q, s, T, K)

\* No tuple of S has the name m.
Fresh(N, s, S, m) == \A o \in S : N[s][o] # m

\* The tuples S and a new one of n fields at e
\* In H the tuples S are live, and e is the start of free space; G, M and Q have
\* a new tuple there, with n fields and the name m.
Allocates(H, N, R, s, S, L, e, n, m, G, M, Q) ==
    /\ Memory(H) /\ Tables(N) /\ R \in Seq(Words) /\ s \in {0, 1} /\ S \in SUBSET Nat
    /\ L \in Nat /\ Live(H, N, R, s, S, L) /\ e \in Nat /\ L <= e
    /\ n \in Nat /\ n > 0 /\ n <= 24 /\ e + n + 1 < Cardinality(DOMAIN H[s])
    /\ Cardinality(DOMAIN H[s]) <= MaxHeap /\ m \in Names /\ Fresh(N, s, S, m)
    /\ G = Written(H, s, e, FreshHeader(n)) /\ M = Renamed(N, s, e, m)
    /\ Q = Append(R, Pointer(<<s, e>>))

LEMMA LiveAllocated ==
    ASSUME NEW H, NEW N, NEW R, NEW s, NEW S, NEW L, NEW e, NEW n, NEW m, NEW G, NEW M, NEW Q,
           Allocates(H, N, R, s, S, L, e, n, m, G, M, Q)
    PROVE  Allocated(H, G, M, Q, s, S \cup {e}, e + n + 1)
<1> SUFFICES ASSUME Memory(H), Tables(N), R \in Seq(Words), s \in {0, 1}, S \in SUBSET Nat,
                    L \in Nat, Live(H, N, R, s, S, L), e \in Nat, L <= e,
                    n \in Nat, n > 0, n <= 24, e + n + 1 < Cardinality(DOMAIN H[s]),
                    Cardinality(DOMAIN H[s]) <= MaxHeap, m \in Names, Fresh(N, s, S, m),
                    G = Written(H, s, e, FreshHeader(n)), M = Renamed(N, s, e, m),
                    Q = Append(R, Pointer(<<s, e>>))
             PROVE  Allocated(H, G, M, Q, s, S \cup {e}, e + n + 1)
  BY DEF Allocates
<1>1. PICK T, K : T = S \cup {e} /\ K = e + n + 1
  OBVIOUS
<1>2. /\ DOMAIN H[s] = 0 .. Cardinality(DOMAIN H[s]) - 1 /\ Cardinality(DOMAIN H[s]) \in Nat
  BY MemoryDomain
<1>3. e \in DOMAIN H[s] /\ e + n \in DOMAIN H[s] /\ e \in 0 .. MaxHeap - 1 /\ K \in Nat
  BY <1>1, <1>2, SizesAssumption
<1>4. PICK h : FreshHeader(n) = Header(h) /\ HeaderOk(h) /\ h.size = n /\ h.mask = {}
  <2>1. [size |-> n, mask |-> {}, forward |-> FALSE] \in HeaderRecords
    BY DEF HeaderRecords
  <2>2. HeaderOk([size |-> n, mask |-> {}, forward |-> FALSE])
    BY <2>1 DEF HeaderOk
  <2> QED BY <2>2 DEF FreshHeader
<1>5. IsWritten(H, G, s, e, FreshHeader(n))
  <2>1. FreshHeader(n) \in Words
    BY <1>4 DEF Words, HeaderOk
  <2> QED BY <1>3, <2>1, WrittenFacts
<1>6. /\ Memory(G) /\ \A t \in {0, 1} : DOMAIN G[t] = DOMAIN H[t]
      /\ G[s][e] = Header(h) /\ \A p \in DOMAIN H[s] : p # e => G[s][p] = H[s][p]
  BY <1>4, <1>5 DEF IsWritten
<1>7. /\ Tables(M) /\ M[s][e] = m /\ \A p : p # e => M[s][p] = N[s][p]
  BY <1>3, NameSet
<1>8. \A o \in S : IsTuple(H, s, o) /\ o + SizeAt(H, s, o) < e /\ o \in Nat
                   /\ SizeAt(H, s, o) \in Nat
  <2> SUFFICES ASSUME NEW o \in S
               PROVE  IsTuple(H, s, o) /\ o + SizeAt(H, s, o) < e /\ o \in Nat
                      /\ SizeAt(H, s, o) \in Nat
    OBVIOUS
  <2>1. IsTuple(H, s, o) /\ o + SizeAt(H, s, o) < L
    BY DEF Live
  <2>2. o \in Nat /\ SizeAt(H, s, o) \in Nat
    BY <2>1, TupleFacts
  <2> QED BY <2>1, <2>2
<1>9. Below(H, G, s, e)
  BY <1>6 DEF Below
<1>10. \A o \in S : SameTuple(H, G, s, o)
  BY <1>8, <1>9, BelowSame
<1>11. \A o \in S : /\ IsTuple(G, s, o) /\ SizeAt(G, s, o) = SizeAt(H, s, o)
                    /\ MaskAt(G, s, o) = MaskAt(H, s, o)
  BY <1>8, <1>10, SameTupleIs
<1>12. SizeAt(G, s, e) = n /\ MaskAt(G, s, e) = {} /\ IsTuple(G, s, e)
  <2>1. SizeAt(G, s, e) = n /\ MaskAt(G, s, e) = {}
    BY <1>4, <1>6, WordKinds DEF SizeAt, MaskAt
  <2>2. e + SizeAt(G, s, e) \in DOMAIN G[s]
    BY <1>3, <1>6, <2>1
  <2>3. /\ h \in HeaderRecords /\ h.size > 0 /\ h.size <= 24
        /\ h.mask \subseteq 0 .. h.size - 1 /\ ~ h.forward
    BY <1>4 DEF HeaderOk
  <2>4. IsTuple(G, s, e)
    BY <1>6, <2>2, <2>3 DEF IsTuple
  <2> QED BY <2>1, <2>4
<1>13. ASSUME NEW o \in T PROVE IsTuple(G, s, o) /\ o + SizeAt(G, s, o) < K
  <2>1. CASE o = e
    BY <1>1, <1>3, <1>12, <2>1
  <2>2. CASE o \in S
    <3>1. o + SizeAt(H, s, o) < K
      BY <1>1, <1>8, <2>2
    <3> QED BY <1>11, <2>2, <3>1
  <2> QED BY <1>1, <1>13, <2>1, <2>2
<1>14. Apart(G, s, T)
  <2> SUFFICES ASSUME NEW o \in T, NEW p \in T, o < p PROVE o + SizeAt(G, s, o) < p
    BY DEF Apart
  <2>1. CASE o \in S /\ p \in S
    <3>1. o + SizeAt(H, s, o) < p
      BY <2>1 DEF Live, Apart
    <3> QED BY <1>11, <2>1, <3>1
  <2>2. CASE o \in S /\ p = e
    <3>1. o + SizeAt(H, s, o) < p
      BY <1>8, <2>2
    <3> QED BY <1>11, <2>2, <3>1
  <2>3. CASE o = e
    <3>1. ASSUME p \in S PROVE FALSE
      <4>1. p + SizeAt(H, s, p) < e /\ p \in Nat /\ SizeAt(H, s, p) \in Nat
        BY <1>8, <3>1
      <4> QED BY <2>3, <4>1
    <3>2. p = e
      BY <1>1, <3>1
    <3> QED BY <2>3, <3>2
  <2> QED BY <1>1, <2>1, <2>2, <2>3
<1>15. ASSUME NEW word, PointsInto(word, s, S) PROVE PointsInto(word, s, T)
  BY <1>1, <1>15 DEF PointsInto
<1>16. ASSUME NEW o \in T, NEW k \in MaskAt(G, s, o) PROVE PointsInto(G[s][o + k + 1], s, T)
  <2>1. o \in S
    BY <1>1, <1>12, <1>16
  <2>2. k \in MaskAt(H, s, o) /\ G[s][o + k + 1] = H[s][o + k + 1]
    BY <1>10, <1>11, <1>16, <2>1 DEF SameTuple
  <2>3. PointsInto(H[s][o + k + 1], s, S)
    BY <2>1, <2>2 DEF Live
  <2> QED BY <1>15, <2>2, <2>3
<1>17. Pointer(<<s, e>>) \in Words /\ PointsInto(Pointer(<<s, e>>), s, T)
  <2>1. <<s, e>> \in (0 .. 2) \X Nat
    OBVIOUS
  <2>2. e \in T
    BY <1>1
  <2> QED BY <2>1, <2>2 DEF Words, PointsInto
<1>18. /\ Q \in Seq(Words) /\ Len(Q) = Len(R) + 1
       /\ \A j \in 1 .. Len(Q) : Q[j] = IF j = Len(R) + 1 THEN Pointer(<<s, e>>) ELSE R[j]
  BY <1>17
<1>19. ASSUME NEW j \in 1 .. Len(Q) PROVE PointsInto(Q[j], s, T)
  <2>1. CASE j = Len(R) + 1
    BY <1>17, <1>18, <2>1
  <2>2. CASE j # Len(R) + 1
    <3>1. j \in 1 .. Len(R) /\ Q[j] = R[j]
      BY <1>18, <2>2
    <3>2. PointsInto(R[j], s, S)
      BY <3>1 DEF Live
    <3> QED BY <1>15, <3>1, <3>2
  <2> QED BY <2>1, <2>2
<1>20. Named(M, s, T)
  <2>1. \A o \in S : o # e /\ M[s][o] = N[s][o] /\ N[s][o] \in Names
    <3>1. \A o \in S : o # e
      BY <1>8
    <3> QED BY <1>7, <3>1 DEF Live, Named
  <2>0. \A o \in S : N[s][o] # m
    BY DEF Fresh
  <2>2. \A o \in T : M[s][o] \in Names
    BY <1>1, <1>7, <2>1
  <2>3. ASSUME NEW o \in T, NEW p \in T, M[s][o] = M[s][p] PROVE o = p
    <3>1. CASE o \in S /\ p \in S
      BY <2>1, <2>3, <3>1 DEF Live, Named
    <3>2. CASE o = e /\ p \in S
      BY <1>7, <2>0, <2>1, <2>3, <3>2
    <3>3. CASE o \in S /\ p = e
      BY <1>7, <2>0, <2>1, <2>3, <3>3
    <3>4. CASE o = e /\ p = e
      BY <3>4
    <3> QED BY <1>1, <3>1, <3>2, <3>3, <3>4
  <2> QED BY <2>2, <2>3 DEF Named
<1>21. Live(G, M, Q, s, T, K)
  BY <1>3, <1>13, <1>14, <1>16, <1>19, <1>20 DEF Live
<1> QED BY <1>1, <1>6, <1>7, <1>18, <1>21 DEF Allocated

LEMMA AllocateStep ==
    ASSUME Running, gc_allocate_tuple, gc_space_is_enough(want)
    PROVE  GcInv'
<1>1. /\ GcTypes /\ SpacesGrow /\ Asked /\ Quiet /\ AtRest /\ pc = "allocate"
      /\ heap' = [heap EXCEPT ![from][free] = FreshHeader(want)]
      /\ name' = [name EXCEPT ![from][free] =
                    CHOOSE m \in Names : \A a \in Reached : NameOf(a) # m]
      /\ roots' = Append(roots, Pointer(<<from, free>>))
      /\ free' = free + want + 1 /\ want' = 0 /\ pc' = "mutator"
      /\ UNCHANGED <<from, scan, tuple, index, after>>
  BY DEF Running, gc_allocate_tuple, Quiet
<1>2. /\ Memory(heap) /\ Tables(name) /\ roots \in Seq(Words) /\ from \in {0, 1}
      /\ free \in Nat /\ want \in Nat \ {0} /\ want <= 24
  <2>1. want > 0
    <3>1. Asked /\ pc = "allocate"
      BY <1>1
    <3> QED BY <3>1 DEF Asked
  <2>2. /\ Memory(heap) /\ Tables(name) /\ roots \in Seq(Words) /\ from \in {0, 1}
        /\ free \in Nat /\ want \in Nat /\ want <= 24
    BY <1>1 DEF GcTypes
  <2> QED BY <2>1, <2>2
<1>3. /\ size(from) \in Nat /\ size(from) <= MaxHeap /\ MaxHeap \in Nat
      /\ free + want + 1 < size(from)
  BY <1>1, SizeTypes DEF gc_space_is_enough
<1>4. PICK S \in SUBSET Nat, L \in 0 .. free : Live(heap, name, roots, from, S, L)
  BY <1>1 DEF AtRest
<1>5. IsFiniteSet(S) /\ Cardinality(S) \in Nat /\ 2 * Cardinality(S) <= L
  <2>1. \A o \in S : /\ o \in Nat /\ SizeAt(heap, from, o) \in Nat \ {0}
                     /\ o + SizeAt(heap, from, o) < L
    BY <1>4, TupleFacts DEF Live
  <2>2. Apart(heap, from, S) /\ L \in Nat
    BY <1>4 DEF Live
  <2> QED BY <2>1, <2>2, LiveCount
<1>6. Cardinality(S) < Cardinality(Names)
  <2>1. Cardinality(Names) \in Nat /\ MaxHeap <= 2 * Cardinality(Names) + 2
    BY NamesAssumption, FS_CardinalityType
  <2> QED BY <1>2, <1>3, <1>5, <2>1
<1>7. Covers(Reached) /\ Reached \subseteq At(from, S)
  <2>1. Covers(At(from, S))
    BY <1>2, <1>4, LiveCovers
  <2>2. IsFiniteSet(At(from, S)) /\ Cardinality(At(from, S)) <= Cardinality(S)
    BY <1>5, AtCount
  <2>3. Cardinality(At(from, S)) <= Cardinality(Names)
    <3>1. Cardinality(At(from, S)) \in Nat /\ Cardinality(Names) \in Nat
      BY <2>2, NamesAssumption, FS_CardinalityType
    <3> QED BY <1>5, <1>6, <2>2, <3>1
  <2> QED BY <2>1, <2>2, <2>3, ReachedCovers
<1>8. PICK P \in SUBSET Nat : /\ P = {o \in S : <<from, o>> \in Reached}
                              /\ Live(heap, name, roots, from, P, L)
  <2>1. Live(heap, name, roots, from, {o \in S : <<from, o>> \in Reached}, L)
    BY <1>2, <1>4, <1>7, LiveReached
  <2> QED BY <2>1
<1>9. PICK m \in Names : /\ m = CHOOSE n \in Names : \A a \in Reached : NameOf(a) # n
                         /\ \A a \in Reached : NameOf(a) # m
  <2>1. \E n \in Names : \A o \in S : name[from][o] # n
    BY <1>5, <1>6, FreshName
  <2>2. \E n \in Names : \A a \in Reached : NameOf(a) # n
    BY <1>7, <2>1 DEF At, NameOf
  <2> QED BY <2>2
<1>10. Fresh(name, from, P, m)
  BY <1>8, <1>9 DEF NameOf, Fresh
<1>11. PICK G, M, Q : /\ G = heap' /\ G = Written(heap, from, free, FreshHeader(want))
                      /\ M = name' /\ M = Renamed(name, from, free, m)
                      /\ Q = roots' /\ Q = Append(roots, Pointer(<<from, free>>))
  BY <1>1, <1>9 DEF Written, Renamed
<1>12. /\ Memory(G) /\ (\A t \in {0, 1} : DOMAIN G[t] = DOMAIN heap[t]) /\ Tables(M)
       /\ Q \in Seq(Words) /\ Live(G, M, Q, from, P \cup {free}, free + want + 1)
  <2>1. free + want + 1 < Cardinality(DOMAIN heap[from])
        /\ Cardinality(DOMAIN heap[from]) <= MaxHeap
    BY <1>3 DEF size
  <2>2. L \in Nat /\ L <= free /\ want \in Nat /\ want > 0 /\ want <= 24
    BY <1>2
  <2>3. /\ G = Written(heap, from, free, FreshHeader(want))
        /\ M = Renamed(name, from, free, m) /\ Q = Append(roots, Pointer(<<from, free>>))
    BY <1>11
  <2>4. Allocated(heap, G, M, Q, from, P \cup {free}, free + want + 1)
    <3>1. Allocates(heap, name, roots, from, P, L, free, want, m, G, M, Q)
      BY <1>2, <1>8, <1>10, <2>1, <2>2, <2>3, Zenon DEF Allocates
    <3> QED BY <3>1, LiveAllocated
  <2> QED BY <2>4 DEF Allocated
<1>13. GcTypes'
  <2>1. free' \in Nat /\ want' \in Nat
    BY <1>1, <1>2
  <2> QED BY <1>1, <1>11, <1>12, <2>1 DEF GcTypes
<1>14. AtRest'
  <2>1. Live(heap', name', roots', from', P \cup {free}, free')
    BY <1>1, <1>11, <1>12
  <2>2. P \cup {free} \in SUBSET Nat /\ free' \in 0 .. free'
    BY <1>1, <1>2
  <2> QED BY <2>1, <2>2 DEF AtRest
<1>15. Quiet' /\ ~ Stopped' /\ Asked'
  BY <1>1 DEF Quiet, Stopped, Asked
<1>16. free' <= size(from)
  BY <1>1, <1>2, <1>3
<1>17. \A t \in {0, 1} : DOMAIN heap'[t] = DOMAIN heap[t]
  BY <1>11, <1>12
<1> QED BY <1>1, <1>13, <1>14, <1>15, <1>16, <1>17, QuietStep

-----------------------------------------------------------------------------
(* The beginning of a collection, and the growth of the spaces *)

LEMMA BeginStep ==
    ASSUME Running, Quiet, NEW return \in {"check", "grown"}, BeginCopy(return), want' = want,
           return = "check" => want > 0, Memory(heap'), NEW S \in SUBSET Nat, NEW L,
           Live(heap', name, roots, from, S, L),
           size(from)' \in 1 .. MaxHeap, size(to)' \in 1 .. MaxHeap,
           size(to)' = (IF return = "grown" THEN 2 * size(from)' ELSE size(from)')
    PROVE  GcInv'
<1>1. /\ scan' = 0 /\ free' = 0 /\ index' = 0 /\ pc' = "roots" /\ after' = return
      /\ UNCHANGED <<name, from, roots, tuple>>
  BY DEF BeginCopy
<1>2. GcTypes /\ roots \in Seq(Words) /\ SpacesGrow
  BY DEF Running, GcTypes
<1>3. GcTypes'
  BY <1>1, <1>2 DEF GcTypes
<1>4. ~ Quiet' /\ ~ Stopped'
  BY <1>1 DEF Quiet, Stopped
<1>5. SpacesGrow'
  <2>1. pc' # "grown" /\ free' = 0 /\ 0 <= size(to)'
    BY <1>1
  <2> QED BY <1>1, <1>4, <2>1 DEF SpacesGrow
<1>6. Asked' /\ InFields'
  BY <1>1 DEF Asked, InFields
<1>7. Copying(heap', name, roots, from, S, {}, {}, 0, 0, 0)
  BY <1>2, CopyingBegins
<1>8. PICK E \in SUBSET Nat : E = {}
  OBVIOUS
<1>9. Copying(heap', name', roots', from', S, E, E, free', 0, index')
  BY <1>1, <1>7, <1>8
<1>10. index' <= Len(roots')
  BY <1>1, <1>2
<1>11. InCopy'
  BY <1>1, <1>9, <1>10 DEF InCopy
<1> QED BY <1>3, <1>4, <1>5, <1>6, <1>11 DEF GcInv, Running

LEMMA CollectStep ==
    ASSUME Running, gc_allocate_tuple, ~ gc_space_is_enough(want)
    PROVE  GcInv'
<1>1. /\ Quiet /\ GcTypes /\ SpacesGrow /\ AtRest /\ Asked /\ pc = "allocate"
      /\ BeginCopy("check") /\ heap' = heap /\ want' = want /\ from' = from
  BY DEF Running, gc_allocate_tuple, Quiet, BeginCopy
<1>2. want > 0
  BY <1>1 DEF Asked
<1>3. PICK S \in SUBSET Nat, L \in 0 .. free : Live(heap, name, roots, from, S, L)
  BY <1>1 DEF AtRest
<1>4. /\ size(from)' = size(from) /\ size(to)' = size(to)
      /\ size(from) = size(to) /\ size(from) \in 1 .. MaxHeap
  BY <1>1 DEF size, to, SpacesGrow
<1>5. Memory(heap') /\ Live(heap', name, roots, from, S, L)
  BY <1>1, <1>3 DEF GcTypes
<1>6. PICK return \in {"check", "grown"} : return = "check"
  OBVIOUS
<1> QED BY <1>1, <1>2, <1>4, <1>5, <1>6, BeginStep

\* What grown leaves: the from-space as it was, except for what pointed into
\* the to-space, and a to-space that is twice as large.
IsGrown(G) ==
    /\ Memory(G) /\ DOMAIN G[from] = DOMAIN heap[from]
    /\ Cardinality(DOMAIN G[to]) = 2 * size(to)
    /\ \A p \in DOMAIN heap[from] :
         (heap[from][p][1] # "tuple" \/ heap[from][p][2][1] # to) => G[from][p] = heap[from][p]

LEMMA GrownFacts ==
    ASSUME GcTypes, SpacesGrow, NEW moved \in BOOLEAN, NEW G, G = grown(moved)
    PROVE  IsGrown(G)
<1>1. /\ from \in {0, 1} /\ to \in {0, 1} /\ to # from
      /\ (\A s \in {0, 1} : s = from \/ s = to)
      /\ DOMAIN heap[from] = 0 .. size(from) - 1 /\ size(from) \in Nat
      /\ DOMAIN heap[to] = 0 .. size(to) - 1 /\ size(to) \in Nat
      /\ Memory(heap)
  BY SizeTypes DEF GcTypes, to
<1> DEFINE dangling(word) ==
             IF moved /\ word[1] = "tuple" /\ word[2][1] = to
             THEN Pointer(<<Nowhere, word[2][2]>>) ELSE word
           n(s) == (IF s = to THEN 2 ELSE 1) * size(s)
<1>2. G = [s \in {0, 1} |-> [o \in 0 .. n(s) - 1 |->
                               IF o < size(s) THEN dangling(heap[s][o]) ELSE Atom(0)]]
  BY DEF grown
<1>3. \A word \in Words : dangling(word) \in Words
  <2> SUFFICES ASSUME NEW word \in Words PROVE dangling(word) \in Words
    OBVIOUS
  <2>1. CASE word[1] = "tuple"
    <3>1. word[2] \in (0 .. 2) \X Nat
      BY <2>1, WordIs
    <3>2. <<Nowhere, word[2][2]>> \in (0 .. 2) \X Nat
      BY <3>1 DEF Nowhere
    <3>3. Pointer(<<Nowhere, word[2][2]>>) \in Words
      BY <3>2 DEF Words
    <3> QED BY <3>3
  <2>2. CASE word[1] # "tuple"
    BY <2>2
  <2> QED BY <2>1, <2>2
<1>4. n(from) = size(from) /\ n(to) = 2 * size(to) /\ n(from) \in Nat /\ n(to) \in Nat
  BY <1>1
<1>5. \A s \in {0, 1} : n(s) \in Nat
  BY <1>1, <1>4
<1>6. ASSUME NEW s \in {0, 1}
      PROVE  /\ G[s] = [o \in 0 .. n(s) - 1 |->
                          IF o < size(s) THEN dangling(heap[s][o]) ELSE Atom(0)]
             /\ Cardinality(DOMAIN G[s]) = n(s) /\ DOMAIN G[s] = 0 .. n(s) - 1
  <2>1. G[s] = [o \in 0 .. n(s) - 1 |->
                   IF o < size(s) THEN dangling(heap[s][o]) ELSE Atom(0)]
    <3> HIDE DEF dangling, n
    <3> QED BY <1>2
  <2>2. DOMAIN G[s] = 0 .. n(s) - 1
    <3> HIDE DEF dangling, n
    <3> QED BY <2>1
  <2>3. PICK m \in Nat : m = n(s)
    BY <1>5
  <2>4. Cardinality(0 .. m - 1) = m
    <3>1. 0 \in Int /\ m - 1 \in Int
      OBVIOUS
    <3>2. Cardinality(0 .. m - 1) = IF 0 > m - 1 THEN 0 ELSE (m - 1) - 0 + 1
      BY <3>1, FS_Interval
    <3> QED BY <3>2
  <2> HIDE DEF dangling, n
  <2> QED BY <2>1, <2>2, <2>3, <2>4
<1>7. ASSUME NEW s \in {0, 1} PROVE Cardinality(DOMAIN G[s]) \in Nat /\ G[s] \in Block(G, s)
  <2>1. G[s] \in [0 .. n(s) - 1 -> Words]
    <3>1. ASSUME NEW o \in 0 .. n(s) - 1
          PROVE  (IF o < size(s) THEN dangling(heap[s][o]) ELSE Atom(0)) \in Words
      <4>1. CASE o < size(s)
        <5>1. o \in DOMAIN heap[s]
          <6>1. o \in Nat /\ size(s) \in Nat /\ DOMAIN heap[s] = 0 .. size(s) - 1
            BY <1>1, <1>5
          <6> QED BY <4>1, <6>1
        <5>2. heap[s][o] \in Words
          BY <1>1, <5>1, MemoryDomain
        <5> HIDE DEF dangling, n
        <5> QED BY <1>3, <4>1, <5>2
      <4>2. CASE ~ o < size(s)
        <5>1. Atom(0) \in Words
          BY DEF Words
        <5> HIDE DEF dangling, n
        <5> QED BY <4>2, <5>1
      <4> HIDE DEF dangling, n
      <4> QED BY <4>1, <4>2
    <3> HIDE DEF dangling, n
    <3> QED BY <1>6, <3>1
  <2>2. Cardinality(DOMAIN G[s]) = n(s) /\ n(s) \in Nat
    BY <1>5, <1>6
  <2> HIDE DEF dangling, n
  <2> QED BY <2>1, <2>2 DEF Block
<1>8. Memory(G)
  <2>1. DOMAIN G = {0, 1}
    <3> HIDE DEF dangling, n
    <3> QED BY <1>2
  <2> HIDE DEF dangling, n
  <2> QED BY <1>7, <2>1 DEF Memory
<1>9. DOMAIN G[from] = DOMAIN heap[from] /\ Cardinality(DOMAIN G[to]) = 2 * size(to)
  <2>1. DOMAIN G[from] = 0 .. n(from) - 1 /\ Cardinality(DOMAIN G[to]) = n(to)
    BY <1>1, <1>6
  <2> HIDE DEF dangling, n
  <2> QED BY <1>1, <1>4, <2>1
<1>10. ASSUME NEW p \in DOMAIN heap[from],
              heap[from][p][1] # "tuple" \/ heap[from][p][2][1] # to
       PROVE  G[from][p] = heap[from][p]
  <2>1. p \in 0 .. n(from) - 1 /\ p < size(from)
    BY <1>1, <1>4
  <2>2. dangling(heap[from][p]) = heap[from][p]
    BY <1>10
  <2>3. G[from] = [o \in 0 .. n(from) - 1 |->
                          IF o < size(from) THEN dangling(heap[from][o]) ELSE Atom(0)]
    BY <1>1, <1>6
  <2>4. G[from][p] = IF p < size(from) THEN dangling(heap[from][p]) ELSE Atom(0)
    <3> HIDE DEF dangling, n
    <3> QED BY <2>1, <2>3
  <2> HIDE DEF dangling, n
  <2> QED BY <2>1, <2>2, <2>4
<1> QED BY <1>8, <1>9, <1>10 DEF IsGrown

LEMMA GrownTuples ==
    ASSUME GcTypes, SpacesGrow, NEW G, IsGrown(G), NEW S \in SUBSET Nat, NEW L,
           Live(heap, name, roots, from, S, L)
    PROVE  \A o \in S : SameTuple(heap, G, from, o)
<1>1. /\ from \in {0, 1} /\ to # from /\ size(from) \in Nat
      /\ DOMAIN heap[from] = 0 .. size(from) - 1
  BY SizeTypes
<1>2. ASSUME NEW o \in S PROVE SameTuple(heap, G, from, o)
  <2>1. IsTuple(heap, from, o)
    BY DEF Live
  <2>2. /\ o \in Nat /\ SizeAt(heap, from, o) \in Nat \ {0}
        /\ o + SizeAt(heap, from, o) \in DOMAIN heap[from]
        /\ \A k \in MaskAt(heap, from, o) : k \in 0 .. SizeAt(heap, from, o) - 1
    BY <2>1, TupleFacts
  <2>3. \A j \in 0 .. SizeAt(heap, from, o) : o + j \in DOMAIN heap[from]
    BY <1>1, <2>2
  <2>4. G[from][o] = heap[from][o]
    <3>1. heap[from][o][1] # "tuple"
      BY <2>1 DEF IsTuple, Header
    <3>2. 0 \in 0 .. SizeAt(heap, from, o) /\ o + 0 = o
      BY <2>2
    <3>3. o \in DOMAIN heap[from]
      BY <2>3, <3>2
    <3> QED BY <3>1, <3>3 DEF IsGrown
  <2>5. ASSUME NEW k \in MaskAt(heap, from, o)
        PROVE  G[from][o + k + 1] = heap[from][o + k + 1]
    <3>1. k + 1 \in 0 .. SizeAt(heap, from, o) /\ o + (k + 1) = o + k + 1
      BY <2>2
    <3>2. o + k + 1 \in DOMAIN heap[from]
      BY <2>3, <3>1
    <3>3. PointsInto(heap[from][o + k + 1], from, S)
      BY DEF Live
    <3>4. heap[from][o + k + 1][2][1] = from
      BY <3>3 DEF PointsInto, Pointer
    <3> QED BY <1>1, <3>2, <3>4 DEF IsGrown
  <2>6. o + SizeAt(heap, from, o) \in DOMAIN G[from]
    BY <2>2 DEF IsGrown
  <2> QED BY <2>4, <2>5, <2>6 DEF SameTuple
<1> QED BY <1>2

LEMMA LiveGrown ==
    ASSUME GcTypes, SpacesGrow, NEW G, IsGrown(G), NEW S \in SUBSET Nat, NEW L,
           Live(heap, name, roots, from, S, L)
    PROVE  Live(G, name, roots, from, S, L)
<1>1. \A o \in S : SameTuple(heap, G, from, o)
  BY GrownTuples
<1>2. /\ \A j \in 1 .. Len(roots) : PointsInto(roots[j], from, S)
      /\ L \in Nat /\ L <= L
  BY DEF Live
<1> QED BY <1>1, <1>2, LiveKept

LEMMA GrowStep ==
    ASSUME Running, gc_grow
    PROVE  GcInv'
<1>1. Quiet /\ GcTypes /\ SpacesGrow /\ AtRest /\ pc = "grow"
  BY DEF Running, gc_grow, Quiet
<1>2. CASE 2 * size(to) > MaxHeap
  BY <1>2, StopStep DEF gc_grow
<1>3. CASE ~ 2 * size(to) > MaxHeap
  <2>1. PICK moved \in BOOLEAN : heap' = grown(moved)
    BY <1>3 DEF gc_grow
  <2>2. BeginCopy("grown") /\ want' = want /\ from' = from
    BY <1>3 DEF gc_grow, BeginCopy
  <2>3. PICK G : G = heap' /\ G = grown(moved)
    BY <2>1
  <2>4. IsGrown(G)
    BY <1>1, <2>3, GrownFacts
  <2>5. PICK S \in SUBSET Nat, L \in 0 .. free : Live(heap, name, roots, from, S, L)
    BY <1>1 DEF AtRest
  <2>6. Live(heap', name, roots, from, S, L)
    BY <1>1, <2>3, <2>4, <2>5, LiveGrown
  <2>7. Memory(heap')
    BY <2>3, <2>4 DEF IsGrown
  <2>8. /\ size(from) = size(to) /\ size(from) \in Nat /\ size(from) > 0
        /\ size(from) <= MaxHeap /\ MaxHeap \in Nat /\ size(to) \in Nat
    BY <1>1, SizeTypes DEF SpacesGrow
  <2>9. size(from)' = size(from) /\ size(to)' = 2 * size(to)
    <3>1. to' = to
      BY <2>2 DEF to
    <3>2. DOMAIN G[from] = DOMAIN heap[from] /\ Cardinality(DOMAIN G[to]) = 2 * size(to)
      BY <2>4 DEF IsGrown
    <3> QED BY <2>2, <2>3, <3>1, <3>2 DEF size
  <2>10. /\ size(from)' \in 1 .. MaxHeap /\ size(to)' \in 1 .. MaxHeap
         /\ size(to)' = 2 * size(from)'
    <3>1. PICK a, b, M : a = size(from) /\ b = size(to) /\ M = MaxHeap
      OBVIOUS
    <3>2. a \in 1 .. M /\ 2 * b \in 1 .. M /\ 2 * b = 2 * a
      BY <1>3, <2>8, <3>1
    <3> QED BY <2>9, <3>1, <3>2
  <2>11. PICK return \in {"check", "grown"} : return = "grown"
    OBVIOUS
  <2> QED BY <1>1, <2>2, <2>6, <2>7, <2>10, <2>11, BeginStep
<1> QED BY <1>2, <1>3

LEMMA GrowOtherStep ==
    ASSUME Running, GrowOther
    PROVE  GcInv'
<1>1. /\ Quiet /\ GcTypes /\ SpacesGrow /\ AtRest /\ pc = "grown"
      /\ pc' = (IF want = 0 THEN "mutator" ELSE "allocate")
      /\ UNCHANGED <<name, from, roots, free, scan, tuple, index, want, after>>
  BY DEF Running, GrowOther, Quiet
<1>2. PICK moved \in BOOLEAN : heap' = grown(moved)
  BY DEF GrowOther
<1>3. PICK G : G = heap' /\ G = grown(moved)
  BY <1>2
<1>4. IsGrown(G)
  BY <1>1, <1>3, GrownFacts
<1>5. PICK S \in SUBSET Nat, L \in 0 .. free : Live(heap, name, roots, from, S, L)
  BY <1>1 DEF AtRest
<1>6. Live(heap', name, roots, from, S, L)
  BY <1>1, <1>3, <1>4, <1>5, LiveGrown
<1>7. Memory(heap')
  BY <1>3, <1>4 DEF IsGrown
<1>8. /\ size(from) = 2 * size(to) /\ size(from) \in 1 .. MaxHeap
      /\ free <= size(from)
  BY <1>1 DEF SpacesGrow
<1>9. size(from)' = size(from) /\ size(to)' = 2 * size(to)
  <2>1. to' = to
    BY <1>1 DEF to
  <2>2. DOMAIN G[from] = DOMAIN heap[from] /\ Cardinality(DOMAIN G[to]) = 2 * size(to)
    BY <1>4 DEF IsGrown
  <2> QED BY <1>1, <1>3, <2>1, <2>2 DEF size
<1>10. Quiet' /\ ~ Stopped' /\ pc' # "grown" /\ pc' \in {"mutator", "allocate"}
       /\ pc' # "fields"
  BY <1>1 DEF Quiet, Stopped
<1>11. GcTypes'
  BY <1>1, <1>7, <1>10 DEF GcTypes
<1>12. SpacesGrow'
  <2>1. free' = free
    BY <1>1
  <2> QED BY <1>8, <1>9, <1>10, <2>1 DEF SpacesGrow
<1>13. Asked' /\ InFields'
  <2>1. want \in Nat /\ want' = want /\ (pc' = "allocate" => want # 0) /\ pc' # "check"
    BY <1>1 DEF GcTypes
  <2>2. pc' = "allocate" => want' > 0
    BY <2>1
  <2> QED BY <1>10, <2>1, <2>2 DEF Asked, InFields
<1>14. AtRest'
  BY <1>1, <1>6 DEF AtRest
<1> QED BY <1>10, <1>11, <1>12, <1>13, <1>14 DEF GcInv, Running

-----------------------------------------------------------------------------
(* The steps of a collection *)

\* The spaces keep their sizes, and the collection goes on.
LEMMA BusyStep ==
    ASSUME Running, ~ Quiet, ~ Quiet', ~ Stopped', GcTypes',
           \A s \in {0, 1} : DOMAIN heap'[s] = DOMAIN heap[s], from' = from, after' = after,
           want' = want, free' <= size(to), InFields', InCopy' \/ Copied'
    PROVE  GcInv'
<1>1. GcTypes /\ SpacesGrow /\ Asked
  BY DEF Running
<1>2. from \in {0, 1} /\ to \in {0, 1} /\ to' = to
  BY <1>1, SizeTypes DEF to
<1>3. size(from)' = size(from) /\ size(to)' = size(to)
  BY <1>2 DEF size
<1>4. pc # "grown" /\ pc' # "grown" /\ pc' \notin {"allocate", "check"}
  BY DEF Quiet
<1>5. SpacesGrow'
  <2>1. /\ size(from) \in 1 .. MaxHeap /\ size(to) \in 1 .. MaxHeap
        /\ after \in {"check", "grown"}
        /\ (IF after = "grown" THEN size(to) = 2 * size(from) ELSE size(from) = size(to))
    BY <1>1, <1>4 DEF SpacesGrow
  <2> QED BY <1>3, <1>4, <2>1 DEF SpacesGrow
<1>6. Asked'
  BY <1>1, <1>4 DEF Asked
<1> QED BY <1>5, <1>6 DEF GcInv, Running

LEMMA RootsDoneStep ==
    ASSUME Running, RootsDone
    PROVE  GcInv'
<1>1. /\ pc = "roots" /\ index = Len(roots) /\ pc' = "scan"
      /\ UNCHANGED <<heap, name, from, roots, free, scan, tuple, index, want, after>>
  BY DEF RootsDone
<1>2. /\ GcTypes /\ SpacesGrow /\ ~ Quiet /\ ~ Quiet' /\ ~ Stopped' /\ InFields'
  BY <1>1 DEF Running, Quiet, Stopped, InFields
<1>3. InCopy
  BY <1>1, <1>2 DEF Running, Copied
<1>4. PICK U \in SUBSET Nat, F \in SUBSET Nat, C \in SUBSET Nat :
        /\ scan = 0
        /\ Copying(heap, name, roots, from, U, F, C, free, 0, index)
  BY <1>1, <1>3 DEF InCopy
<1>5. Copying(heap, name, roots, from, U, F, C, free, scan, Len(roots))
  BY <1>1, <1>4
<1>6. scan \in C \cup {free}
  BY <1>4 DEF Copying, NewSpace
<1>7. InCopy'
  BY <1>1, <1>5, <1>6 DEF InCopy
<1>8. GcTypes'
  BY <1>1, <1>2 DEF GcTypes
<1>9. free' <= size(to)
  BY <1>1, <1>2 DEF SpacesGrow
<1> QED BY <1>1, <1>2, <1>7, <1>8, <1>9, BusyStep

LEMMA CopyMoves ==
    ASSUME Memory(heap), Tables(name), Sized, NEW U \in SUBSET Nat, NEW F \in SUBSET Nat,
           NEW C \in SUBSET Nat, NEW w \in Nat, w <= free, NEW i,
           Copying(heap, name, roots, from, U, F, C, free, w, i), NEW word,
           PointsInto(word, from, U \cup F), NEW copy \in gc_copy_tuple(word), copy.stop = "no"
    PROVE  Moves(copy, U, F, C, w, i)
<1>1. PICK p \in U \cup F : word = Pointer(<<from, p>>)
  BY DEF PointsInto
<1>2. copy \in gc_copy_tuple(Pointer(<<from, p>>))
  BY <1>1
<1>3. CASE p \in U
  BY <1>2, <1>3, CopyNew DEF Moves
<1>4. CASE p \in F
  BY <1>2, <1>4, CopyKnown DEF Sized, Moves
<1> QED BY <1>3, <1>4

LEMMA CopyStops ==
    ASSUME NEW word, NEW copy \in gc_copy_tuple(word), copy.stop # "no"
    PROVE  copy.stop \in {"abort", "wild"}
<1>1. PICK o : o = word[2][2]
  OBVIOUS
<1> QED BY <1>1, CopyCases

LEMMA CopyRootStep ==
    ASSUME Running, CopyRoot
    PROVE  GcInv'
<1>1. pc = "roots" /\ index < Len(roots)
  BY DEF CopyRoot
<1>2. /\ GcTypes /\ SpacesGrow /\ ~ Quiet
  BY <1>1 DEF Running, Quiet
<1>3. InCopy
  BY <1>1, <1>2 DEF Running, Copied
<1>4. PICK copy \in gc_copy_tuple(roots[index + 1]) :
        IF copy.stop # "no" THEN Stop(copy.stop)
        ELSE /\ heap' = copy.heap /\ name' = copy.name /\ free' = copy.free
             /\ roots' = [roots EXCEPT ![index + 1] = copy.word]
             /\ index' = index + 1
             /\ UNCHANGED <<from, scan, tuple, want, pc, after>>
  BY DEF CopyRoot
<1>5. CASE copy.stop # "no"
  <2>1. copy.stop \in {"abort", "wild"}
    BY <1>5, CopyStops
  <2> QED BY <1>4, <1>5, <2>1, StopStep
<1>6. CASE copy.stop = "no"
  <2>1. /\ heap' = copy.heap /\ name' = copy.name /\ free' = copy.free
        /\ roots' = [roots EXCEPT ![index + 1] = copy.word]
        /\ index' = index + 1
        /\ UNCHANGED <<from, scan, tuple, want, pc, after>>
    BY <1>4, <1>6
  <2>2. PICK U \in SUBSET Nat, F \in SUBSET Nat, C \in SUBSET Nat :
          /\ scan = 0
          /\ Copying(heap, name, roots, from, U, F, C, free, 0, index)
    BY <1>1, <1>3 DEF InCopy
  <2>3. /\ Memory(heap) /\ Tables(name) /\ roots \in Seq(Words) /\ free \in Nat /\ index \in Nat
        /\ Sized
    BY <1>2, SizeTypes DEF GcTypes
  <2>4. index + 1 \in 1 .. Len(roots) /\ ~ index + 1 <= index /\ index + 1 \in DOMAIN roots
    BY <1>1, <2>3
  <2>5. PointsInto(roots[index + 1], from, U \cup F)
    <3>1. IF index + 1 <= index THEN PointsInto(roots[index + 1], 1 - from, C)
          ELSE PointsInto(roots[index + 1], from, U \cup F)
      BY <2>2, <2>4 DEF Copying, Pointers
    <3> QED BY <2>4, <3>1
  <2>6. PICK word \in Words : word = roots[index + 1]
    BY <2>3, <2>4
  <2>7. Took(copy)
    BY <1>6, <2>3, <2>6, CopyTook
  <2>8. Moves(copy, U, F, C, 0, index)
    <3>1. 0 \in Nat /\ 0 <= free
      BY <2>3
    <3> QED BY <1>6, <2>2, <2>3, <2>5, <3>1, CopyMoves
  <2>9. PICK V \in SUBSET Nat, E \in SUBSET Nat, D \in SUBSET Nat :
          /\ Copying(copy.heap, copy.name, roots, from, V, E, D, copy.free, 0, index)
          /\ PointsInto(copy.word, 1 - from, D)
    BY <2>8 DEF Moves, MovesTo
  <2>10. PICK Q : Q = roots'
    OBVIOUS
  <2>11. /\ Q \in Seq(Words) /\ Len(Q) = Len(roots) /\ Q[index + 1] = copy.word
         /\ \A j \in 1 .. Len(roots) : j # index + 1 => Q[j] = roots[j]
    <3>1. copy.word \in Words
      BY <2>7 DEF Took
    <3> QED BY <2>1, <2>3, <2>4, <2>10, <3>1
  <2>12. Copying(copy.heap, copy.name, Q, from, V, E, D, copy.free, 0, index + 1)
    BY <1>1, <2>3, <2>9, <2>11, RootCopied
  <2>13. InCopy'
    <3>1. Copying(heap', name', roots', from', V, E, D, free', 0, index')
      BY <2>1, <2>10, <2>12, Zenon
    <3>2. index' <= Len(roots') /\ scan' = 0 /\ pc' = "roots"
      BY <1>1, <2>1, <2>2, <2>4, <2>10, <2>11
    <3> QED BY <3>1, <3>2 DEF InCopy
  <2>14. GcTypes'
    <3>1. /\ Memory(heap') /\ Tables(name') /\ free' \in Nat
      BY <2>1, <2>7, Zenon DEF Took
    <3>2. index' \in Nat /\ roots' \in Seq(Words)
      BY <2>1, <2>3, <2>10, <2>11
    <3> QED BY <1>1, <1>2, <2>1, <3>1, <3>2 DEF GcTypes
  <2>15. /\ free' <= size(to) /\ \A s \in {0, 1} : DOMAIN heap'[s] = DOMAIN heap[s]
    BY <2>1, <2>7, Zenon DEF Took
  <2>16. ~ Quiet' /\ ~ Stopped' /\ InFields'
    BY <1>1, <2>1 DEF Quiet, Stopped, InFields
  <2> QED BY <1>2, <2>1, <2>13, <2>14, <2>15, <2>16, BusyStep
<1> QED BY <1>5, <1>6

\* A write behind the live tuples
LEMMA LiveBehind ==
    ASSUME NEW H, Memory(H), NEW t \in {0, 1}, NEW N, NEW R, NEW C, NEW L,
           Live(H, N, R, t, C, L), NEW G, Below(H, G, t, L), NEW M, \A c \in C : M[t][c] = N[t][c]
    PROVE  Live(G, M, R, t, C, L)
<1>1. L \in Nat /\ L <= L /\ \A c \in C : IsTuple(H, t, c) /\ c + SizeAt(H, t, c) < L
  BY DEF Live
<1>2. \A c \in C : SameTuple(H, G, t, c)
  BY <1>1, BelowSame
<1>3. \A j \in 1 .. Len(R) : PointsInto(R[j], t, C)
  BY DEF Live
<1> QED BY <1>1, <1>2, <1>3, LiveKept

\* Only the words count.
LEMMA CopyingSame ==
    ASSUME NEW H, NEW N, NEW R, NEW f \in {0, 1}, NEW U, NEW F, NEW C, NEW L, NEW w, NEW i,
           Copying(H, N, R, f, U, F, C, L, w, i), NEW G, \A s \in {0, 1} : G[s] = H[s]
    PROVE  Copying(G, N, R, f, U, F, C, L, w, i)
<1>1. G[f] = H[f] /\ 1 - f \in {0, 1}
  OBVIOUS
<1>2. PICK t : t = 1 - f
  OBVIOUS
<1>3. G[t] = H[t]
  BY <1>1, <1>2
<1>4. OldSpace(G, f, U, F, C)
  BY <1>1, OldSpaceSame DEF Copying
<1>5. NewSpace(G, 1 - f, C, L)
  <2>1. NewSpace(H, t, C, L)
    BY <1>2 DEF Copying
  <2>2. \A c \in C : (IsTuple(G, t, c) <=> IsTuple(H, t, c)) /\ SizeAt(G, t, c) = SizeAt(H, t, c)
    BY <1>3 DEF IsTuple, SizeAt
  <2>3. Apart(G, t, C)
    BY <1>3, <2>1 DEF NewSpace, Apart, SizeAt
  <2> QED BY <1>2, <2>1, <2>2, <2>3 DEF NewSpace
<1>6. Pointers(G, R, f, U, F, C, w, i)
  <2>1. Pointers(H, R, f, U, F, C, w, i)
    BY DEF Copying
  <2> QED BY <1>2, <1>3, <2>1 DEF Pointers, MaskAt
<1> QED BY <1>4, <1>5, <1>6 DEF Copying

LEMMA ScanTupleStep ==
    ASSUME Running, ScanTuple
    PROVE  GcInv'
<1>1. pc = "scan" /\ scan <= free
  BY DEF ScanTuple, MoreToScan
<1>2. /\ GcTypes /\ SpacesGrow /\ ~ Quiet /\ (InCopy \/ Copied)
  BY <1>1 DEF Running, Quiet
<1>3. CASE scan >= size(to)
  BY <1>3, StopStep DEF ScanTuple
<1>4. CASE ~ scan >= size(to)
  <2>1. PICK h \in AsHeader(heap[to][scan]) :
          /\ heap' = [heap EXCEPT ![to][scan] = Header(h)]
          /\ tuple' = scan /\ scan' = scan + h.size + 1
          /\ index' = 0 /\ pc' = "fields"
          /\ UNCHANGED <<name, from, roots, free, want, after>>
    BY <1>4 DEF ScanTuple
  <2>2. /\ Memory(heap) /\ Tables(name) /\ from \in {0, 1} /\ to \in {0, 1} /\ to = 1 - from
        /\ DOMAIN heap[to] = 0 .. size(to) - 1 /\ size(to) \in Nat
        /\ scan \in Nat /\ free \in Nat /\ roots \in Seq(Words) /\ free <= size(to)
        /\ after \in {"mutator", "check", "grown"} /\ want \in Nat
    BY <1>2, SizeTypes DEF GcTypes, SpacesGrow
  <2>3. scan \in DOMAIN heap[to] /\ scan < size(to)
    BY <1>4, <2>2
  <2>4. h \in HeaderRecords /\ h.size \in Nat /\ Header(h) \in Words
    <3>1. heap[to][scan] \in Words
      BY <2>2, <2>3, MemoryDomain
    <3> QED BY <3>1, HeaderTaken DEF HeaderRecords, Words
  <2>5. PICK G : G = heap' /\ G = Written(heap, to, scan, Header(h))
    BY <2>1 DEF Written
  <2>6. IsWritten(heap, G, to, scan, Header(h))
    BY <2>2, <2>3, <2>4, <2>5, WrittenFacts
  <2>7. /\ Memory(G) /\ \A t \in {0, 1} : DOMAIN G[t] = DOMAIN heap[t]
        /\ G[to][scan] = Header(h) /\ \A p \in DOMAIN heap[to] : p # scan => G[to][p] = heap[to][p]
    BY <2>6 DEF IsWritten
  <2>8. GcTypes'
    <3>1. scan' \in Nat /\ tuple' \in Nat /\ index' \in Nat
      BY <2>1, <2>2, <2>4
    <3> QED BY <1>2, <2>1, <2>5, <2>7, <3>1 DEF GcTypes
  <2>9. ~ Quiet' /\ ~ Stopped'
    BY <2>1 DEF Quiet, Stopped
  <2>10. InFields'
    <3>1. size(to)' = size(to) /\ to' = to
      BY <2>1, <2>2, <2>5, <2>7 DEF size, to
    <3>2. heap'[to'][tuple'] = Header(h)
      BY <2>1, <2>5, <2>7, <3>1
    <3>3. tuple' <= free' /\ tuple' < size(to)'
      BY <1>1, <2>1, <2>3, <3>1
    <3> QED BY <2>4, <3>2, <3>3 DEF InFields
  \* a tuple is scanned
  <2>11. ASSUME NEW U \in SUBSET Nat, NEW F \in SUBSET Nat, NEW C \in SUBSET Nat, scan \in C,
                Copying(heap, name, roots, from, U, F, C, free, scan, Len(roots))
         PROVE  InCopy'
    <3>1. IsTuple(heap, to, scan) /\ SizeAt(heap, to, scan) \in Nat
      BY <2>2, <2>11, TupleFacts DEF Copying, NewSpace
    <3>2. PICK e : heap[to][scan] = Header(e)
      BY <3>1 DEF IsTuple
    <3>3. h = e
      BY <3>2, HeaderItself
    <3>4. \A s \in {0, 1} : G[s] = heap[s]
      <4>1. \A p \in DOMAIN heap[to] : G[to][p] = heap[to][p]
        BY <2>7, <3>2, <3>3
      <4>2. G[to] = heap[to]
        <5>1. heap[to] \in [DOMAIN heap[to] -> Words] /\ G[to] \in [DOMAIN heap[to] -> Words]
          BY <2>2, <2>7, MemoryDomain
        <5> QED BY <4>1, <5>1
      <4>3. \A s \in {0, 1} : s # to => G[s] = heap[s]
        BY <2>6 DEF IsWritten
      <4> QED BY <4>2, <4>3
    <3>5. SizeAt(heap, to, scan) = h.size
      BY <3>2, <3>3, WordKinds DEF SizeAt
    <3>6. Copying(heap, name, roots, from, U, F, C, free, scan + 1, Len(roots))
      BY <2>11, HeaderPassed
    <3>7. scan + 1 = tuple' + index' + 1
      BY <2>1, <2>2
    <3>8. Copying(heap', name', roots', from', U, F, C, free', tuple' + index' + 1, Len(roots'))
      <4>1. Copying(G, name, roots, from, U, F, C, free, scan + 1, Len(roots))
        BY <2>2, <3>4, <3>6, CopyingSame
      <4> QED BY <2>1, <2>5, <3>7, <4>1
    <3>9. SizeAt(heap', to', tuple') = h.size
      <4>1. SizeAt(G, to, scan) = h.size
        BY <2>2, <3>4, <3>5 DEF SizeAt
      <4> QED BY <2>1, <2>5, <4>1 DEF to
    <3>10. /\ tuple' \in C /\ index' <= SizeAt(heap', to', tuple')
           /\ scan' = tuple' + SizeAt(heap', to', tuple') + 1 /\ pc' = "fields"
      BY <2>1, <2>4, <2>11, <3>9
    <3> QED BY <3>8, <3>10 DEF InCopy
  \* what is scanned is behind the live tuples
  <2>12. ASSUME NEW C \in SUBSET Nat, NEW L \in 0 .. free, Live(heap, name, roots, to, C, L),
                L <= scan
         PROVE  Copied'
    <3>1. Below(heap, G, to, L)
      BY <2>2, <2>7, <2>12 DEF Below
    <3>2. Live(G, name, roots, to, C, L)
      BY <2>2, <2>12, <3>1, LiveBehind
    <3>3. Live(heap', name', roots', to', C, L)
      BY <2>1, <2>5, <3>2 DEF to
    <3>4. L <= scan' /\ L <= tuple' /\ L \in 0 .. free'
      BY <2>1, <2>2, <2>4, <2>12
    <3> QED BY <2>1, <3>3, <3>4 DEF Copied
  <2>13. InCopy' \/ Copied'
    <3>1. CASE InCopy
      <4>1. PICK U \in SUBSET Nat, F \in SUBSET Nat, C \in SUBSET Nat :
              /\ scan \in C \cup {free}
              /\ Copying(heap, name, roots, from, U, F, C, free, scan, Len(roots))
        BY <1>1, <3>1 DEF InCopy
      <4>2. CASE scan \in C
        BY <2>11, <4>1, <4>2
      <4>3. CASE scan = free
        <5>1. Live(heap, name, roots, to, C, free)
          BY <2>2, <4>1, <4>3, CopyingEnds
        <5>2. free \in 0 .. free /\ free <= scan
          BY <2>2, <4>3
        <5> QED BY <2>12, <5>1, <5>2
      <4> QED BY <4>1, <4>2, <4>3
    <3>2. CASE Copied
      <4>1. PICK C \in SUBSET Nat, L \in 0 .. free :
              Live(heap, name, roots, to, C, L) /\ L <= scan
        BY <3>2 DEF Copied
      <4> QED BY <2>12, <4>1
    <3> QED BY <1>2, <3>1, <3>2
  <2>14. free' <= size(to) /\ \A s \in {0, 1} : DOMAIN heap'[s] = DOMAIN heap[s]
    BY <2>1, <2>2, <2>5, <2>7
  <2> QED BY <1>2, <2>1, <2>8, <2>9, <2>10, <2>13, <2>14, BusyStep
<1> QED BY <1>3, <1>4

\* A store into what is behind the live tuples
StoredBehind(H, G, s, o, L) ==
    /\ Memory(G) /\ \A t \in {0, 1} : DOMAIN G[t] = DOMAIN H[t]
    /\ Below(H, G, s, L) /\ \E e \in HeaderRecords : G[s][o] = Header(e)

LEMMA JunkStored ==
    ASSUME NEW H, Memory(H), NEW s \in {0, 1}, NEW o \in DOMAIN H[s],
           NEW k \in Nat,
           o + k + 1 \in DOMAIN H[s], NEW w \in Words, NEW e \in HeaderRecords,
           NEW G, G = stored(H, s, o, k, w, e), NEW L \in Nat, L <= o
    PROVE  StoredBehind(H, G, s, o, L)
<1>1. PICK D : D = DOMAIN H[s]
  OBVIOUS
<1>2. /\ DOMAIN H = {0, 1} /\ H[s] \in [D -> Words] /\ Cardinality(D) \in Nat
      /\ D = 0 .. Cardinality(D) - 1
  BY <1>1, MemoryDomain DEF Memory
<1>3. /\ DOMAIN G = {0, 1} /\ (\A t \in {0, 1} : t # s => G[t] = H[t])
      /\ DOMAIN G[s] = D
      /\ \A p \in D : G[s][p] = IF p = o + k + 1 THEN w ELSE IF p = o THEN Header(e)
                                ELSE H[s][p]
  BY <1>1, StoredWords
<1>5. o \in Nat /\ o \in D /\ o + k + 1 # o
  BY <1>1, <1>2
<1>6. G[s][o] = Header(e)
  BY <1>3, <1>5
<1>7. Memory(G) /\ \A t \in {0, 1} : DOMAIN G[t] = DOMAIN H[t]
  <2>1. ASSUME NEW t \in {0, 1} PROVE G[t] \in [DOMAIN H[t] -> Words]
    <3>1. CASE t = s
      <4>1. ASSUME NEW p \in D PROVE G[s][p] \in Words
        <5>1. Header(e) \in Words /\ H[s][p] \in Words
          BY <1>2 DEF Words
        <5> QED BY <1>3, <5>1
      <4>2. G[s] = [p \in D |-> G[s][p]]
        <5>1. G[s] = [G[s] EXCEPT ![o] = G[s][o]]
          BY <1>2, <1>3, <1>5 DEF stored
        <5> QED BY <1>3, <5>1
      <4> QED BY <1>1, <3>1, <4>1, <4>2
    <3>2. CASE t # s
      BY <1>3, <3>2, MemoryDomain
    <3> QED BY <3>1, <3>2
  <2> QED BY <1>3, <2>1, MemoryAgain
<1>8. Below(H, G, s, L)
  <2>1. ASSUME NEW q \in D, q < L PROVE G[s][q] = H[s][q]
    <3>1. q # o /\ q # o + k + 1
      BY <1>2, <1>5, <2>1
    <3> QED BY <1>3, <3>1
  <2> QED BY <1>1, <1>3, <2>1 DEF Below
<1> QED BY <1>6, <1>7, <1>8 DEF StoredBehind

\* The loop over the fields goes on without a copy, or ends.
LEMMA NoFieldStep ==
    ASSUME Running, pc = "fields", UNCHANGED <<heap, name, from, roots, free, scan, tuple,
                                               want, after>>,
           NEW h \in HeaderRecords, heap[to][tuple] = Header(h),
           \/ index >= h.size /\ pc' = "scan" /\ index' = index
           \/ index < h.size /\ index \notin h.mask /\ pc' = "fields" /\ index' = index + 1
    PROVE  GcInv'
<1>1. /\ GcTypes /\ SpacesGrow /\ InFields /\ ~ Quiet /\ (InCopy \/ Copied)
  BY DEF Running, Quiet
<1>2. /\ from \in {0, 1} /\ to = 1 - from /\ to' = to /\ index \in Nat /\ tuple \in Nat
      /\ scan \in Nat /\ free \in Nat /\ h.size \in Nat
  BY <1>1, SizeTypes DEF GcTypes, to, HeaderRecords
<1>3. GcTypes'
  BY <1>1, <1>2 DEF GcTypes
<1>4. ~ Quiet' /\ ~ Stopped' /\ InFields'
  <2>1. size(to)' = size(to)
    BY <1>2 DEF size
  <2> QED BY <1>1, <1>2, <2>1 DEF Quiet, Stopped, InFields
<1>5. free' <= size(to)
  BY <1>1 DEF SpacesGrow, Quiet
<1>6. CASE InCopy
  <2>1. PICK U \in SUBSET Nat, F \in SUBSET Nat, C \in SUBSET Nat :
          /\ tuple \in C /\ index <= SizeAt(heap, to, tuple)
          /\ scan = tuple + SizeAt(heap, to, tuple) + 1
          /\ Copying(heap, name, roots, from, U, F, C, free, tuple + index + 1, Len(roots))
    BY <1>6 DEF InCopy
  <2>2. SizeAt(heap, to, tuple) = h.size /\ MaskAt(heap, to, tuple) = h.mask
    BY WordKinds DEF SizeAt, MaskAt
  <2>3. CASE index >= h.size /\ pc' = "scan" /\ index' = index
    <3>1. scan = tuple + index + 1
      BY <1>2, <2>1, <2>2, <2>3
    <3>2. scan \in C \cup {free}
      <4>1. tuple + SizeAt(heap, to, tuple) + 1 \in C \cup {free}
        BY <1>2, <2>1 DEF Copying, NewSpace
      <4> QED BY <2>1, <4>1
    <3>3. Copying(heap, name, roots, from, U, F, C, free, scan, Len(roots))
      BY <2>1, <3>1
    <3>4. InCopy'
      BY <2>3, <3>2, <3>3 DEF InCopy
    <3> QED BY <1>1, <1>3, <1>4, <1>5, <3>4, BusyStep
  <2>4. CASE index < h.size /\ index \notin h.mask /\ pc' = "fields" /\ index' = index + 1
    <3>1. index \in 0 .. SizeAt(heap, 1 - from, tuple) - 1
          /\ index \notin MaskAt(heap, 1 - from, tuple)
      BY <1>2, <2>2, <2>4
    <3>2. Copying(heap, name, roots, from, U, F, C, free, tuple + index + 1 + 1, Len(roots))
      BY <2>1, <3>1, UnmaskedPassed
    <3>3. tuple + index + 1 + 1 = tuple + index' + 1 /\ index' <= h.size
      BY <1>2, <2>4
    <3>4. Copying(heap, name, roots, from, U, F, C, free, tuple + index' + 1, Len(roots))
      BY <3>2, <3>3
    <3>5. Copying(heap', name', roots', from', U, F, C, free', tuple' + index' + 1, Len(roots'))
      BY <3>4
    <3>6. SizeAt(heap', to', tuple') = h.size
      BY <1>2, <2>2
    <3>7. /\ tuple' \in C /\ index' <= SizeAt(heap', to', tuple')
          /\ scan' = tuple' + SizeAt(heap', to', tuple') + 1
      BY <2>1, <2>2, <3>3, <3>6
    <3>8. InCopy'
      BY <2>4, <3>5, <3>7 DEF InCopy
    <3> QED BY <1>1, <1>3, <1>4, <1>5, <3>8, BusyStep
  <2> QED BY <2>3, <2>4
<1>7. CASE Copied
  <2>1. Copied'
    BY <1>2, <1>7 DEF Copied
  <2> QED BY <1>1, <1>3, <1>4, <1>5, <2>1, BusyStep
<1> QED BY <1>1, <1>6, <1>7

\* What the field of junk becomes: the tuples C, all below L, do not change.
StaysBelow(G, M, C, L) ==
    /\ Memory(G) /\ (\A s \in {0, 1} : DOMAIN G[s] = DOMAIN heap[s])
    /\ Below(heap, G, to, L) /\ (\E d \in HeaderRecords : G[to][tuple] = Header(d))
    /\ \A c \in C : M[to][c] = name[to][c]

LEMMA JunkField ==
    ASSUME Running, pc = "fields", NEW h \in HeaderRecords, heap[to][tuple] = Header(h),
           index < h.size, tuple + index + 1 < size(to),
           NEW copy \in gc_copy_tuple(heap[to][tuple + index + 1]), copy.stop = "no",
           NEW G, G = tuple_set_tuple(copy.heap, to, tuple, index, copy.word),
           NEW C \in SUBSET Nat, NEW L \in 0 .. free, Live(heap, name, roots, to, C, L), L <= tuple
    PROVE  StaysBelow(G, copy.name, C, L)
<1>1. /\ GcTypes /\ SpacesGrow /\ InFields
  BY DEF Running
<1>2. /\ from \in {0, 1} /\ to \in {0, 1} /\ index \in Nat
      /\ tuple \in Nat /\ free \in Nat /\ h.size \in Nat
      /\ Memory(heap) /\ Tables(name) /\ Sized
      /\ size(to) \in Nat /\ DOMAIN heap[to] = 0 .. size(to) - 1 /\ tuple <= free
  BY <1>1, SizeTypes DEF GcTypes, to, HeaderRecords, InFields
<1>3. tuple \in DOMAIN heap[to] /\ tuple + index + 1 \in DOMAIN heap[to]
  BY <1>2
<1>4. PICK word \in Words : word = heap[to][tuple + index + 1]
  BY <1>2, <1>3, MemoryDomain
<1>5. Took(copy)
  BY <1>2, <1>4, CopyTook
<1>6. PICK H : H = copy.heap
  OBVIOUS
<1>10. /\ Memory(H) /\ (\A s \in {0, 1} : DOMAIN H[s] = DOMAIN heap[s])
       /\ copy.word \in Words
  BY <1>5, <1>6 DEF Took
<1>11. PICK e \in HeaderRecords : H[to][tuple] = Header(e)
  <2>1. CASE tuple < free
    <3>1. H[to][tuple] = heap[to][tuple]
      BY <1>3, <1>5, <1>6, <2>1 DEF Took
    <3> QED BY <3>1
  <2>2. CASE tuple = free
    <3>1. \/ copy.heap[to][free] = heap[to][free]
          \/ \E e \in HeaderRecords : copy.heap[to][free] = Header(e)
      BY <1>5 DEF Took
    <3> QED BY <1>6, <2>2, <3>1
  <2> QED BY <1>2, <2>1, <2>2
<1>12. with_bit(e, index) \in HeaderRecords
       /\ G = stored(H, to, tuple, index, copy.word, with_bit(e, index))
  <2>1. H[to][tuple][2] = e
    BY <1>11, WordKinds
  <2> QED BY <1>2, <1>6, <2>1, AnyIndex DEF tuple_set_tuple
<1>13. L \in Nat /\ L <= tuple
  BY <1>2, <1>10
<1>14. tuple \in DOMAIN H[to] /\ tuple + index + 1 \in DOMAIN H[to]
  BY <1>2, <1>3, <1>10
<1>15. StoredBehind(H, G, to, tuple, L)
  BY <1>2, <1>10, <1>12, <1>13, <1>14, JunkStored
<1>16. /\ Memory(G) /\ (\A t \in {0, 1} : DOMAIN G[t] = DOMAIN H[t]) /\ Below(H, G, to, L)
      /\ \E d \in HeaderRecords : G[to][tuple] = Header(d)
  BY <1>15 DEF StoredBehind
<1>17. Below(heap, G, to, L)
  <2>1. \A q \in DOMAIN heap[to] : q < free => H[to][q] = heap[to][q]
    BY <1>5, <1>6 DEF Took
  <2>2. DOMAIN G[to] = DOMAIN heap[to] /\ DOMAIN H[to] = DOMAIN heap[to]
    BY <1>2, <1>10, <1>16
  <2>3. ASSUME NEW q \in DOMAIN heap[to], q < L PROVE G[to][q] = heap[to][q]
    <3>1. q < free
      BY <1>2, <1>10, <2>3
    <3>2. G[to][q] = H[to][q]
      BY <1>16, <2>2, <2>3 DEF Below
    <3> QED BY <2>1, <2>3, <3>1, <3>2
  <2> QED BY <2>2, <2>3 DEF Below
<1>18. \A c \in C : copy.name[to][c] = name[to][c]
  <2>1. \A q : q # free => copy.name[to][q] = name[to][q]
    BY <1>5 DEF Took
  <2>2. \A c \in C : c # free
    <3>1. \A c \in C : IsTuple(heap, to, c) /\ c + SizeAt(heap, to, c) < L
      BY <1>10 DEF Live
    <3>2. \A c \in C : c \in Nat /\ SizeAt(heap, to, c) \in Nat
      BY <3>1, TupleFacts
    <3> QED BY <1>2, <1>10, <3>1, <3>2
  <2> QED BY <2>1, <2>2
<1>19. \A s \in {0, 1} : DOMAIN G[s] = DOMAIN heap[s]
  BY <1>10, <1>16
<1> QED BY <1>16, <1>17, <1>18, <1>19 DEF StaysBelow

\* The field of a tuple that is a copy
LEMMA FieldStep ==
    ASSUME Running, pc = "fields", NEW h \in HeaderRecords, heap[to][tuple] = Header(h),
           index < h.size, index \in h.mask, tuple + index + 1 < size(to),
           NEW copy \in gc_copy_tuple(heap[to][tuple + index + 1]), copy.stop = "no",
           heap' = tuple_set_tuple(copy.heap, to, tuple, index, copy.word),
           name' = copy.name, free' = copy.free, index' = index + 1,
           UNCHANGED <<from, roots, scan, tuple, want, pc, after>>
    PROVE  GcInv'
<1>1. /\ GcTypes /\ SpacesGrow /\ InFields /\ ~ Quiet /\ (InCopy \/ Copied)
  BY DEF Running, Quiet
<1>2. /\ from \in {0, 1} /\ to \in {0, 1} /\ to = 1 - from /\ to' = to /\ index \in Nat
      /\ tuple \in Nat /\ free \in Nat /\ h.size \in Nat /\ roots \in Seq(Words)
      /\ Memory(heap) /\ Tables(name) /\ Sized
      /\ size(to) \in Nat /\ DOMAIN heap[to] = 0 .. size(to) - 1 /\ tuple <= free
  BY <1>1, SizeTypes DEF GcTypes, to, HeaderRecords, InFields
<1>3. tuple \in DOMAIN heap[to] /\ tuple + index + 1 \in DOMAIN heap[to]
  BY <1>2, SMTT(40)
<1>4. PICK word \in Words : word = heap[to][tuple + index + 1]
  BY <1>2, <1>3, MemoryDomain
<1>5. Took(copy)
  BY <1>2, <1>4, CopyTook
<1>6. PICK H : H = copy.heap
  OBVIOUS
<1>8. PICK G : G = heap'
  OBVIOUS
<1>9. G = tuple_set_tuple(H, to, tuple, index, copy.word)
  BY <1>6, <1>8
<1>10. /\ Memory(H) /\ (\A s \in {0, 1} : DOMAIN H[s] = DOMAIN heap[s])
       /\ Tables(name') /\ free' \in Nat /\ free <= free' /\ free' <= size(to)
       /\ copy.word \in Words
  BY <1>5, <1>6 DEF Took
\* what the step leaves, whatever is scanned
<1>11. ASSUME Memory(G), \A s \in {0, 1} : DOMAIN G[s] = DOMAIN heap[s],
              NEW e \in HeaderRecords, G[to][tuple] = Header(e), InCopy' \/ Copied'
       PROVE  GcInv'
  <2>1. GcTypes'
    BY <1>1, <1>2, <1>8, <1>10, <1>11 DEF GcTypes
  <2>2. InFields'
    <3>1. size(to)' = size(to)
      BY <1>2, <1>8, <1>11 DEF size
    <3>2. heap'[to'][tuple'] = Header(e)
      BY <1>2, <1>8, <1>11
    <3>3. tuple' <= free' /\ tuple' < size(to)'
      BY <1>2, <1>3, <1>10, <3>1
    <3> QED BY <1>11, <3>2, <3>3 DEF InFields
  <2>3. ~ Quiet' /\ ~ Stopped'
    BY DEF Quiet, Stopped
  <2>4. \A s \in {0, 1} : DOMAIN heap'[s] = DOMAIN heap[s]
    BY <1>8, <1>11
  <2> QED BY <1>1, <1>10, <1>11, <2>1, <2>2, <2>3, <2>4, BusyStep
<1>12. CASE InCopy
  <2>1. PICK U \in SUBSET Nat, F \in SUBSET Nat, C \in SUBSET Nat :
          /\ tuple \in C /\ index <= SizeAt(heap, to, tuple)
          /\ scan = tuple + SizeAt(heap, to, tuple) + 1
          /\ Copying(heap, name, roots, from, U, F, C, free, tuple + index + 1, Len(roots))
    BY <1>12 DEF InCopy
  <2>2. SizeAt(heap, to, tuple) = h.size /\ MaskAt(heap, to, tuple) = h.mask
    BY WordKinds DEF SizeAt, MaskAt
  <2>3. PICK w \in Nat : w = tuple + index + 1
    BY <1>2
  <2>4. IsTuple(heap, to, tuple) /\ tuple + SizeAt(heap, to, tuple) < free
    BY <1>2, <2>1 DEF Copying, NewSpace
  <2>5. w <= free
    BY <1>2, <2>2, <2>3, <2>4, SMTT(40)
  <2>6. Copying(heap, name, roots, from, U, F, C, free, w, Len(roots))
    BY <2>1, <2>3
  <2>7. PointsInto(word, from, U \cup F)
    <3>1. index \in MaskAt(heap, 1 - from, tuple)
      BY <1>2, <2>2
    <3>2. IF tuple + index + 1 < w THEN PointsInto(heap[1 - from][tuple + index + 1], 1 - from, C)
          ELSE PointsInto(heap[1 - from][tuple + index + 1], from, U \cup F)
      BY <2>1, <2>6, <3>1 DEF Copying, Pointers
    <3> QED BY <1>2, <1>4, <2>3, <3>2
  <2>8. Moves(copy, U, F, C, w, Len(roots))
    BY <1>2, <1>4, <2>5, <2>6, <2>7, CopyMoves
  <2>9. PICK V \in SUBSET Nat, E \in SUBSET Nat, D \in SUBSET Nat :
          /\ C \subseteq D
          /\ Copying(copy.heap, copy.name, roots, from, V, E, D, copy.free, w, Len(roots))
          /\ PointsInto(copy.word, 1 - from, D)
          /\ \A c \in C : SameTuple(heap, copy.heap, 1 - from, c)
    BY <2>8 DEF Moves, MovesTo
  <2>10. /\ SizeAt(H, to, tuple) = h.size /\ MaskAt(H, to, tuple) = h.mask
    <3>1. SameTuple(heap, H, to, tuple)
      BY <1>2, <1>6, <2>1, <2>9
    <3> QED BY <2>2, <2>4, <3>1, SameTupleIs
  <2>11. CopiedField(H, G, copy.name, roots, from, V, E, D, copy.free, Len(roots), tuple, index)
    <3>1. tuple \in D
      BY <2>1, <2>9
    <3>2. index \in MaskAt(H, 1 - from, tuple)
      BY <1>2, <2>10
    <3>3. G = StoredMask(H, 1 - from, tuple, index, copy.word, MaskAt(H, 1 - from, tuple) \cup {index})
      <4>1. index \in 0 .. 23
        <5>1. SizeAt(heap, to, tuple) <= 24
          BY <2>4, TupleFacts
        <5>2. index \in Nat /\ h.size \in Nat /\ index < h.size /\ h.size <= 24
          BY <1>2, <2>2, <5>1, Zenon
        <5> QED BY <5>2
      <4>2. tuple_set_tuple(H, to, tuple, index, copy.word) =
              StoredMask(H, to, tuple, index, copy.word, MaskAt(H, to, tuple) \cup {index})
        BY <4>1, SmallIndex DEF tuple_set_tuple, tuple_set_atom, StoredMask, MaskAt
      <4> QED BY <1>2, <1>9, <4>2, Zenon
    <3>4. Copying(H, copy.name, roots, from, V, E, D, copy.free, tuple + index + 1, Len(roots))
      BY <1>6, <2>3, <2>9
    <3> QED BY <1>2, <1>10, <2>9, <3>1, <3>2, <3>3, <3>4, FieldCopied
  <2>12. /\ Memory(G) /\ (\A t \in {0, 1} : DOMAIN G[t] = DOMAIN H[t])
         /\ SizeAt(G, to, tuple) = h.size
         /\ (\E e \in HeaderRecords : G[to][tuple] = Header(e))
         /\ Copying(G, copy.name, roots, from, V, E, D, copy.free, tuple + index + 1 + 1,
                    Len(roots))
    BY <1>2, <2>10, <2>11 DEF CopiedField
  <2>13. InCopy'
    <3>1. tuple + index + 1 + 1 = tuple' + index' + 1 /\ index' <= h.size
      BY <1>2, SMTT(40)
    <3>2. Copying(heap', name', roots', from', V, E, D, free', tuple' + index' + 1, Len(roots'))
      BY <1>8, <2>12, <3>1
    <3>3. SizeAt(heap', to', tuple') = h.size
      BY <1>2, <1>8, <2>12
    <3>4. /\ tuple' \in D /\ index' <= SizeAt(heap', to', tuple')
          /\ scan' = tuple' + SizeAt(heap', to', tuple') + 1 /\ pc' = "fields"
      BY <2>1, <2>2, <2>9, <3>1, <3>3
    <3> QED BY <3>2, <3>4 DEF InCopy
  <2>14. PICK e \in HeaderRecords : G[to][tuple] = Header(e)
    BY <2>12
  <2>15. \A s \in {0, 1} : DOMAIN G[s] = DOMAIN heap[s]
    BY <1>10, <2>12
  <2> QED BY <1>11, <2>12, <2>13, <2>14, <2>15
<1>13. CASE Copied
  <2>1. PICK C \in SUBSET Nat, L \in 0 .. free :
          Live(heap, name, roots, to, C, L) /\ L <= scan /\ L <= tuple
    BY <1>13 DEF Copied
  <2>2. PICK M : M = copy.name
    OBVIOUS
  <2>3. StaysBelow(G, M, C, L)
    <3>1. G = tuple_set_tuple(copy.heap, to, tuple, index, copy.word)
      BY <1>8
    <3> QED BY <2>1, <2>2, <3>1, JunkField
  <2>4. /\ Memory(G) /\ (\A s \in {0, 1} : DOMAIN G[s] = DOMAIN heap[s])
        /\ Below(heap, G, to, L) /\ \A c \in C : M[to][c] = name[to][c]
    BY <2>3 DEF StaysBelow
  <2>5. Live(G, M, roots, to, C, L)
    <3>1. Live(heap, name, roots, to, C, L) /\ Memory(heap) /\ to \in {0, 1}
      BY <1>2, <2>1
    <3>2. Below(heap, G, to, L)
      BY <2>4
    <3>3. \A c \in C : M[to][c] = name[to][c]
      BY <2>4
    <3> QED BY <3>1, <3>2, <3>3, LiveBehind
  <2>6. Copied'
    <3>1. Live(heap', name', roots', to', C, L)
      BY <1>2, <1>8, <2>2, <2>5
    <3>2. L \in 0 .. free' /\ L <= scan' /\ L <= tuple' /\ pc' = "fields"
      BY <1>2, <1>10, <2>1
    <3> QED BY <3>1, <3>2 DEF Copied
  <2>7. PICK d \in HeaderRecords : G[to][tuple] = Header(d)
    BY <2>3 DEF StaysBelow
  <2> QED BY <1>11, <2>4, <2>6, <2>7
<1> QED BY <1>1, <1>12, <1>13

LEMMA ScanFieldStep ==
    ASSUME Running, ScanField
    PROVE  GcInv'
<1>1. pc = "fields"
  BY DEF ScanField
<1>2. GcTypes /\ SpacesGrow /\ InFields
  BY DEF Running
<1>3. PICK h \in HeaderRecords : heap[to][tuple] = Header(h)
  BY <1>1, <1>2 DEF InFields
<1>4. heap[to][tuple][2] = h
  BY <1>3, WordKinds
<1>5. index \in Nat /\ h.size \in Nat /\ tuple \in Nat /\ size(to) \in Nat
  BY <1>2, SizeTypes DEF GcTypes, HeaderRecords
<1>6. CASE index >= h.size
  <2>1. /\ pc' = "scan"
        /\ UNCHANGED <<heap, name, from, roots, free, scan, tuple, index, want, after>>
    BY <1>4, <1>6 DEF ScanField
  <2> QED BY <1>1, <1>3, <1>6, <2>1, NoFieldStep
<1>7. CASE ~ index >= h.size /\ index \notin h.mask
  <2>1. /\ index' = index + 1
        /\ UNCHANGED <<heap, name, from, roots, free, scan, tuple, want, pc, after>>
    BY <1>4, <1>7 DEF ScanField
  <2>2. index < h.size
    BY <1>5, <1>7
  <2> QED BY <1>1, <1>3, <1>7, <2>1, <2>2, NoFieldStep
<1>8. CASE ~ index >= h.size /\ index \in h.mask /\ tuple + index + 1 >= size(to)
  <2>1. Stop("wild")
    BY <1>4, <1>8 DEF ScanField
  <2> QED BY <2>1, StopStep
<1>9. CASE ~ index >= h.size /\ index \in h.mask /\ ~ tuple + index + 1 >= size(to)
  <2>1. PICK copy \in gc_copy_tuple(heap[to][tuple + index + 1]) :
          IF copy.stop # "no" THEN Stop(copy.stop)
          ELSE /\ heap' = tuple_set_tuple(copy.heap, to, tuple, index, copy.word)
               /\ name' = copy.name /\ free' = copy.free
               /\ index' = index + 1
               /\ UNCHANGED <<from, roots, scan, tuple, want, pc, after>>
    BY <1>4, <1>9 DEF ScanField
  <2>2. CASE copy.stop # "no"
    <3>1. copy.stop \in {"abort", "wild"}
      BY <2>2, CopyStops
    <3> QED BY <2>1, <2>2, <3>1, StopStep
  <2>3. CASE copy.stop = "no"
    <3>1. index < h.size /\ tuple + index + 1 < size(to)
      BY <1>5, <1>9
    <3> QED BY <1>1, <1>3, <1>9, <2>1, <2>3, <3>1, FieldStep
  <2> QED BY <2>2, <2>3
<1> QED BY <1>6, <1>7, <1>8, <1>9

\* The copies are below free_pointer, so that all of them have been scanned.
LEMMA SwapCopied ==
    ASSUME Running, Swap
    PROVE  Copied
<1>1. pc = "scan" /\ ~ scan <= free
  BY DEF Swap, MoreToScan
<1>2. /\ GcTypes /\ (InCopy \/ Copied) /\ scan \in Nat /\ free \in Nat
  BY <1>1 DEF Running, Quiet, GcTypes
<1>3. ASSUME InCopy PROVE FALSE
  <2>1. PICK U \in SUBSET Nat, F \in SUBSET Nat, C \in SUBSET Nat :
          /\ scan \in C \cup {free}
          /\ Copying(heap, name, roots, from, U, F, C, free, scan, Len(roots))
    BY <1>1, <1>3 DEF InCopy
  <2>2. CASE scan \in C
    <3>1. IsTuple(heap, 1 - from, scan) /\ scan + SizeAt(heap, 1 - from, scan) < free
      BY <2>1, <2>2 DEF Copying, NewSpace
    <3>2. SizeAt(heap, 1 - from, scan) \in Nat
      BY <3>1, TupleFacts
    <3> QED BY <1>1, <1>2, <3>1, <3>2
  <2>3. CASE scan = free
    BY <1>1, <1>2, <2>3
  <2> QED BY <2>1, <2>2, <2>3
<1> QED BY <1>2, <1>3

LEMMA SwapStep ==
    ASSUME Running, Swap
    PROVE  GcInv'
<1>1. /\ pc = "scan" /\ ~ scan <= free /\ from' = to /\ pc' = after
      /\ tuple' = 0 /\ index' = 0
      /\ name' = [name EXCEPT ![from] = [o \in 0 .. MaxHeap - 1 |-> None]]
      /\ UNCHANGED <<heap, roots, free, scan, want, after>>
  BY DEF Swap, MoreToScan
<1>2. /\ GcTypes /\ SpacesGrow /\ Asked /\ ~ Quiet /\ (InCopy \/ Copied)
  BY <1>1 DEF Running, Quiet
<1>3. /\ from \in {0, 1} /\ to \in {0, 1} /\ to # from /\ from = 1 - to /\ Memory(heap)
      /\ Tables(name) /\ scan \in Nat /\ free \in Nat /\ want \in Nat /\ roots \in Seq(Words)
  BY <1>2, SizeTypes DEF GcTypes
<1>4. after \in {"check", "grown"}
  BY <1>2 DEF SpacesGrow
<1>5. to' = from /\ size(from)' = size(to) /\ size(to)' = size(from)
  BY <1>1, <1>3 DEF to, size
<1>6. Copied
  BY SwapCopied
<1>7. PICK C \in SUBSET Nat, L \in 0 .. free : Live(heap, name, roots, to, C, L)
  BY <1>6 DEF Copied
<1>8. PICK M : M = name'
  OBVIOUS
<1>9. Tables(M) /\ M[to] = name[to]
  BY <1>1, <1>3, <1>8 DEF Tables
<1>10. AtRest'
  <2>1. \A c \in C : M[to][c] = name[to][c]
    BY <1>9
  <2>2. Live(heap, M, roots, to, C, L)
    <3>1. \A j \in 1 .. Len(roots) : PointsInto(roots[j], to, C)
      BY <1>7 DEF Live
    <3>2. \A c \in C : SameTuple(heap, heap, to, c)
      BY <1>7 DEF Live, SameTuple, IsTuple
    <3>3. L \in Nat /\ L <= L
      BY <1>3
    <3> QED BY <1>7, <2>1, <3>1, <3>2, <3>3, LiveKept
  <2> QED BY <1>1, <1>7, <1>8, <2>2 DEF AtRest
<1>11. GcTypes'
  <2>1. from' \in {0, 1} /\ tuple' \in Nat /\ index' \in Nat
        /\ pc' \in {"mutator", "allocate", "check", "grow", "grown", "roots", "scan", "fields"}
    BY <1>1, <1>3, <1>4
  <2> QED BY <1>1, <1>2, <1>8, <1>9, <2>1 DEF GcTypes
<1>12. Quiet' /\ ~ Stopped' /\ InFields'
  BY <1>1, <1>4 DEF Quiet, Stopped, InFields
<1>13. SpacesGrow'
  <2>1. /\ size(from) \in 1 .. MaxHeap /\ size(to) \in 1 .. MaxHeap /\ free <= size(to)
        /\ (IF after = "grown" THEN size(to) = 2 * size(from) ELSE size(from) = size(to))
    BY <1>1, <1>2 DEF SpacesGrow, Quiet
  <2>2. size(from) = size(to) => size(to) = size(from)
    OBVIOUS
  <2> QED BY <1>1, <1>4, <1>5, <1>12, <2>1, <2>2 DEF SpacesGrow
<1>14. Asked'
  <2>1. pc' = "check" => want > 0
    BY <1>1, <1>2 DEF Asked
  <2> QED BY <1>1, <1>4, <1>12, <2>1 DEF Asked
<1> QED BY <1>10, <1>11, <1>12, <1>13, <1>14 DEF GcInv, Running

-----------------------------------------------------------------------------
(* The theorems *)

LEMMA InitInv == Init => GcInv
<1> SUFFICES ASSUME Init PROVE GcInv
  OBVIOUS
<1>1. /\ HeapSize \in Nat /\ HeapSize > 0 /\ MaxHeap \in Nat /\ HeapSize <= MaxHeap
  BY SizesAssumption, NamesAssumption
<1>2. Cardinality(0 .. HeapSize - 1) = HeapSize
  <2>1. 0 \in Int /\ HeapSize - 1 \in Int
    BY <1>1
  <2>2. Cardinality(0 .. HeapSize - 1)
          = IF 0 > HeapSize - 1 THEN 0 ELSE HeapSize - 1 - 0 + 1
    BY <2>1, FS_Interval
  <2> QED BY <1>1, <2>2
<1>3. /\ heap = [s \in {0, 1} |-> [o \in 0 .. HeapSize - 1 |-> Atom(0)]]
      /\ name = [s \in {0, 1} |-> [o \in 0 .. MaxHeap - 1 |-> None]]
      /\ from = 0 /\ roots = <<>> /\ free = 0 /\ scan = 0 /\ tuple = 0 /\ index = 0
      /\ want = 0 /\ pc = "mutator" /\ after = "mutator"
  BY DEF Init
<1>4. \A s \in {0, 1} : Cardinality(DOMAIN heap[s]) = HeapSize
  BY <1>2, <1>3
<1>5. Memory(heap)
  <2>1. \A s \in {0, 1} : heap[s] \in [0 .. HeapSize - 1 -> Words]
    <3>1. Atom(0) \in Words
      BY DEF Words
    <3> QED BY <1>3, <3>1
  <2>2. \A s \in {0, 1} : heap[s] \in Block(heap, s)
    BY <1>4, <2>1 DEF Block
  <2> QED BY <1>1, <1>3, <1>4, <2>2 DEF Memory
<1>6. GcTypes
  <2>1. Tables(name)
    BY <1>3 DEF Tables
  <2>2. roots \in Seq(Words)
    BY <1>3
  <2> QED BY <1>3, <1>5, <2>1, <2>2 DEF GcTypes
<1>7. Quiet /\ ~ Stopped /\ Asked /\ InFields
  BY <1>3 DEF Quiet, Stopped, Asked, InFields
<1>8. SpacesGrow
  <2>1. size(from) = HeapSize /\ size(to) = HeapSize
    BY <1>3, <1>4 DEF size, to
  <2> QED BY <1>1, <1>3, <1>7, <2>1 DEF SpacesGrow
<1>9. AtRest
  <2>1. Live(heap, name, roots, from, {}, 0)
    <3>1. Len(roots) = 0
      BY <1>3
    <3>2. \A j \in 1 .. Len(roots) : PointsInto(roots[j], from, {})
      BY <3>1
    <3> QED BY <3>2 DEF Live, Apart, Named
  <2>2. {} \in SUBSET Nat /\ 0 \in 0 .. free
    BY <1>3
  <2> QED BY <2>1, <2>2 DEF AtRest
<1> QED BY <1>6, <1>7, <1>8, <1>9 DEF GcInv, Running

LEMMA MutatorStep ==
    ASSUME Running, Mutator
    PROVE  GcInv'
<1>1. CASE \E n \in Sizes : tuple_new(n)
  BY <1>1, NewStep
<1>2. CASE \E i \in DOMAIN roots, k \in 0 .. MaxTuple - 1 :
             \/ \E j \in DOMAIN roots : SetField(i, k, roots[j])
             \/ \E a \in Atoms : SetField(i, k, Atom(a))
             \/ tuple_get_tuple(i, k)
  <2>1. PICK i \in DOMAIN roots, k \in 0 .. MaxTuple - 1 :
             \/ \E j \in DOMAIN roots : SetField(i, k, roots[j])
             \/ \E a \in Atoms : SetField(i, k, Atom(a))
             \/ tuple_get_tuple(i, k)
    BY <1>2
  <2>2. CASE \E j \in DOMAIN roots : SetField(i, k, roots[j])
    <3>1. PICK j \in DOMAIN roots : SetField(i, k, roots[j])
      BY <2>2
    <3>2. PICK word : word = roots[j]
      OBVIOUS
    <3>3. SetField(i, k, word)
      BY <3>1, <3>2
    <3> QED BY <3>2, <3>3, SetStep
  <2>3. CASE \E a \in Atoms : SetField(i, k, Atom(a))
    <3>1. PICK a \in Atoms : SetField(i, k, Atom(a))
      BY <2>3
    <3>2. PICK word : word = Atom(a)
      OBVIOUS
    <3>3. SetField(i, k, word)
      BY <3>1, <3>2
    <3> QED BY <3>2, <3>3, SetStep
  <2>4. CASE tuple_get_tuple(i, k)
    BY <2>4, GetStep
  <2> QED BY <2>1, <2>2, <2>3, <2>4
<1>3. CASE gc_pop_root
  BY <1>3, PopStep
<1>4. CASE CallGrow
  BY <1>4, CallGrowStep
<1> QED BY <1>1, <1>2, <1>3, <1>4 DEF Mutator

LEMMA CollectorStep ==
    ASSUME Running, Collector
    PROVE  GcInv'
<1>1. CASE gc_allocate_tuple
  BY <1>1, AllocateStep, CollectStep
<1>2. CASE CheckCopied
  BY <1>2, CheckStep
<1>3. CASE gc_grow
  BY <1>3, GrowStep
<1>4. CASE GrowOther
  BY <1>4, GrowOtherStep
<1>5. CASE CopyRoot
  BY <1>5, CopyRootStep
<1>6. CASE RootsDone
  BY <1>6, RootsDoneStep
<1>7. CASE ScanTuple
  BY <1>7, ScanTupleStep
<1>8. CASE ScanField
  BY <1>8, ScanFieldStep
<1>9. CASE Swap
  BY <1>9, SwapStep
<1> QED BY <1>1, <1>2, <1>3, <1>4, <1>5, <1>6, <1>7, <1>8, <1>9 DEF Collector

\* Nothing runs when the program has stopped.
LEMMA NothingRuns == Stopped => ~ Next
<1> SUFFICES ASSUME Stopped, Next PROVE FALSE
  OBVIOUS
<1>1. pc \notin {"mutator", "allocate", "check", "grow", "grown", "roots", "scan", "fields"}
  BY DEF Stopped
<1>2. ~ Mutator
  BY <1>1 DEF Mutator, tuple_new, SetField, tuple_get_tuple, gc_pop_root, CallGrow
<1>3. ~ Collector
  BY <1>1 DEF Collector, gc_allocate_tuple, CheckCopied, gc_grow, GrowOther, CopyRoot,
     RootsDone, ScanTuple, ScanField, Swap
<1> QED BY <1>2, <1>3 DEF Next

LEMMA StutterStep ==
    ASSUME GcInv, UNCHANGED vars
    PROVE  GcInv'
<1>1. UNCHANGED <<heap, name, from, roots, free, scan, tuple, index, want, pc, after>>
  BY DEF vars
<1>2. CASE Stopped
  <2>1. PICK K : Covers(K) /\ Distinct(K)
    BY <1>2, SMTT(40) DEF GcInv
  <2>2. Covers(K)'
    BY <1>1, <2>1 DEF Covers, FirstReached, Children, Resolved, HeaderOf, FieldOf
  <2>3. Distinct(K)'
    BY <1>1, <2>1 DEF Distinct, NameOf
  <2>4. Stopped'
    BY <1>1, <1>2 DEF Stopped
  <2> QED BY <2>2, <2>3, <2>4 DEF GcInv
<1>3. CASE ~ Stopped
  <2>1. Running
    BY <1>3 DEF GcInv
  <2>2. GcTypes'
    BY <1>1, <2>1 DEF Running, GcTypes
  <2>3. to' = to /\ size(to)' = size(to) /\ size(from)' = size(from)
    BY <1>1 DEF to, size
  <2>4. (Quiet' <=> Quiet) /\ ~ Stopped'
    BY <1>1, <1>3 DEF Quiet, Stopped
  <2>5. SpacesGrow' /\ Asked'
    BY <1>1, <2>1, <2>3, <2>4 DEF Running, SpacesGrow, Asked
  <2>6. InFields'
    BY <1>1, <2>1, <2>3 DEF Running, InFields
  <2>7. AtRest => AtRest'
    BY <1>1 DEF AtRest
  <2>8. InCopy => InCopy'
    BY <1>1, <2>3 DEF InCopy
  <2>9. Copied => Copied'
    BY <1>1, <2>3 DEF Copied
  <2> QED BY <2>1, <2>2, <2>4, <2>5, <2>6, <2>7, <2>8, <2>9 DEF GcInv, Running
<1> QED BY <1>2, <1>3

(* Whenever the collector is not at work, the roots reach tuples that are    *)
(* whole, apart and behind free_pointer; while it copies, each of them is    *)
(* still in the from-space or has one copy, and points where the scan        *)
(* pointer says; and the junk that gc_copy scans when all has been copied    *)
(* (gc.c:152) never makes it write into a tuple that the roots reach.        *)
THEOREM GcInvariant == Spec => []GcInv
<1>1. ASSUME GcInv, [Next]_vars PROVE GcInv'
  <2>1. CASE UNCHANGED vars
    BY <1>1, <2>1, StutterStep
  <2>2. CASE Next
    <3>1. ~ Stopped
      BY <2>2, NothingRuns
    <3>2. Running
      BY <1>1, <3>1 DEF GcInv
    <3> QED BY <2>2, <3>2, MutatorStep, CollectorStep DEF Next
  <2> QED BY <1>1, <2>1, <2>2
<1> QED BY <1>1, InitInv, PTL DEF Spec

(* For every size of the spaces and of the tuples, and every graph of tuples *)
(* that the program can build: in the middle of a collection too, no tuple   *)
(* has two copies.                                                           *)
THEOREM CollectionKeepsSharing == Spec => []SharingKept
BY GcInvariant, InvariantSharing, PTL

(* For every size of the spaces and of the tuples: whenever the program runs, *)
(* the tuples that it can reach are in the from-space as a whole, below       *)
(* free_pointer, and none shares a word with another.                         *)
THEOREM TuplesStayWhole == Spec => []TuplesWhole
<1>1. ASSUME GcInv, pc = "mutator" PROVE TuplesWhole
  <2>1. Running /\ Quiet /\ AtRest
    BY <1>1 DEF GcInv, Running, Stopped, Quiet
  <2>2. PICK S \in SUBSET Nat, L \in 0 .. free : Live(heap, name, roots, from, S, L)
    BY <2>1 DEF AtRest
  <2>3. Covers(At(from, S))
    <3>1. roots \in Seq(Words)
      BY <2>1 DEF Running, GcTypes
    <3> QED BY <2>2, <3>1, LiveCovers
  <2>4. Reached \subseteq At(from, S)
    BY <2>3, ReachedIn
  <2>5. free <= size(from) /\ free \in Nat
    BY <2>1 DEF Running, SpacesGrow, GcTypes
  <2>6. ASSUME NEW a \in Reached
        PROVE  /\ a[1] = from /\ a[2] \in S /\ HeaderOf(a).size = SizeAt(heap, from, a[2])
               /\ a[2] + HeaderOf(a).size < free
    <3>1. PICK o \in S : a = <<from, o>>
      BY <2>4 DEF At
    <3>2. o + SizeAt(heap, from, o) < L /\ IsTuple(heap, from, o)
      BY <2>2 DEF Live
    <3>3. HeaderOf(a).size = SizeAt(heap, from, o)
      BY <3>1 DEF HeaderOf, SizeAt
    <3>4. SizeAt(heap, from, o) \in Nat
      BY <3>2 DEF IsTuple, SizeAt, Header, HeaderRecords
    <3> QED BY <2>2, <2>5, <3>1, <3>2, <3>3, <3>4
  <2>7. ASSUME NEW a \in Reached, NEW b \in Reached, a[2] < b[2]
        PROVE  a[2] + HeaderOf(a).size < b[2]
    <3>1. a[2] \in S /\ b[2] \in S /\ HeaderOf(a).size = SizeAt(heap, from, a[2])
      BY <2>6
    <3> QED BY <2>2, <2>7, <3>1 DEF Live, Apart
  <2> QED BY <2>5, <2>6, <2>7 DEF TuplesWhole
<1>2. GcInv => TuplesWhole
  BY <1>1 DEF TuplesWhole
<1> QED BY <1>2, GcInvariant, PTL
-----------------------------------------------------------------------------
(* What the names on the root stack of the heap reach *)

LEMMA HeapCounts == ASSUME NEW S PROVE Heap!Cardinality(S) = Cardinality(S)
  BY ZenonT(30) DEF Heap!Cardinality, Cardinality, Heap!IsFiniteSet, IsFiniteSet

FirstNames(q) == {q[i] : i \in DOMAIN q}

OneNameMore(T, X) == X \cup UNION {Heap!Children(T, m) : m \in X}

Closed(T, q, X) == FirstNames(q) \subseteq X /\ \A m \in X : Heap!Children(T, m) \subseteq X

\* g[n] is what q reaches in T within n fields.
NamesWithin(g, T, q) ==
    /\ g[0] = FirstNames(q)
    /\ \A n \in 0 .. Cardinality(DOMAIN T) :
         n < Cardinality(DOMAIN T) => g[n + 1] = OneNameMore(T, g[n])
    /\ Heap!Reachable(T, q) = g[Cardinality(DOMAIN T)]

LEMMA OneNameMoreStays ==
    ASSUME NEW T, NEW q, NEW K, Closed(T, q, K), NEW X \in SUBSET K
    PROVE  OneNameMore(T, X) \in SUBSET K
BY DEF Closed, OneNameMore

LEMMA NamesWithinExist ==
    ASSUME NEW T, IsFiniteSet(DOMAIN T), NEW q, NEW K, Closed(T, q, K)
    PROVE  \E g : /\ NamesWithin(g, T, q)
                  /\ \A n \in 0 .. Cardinality(DOMAIN T) : g[n] \in SUBSET K
<1>1. PICK N \in Nat : N = Cardinality(DOMAIN T)
  BY FS_CardinalityType
<1> DEFINE V == SUBSET K
           step == [x \in V \X Nat |-> OneNameMore(T, x[1])]
           Loops(u) == u = [n \in 0 .. N |-> IF n = 0 THEN FirstNames(q)
                                             ELSE OneNameMore(T, u[n - 1])]
<1>2. step \in Steps(V)
  <2>1. \A x \in V \X Nat : OneNameMore(T, x[1]) \in V
    BY OneNameMoreStays
  <2> QED BY <2>1 DEF Steps
<1>3. FirstNames(q) \in V
  BY DEF Closed
<1>4. PICK f : Follows(f, V, FirstNames(q), step, N)
  <2> HIDE DEF V, step
  <2> QED BY <1>1, <1>2, <1>3, RecursionExists
<1>5. /\ f \in [0 .. N -> V] /\ f[0] = FirstNames(q)
      /\ \A n \in 0 .. N : n < N => f[n + 1] = OneNameMore(T, f[n])
  <2>1. /\ f \in [0 .. N -> V] /\ f[0] = FirstNames(q)
        /\ \A n \in 0 .. N : n < N => f[n + 1] = step[<<f[n], n + 1>>]
    BY <1>4 DEF Follows
  <2>2. ASSUME NEW n \in 0 .. N, n < N PROVE f[n + 1] = OneNameMore(T, f[n])
    <3>1. f[n] \in V /\ n + 1 \in Nat
      BY <2>1, <2>2
    <3>2. <<f[n], n + 1>> \in V \X Nat /\ <<f[n], n + 1>>[1] = f[n]
      BY <3>1
    <3>3. step[<<f[n], n + 1>>] = OneNameMore(T, <<f[n], n + 1>>[1])
      <4> HIDE DEF V
      <4> QED BY <3>2
    <3>4. step[<<f[n], n + 1>>] = OneNameMore(T, f[n])
      BY <3>2, <3>3, Zenon
    <3> HIDE DEF step
    <3> QED BY <2>1, <2>2, <3>4
  <2> QED BY <2>1, <2>2
<1> HIDE DEF step, V
<1>6. Loops(f)
  <2>1. ASSUME NEW n \in 0 .. N
        PROVE  f[n] = IF n = 0 THEN FirstNames(q) ELSE OneNameMore(T, f[n - 1])
    <3>1. CASE n = 0
      BY <1>5, <3>1
    <3>2. CASE n # 0
      <4>1. n - 1 \in 0 .. N /\ n - 1 < N /\ (n - 1) + 1 = n
        BY <1>1, <3>2
      <4>2. f[(n - 1) + 1] = OneNameMore(T, f[n - 1])
        BY <1>5, <4>1
      <4> QED BY <3>2, <4>1, <4>2
    <3> QED BY <3>1, <3>2
  <2> QED BY <1>5, <2>1
<1>7. PICK g : Loops(g) /\ Heap!Reachable(T, q) = g[N]
  <2>1. Loops(CHOOSE u : Loops(u))
    <3> HIDE DEF Loops
    <3> QED BY <1>6
  <2>2. Heap!Reachable(T, q) = (CHOOSE u : Loops(u))[N]
    BY <1>1, HeapCounts DEF Heap!Reachable, OneNameMore, FirstNames
  <2> HIDE DEF Loops
  <2> QED BY <2>1, <2>2
<1>8. g[0] = FirstNames(q) /\ \A n \in 0 .. N : n < N => g[n + 1] = OneNameMore(T, g[n])
  <2>1. 0 \in 0 .. N
    BY <1>1
  <2>2. g[0] = FirstNames(q)
    BY <1>7, <2>1
  <2>3. ASSUME NEW n \in 0 .. N, n < N PROVE g[n + 1] = OneNameMore(T, g[n])
    <3>1. n + 1 \in 0 .. N /\ n + 1 # 0 /\ (n + 1) - 1 = n
      BY <1>1, <2>3
    <3>2. g[n + 1] = OneNameMore(T, g[(n + 1) - 1])
      BY <1>7, <3>1
    <3> QED BY <3>1, <3>2
  <2> QED BY <2>2, <2>3
<1>9. \A n \in 0 .. N : g[n] \in SUBSET K
  <2> DEFINE I == {n \in 0 .. N : g[n] \in SUBSET K}
  <2>1. 0 \in I
    BY <1>1, <1>3, <1>8 DEF V
  <2>2. ASSUME NEW n \in 0 .. N, n < N, n \in I PROVE n + 1 \in I
    <3>1. n + 1 \in 0 .. N
      BY <1>1, <2>2
    <3>2. g[n + 1] = OneNameMore(T, g[n]) /\ g[n] \in SUBSET K
      BY <1>8, <2>2
    <3> QED BY <3>1, <3>2, OneNameMoreStays
  <2>3. \A n \in 0 .. N : n \in I
    <3> HIDE DEF I
    <3> QED BY <1>1, <2>1, <2>2, IntervalInduction
  <2> QED BY <2>3
<1> QED BY <1>1, <1>7, <1>8, <1>9 DEF NamesWithin

\* The names on the stack reach nothing outside K.
LEMMA ReachableIn ==
    ASSUME NEW T, IsFiniteSet(DOMAIN T), NEW q, NEW K, Closed(T, q, K)
    PROVE  Heap!Reachable(T, q) \subseteq K
<1>1. PICK g : NamesWithin(g, T, q) /\ \A n \in 0 .. Cardinality(DOMAIN T) : g[n] \in SUBSET K
  BY NamesWithinExist
<1>2. Cardinality(DOMAIN T) \in 0 .. Cardinality(DOMAIN T)
  BY FS_CardinalityType
<1> QED BY <1>1, <1>2 DEF NamesWithin

LEMMA ReachableCloses ==
    ASSUME NEW T, IsFiniteSet(DOMAIN T), NEW q, FirstNames(q) \subseteq DOMAIN T
    PROVE  Closed(T, q, Heap!Reachable(T, q)) /\ Heap!Reachable(T, q) \subseteq DOMAIN T
<1>0. Closed(T, q, DOMAIN T)
  BY DEF Closed, Heap!Children
<1>1. PICK N \in Nat : N = Cardinality(DOMAIN T)
  BY FS_CardinalityType
<1>2. PICK g : NamesWithin(g, T, q) /\ \A n \in 0 .. N : g[n] \in SUBSET DOMAIN T
  BY <1>0, <1>1, NamesWithinExist
<1>3. /\ g[0] = FirstNames(q) /\ Heap!Reachable(T, q) = g[N]
      /\ \A n \in 0 .. N : n < N => g[n + 1] = OneNameMore(T, g[n])
  BY <1>1, <1>2 DEF NamesWithin
<1>4. \A n \in 0 .. N : IsFiniteSet(g[n]) /\ Cardinality(g[n]) \in Nat
  BY <1>2, FS_Subset, FS_CardinalityType
<1> DEFINE I == {n \in 0 .. N : FirstNames(q) \subseteq g[n]
                               /\ (OneNameMore(T, g[n]) = g[n] \/ n <= Cardinality(g[n]))}
<1>5. 0 \in I
  <2>1. 0 \in 0 .. N /\ 0 <= Cardinality(g[0])
    BY <1>1, <1>4
  <2> QED BY <1>3, <2>1
<1>6. ASSUME NEW n \in 0 .. N, n < N, n \in I PROVE n + 1 \in I
  <2>1. n + 1 \in 0 .. N /\ g[n + 1] = OneNameMore(T, g[n])
    BY <1>1, <1>3, <1>6
  <2>2. FirstNames(q) \subseteq g[n + 1]
    BY <1>6, <2>1 DEF OneNameMore
  <2>3. CASE OneNameMore(T, g[n]) = g[n]
    BY <2>1, <2>2, <2>3
  <2>4. CASE OneNameMore(T, g[n]) # g[n]
    <3>1. PICK b : b \in g[n + 1] /\ b \notin g[n]
      BY <2>1, <2>4 DEF OneNameMore
    <3>2. g[n] \cup {b} \in SUBSET g[n + 1]
      BY <2>1, <3>1 DEF OneNameMore
    <3>3. Cardinality(g[n] \cup {b}) = Cardinality(g[n]) + 1
      BY <1>4, <3>1, FS_AddElement
    <3>4. Cardinality(g[n] \cup {b}) <= Cardinality(g[n + 1])
      BY <1>4, <2>1, <3>2, FS_Subset
    <3>5. n <= Cardinality(g[n])
      BY <1>6, <2>4
    <3>6. Cardinality(g[n]) \in Nat /\ Cardinality(g[n + 1]) \in Nat
      BY <1>4, <2>1
    <3>7. n + 1 <= Cardinality(g[n + 1])
      BY <3>3, <3>4, <3>5, <3>6
    <3> QED BY <2>1, <2>2, <3>7
  <2> QED BY <2>3, <2>4
<1>7. N \in I
  <2>1. \A n \in 0 .. N : n \in I
    <3> HIDE DEF I
    <3> QED BY <1>1, <1>5, <1>6, IntervalInduction
  <2>2. N \in 0 .. N
    BY <1>1
  <2> HIDE DEF I
  <2> QED BY <2>1, <2>2
<1>8. OneNameMore(T, g[N]) = g[N] /\ g[N] \in SUBSET DOMAIN T
  <2>0. g[N] \in SUBSET DOMAIN T /\ Cardinality(g[N]) \in Nat /\ Cardinality(DOMAIN T) \in Nat
    BY <1>1, <1>2, <1>4, FS_CardinalityType
  <2>1. CASE OneNameMore(T, g[N]) = g[N]
    BY <2>0, <2>1
  <2>2. CASE N <= Cardinality(g[N])
    <3>2. Cardinality(g[N]) <= Cardinality(DOMAIN T)
      BY <2>0, FS_Subset
    <3>3. Cardinality(DOMAIN T) = Cardinality(g[N])
      BY <1>1, <2>2, <2>0, <3>2
    <3>4. g[N] = DOMAIN T
      BY <2>0, <3>3, FS_Subset
    <3>5. OneNameMore(T, DOMAIN T) \in SUBSET DOMAIN T /\ DOMAIN T \subseteq OneNameMore(T, DOMAIN T)
      BY <1>0, OneNameMoreStays DEF OneNameMore
    <3> QED BY <2>0, <3>4, <3>5
  <2> QED BY <1>7, <2>1, <2>2
<1>9. FirstNames(q) \subseteq g[N]
  BY <1>7
<1>10. ASSUME NEW m \in g[N] PROVE Heap!Children(T, m) \subseteq g[N]
  BY <1>8 DEF OneNameMore
<1> QED BY <1>3, <1>8, <1>9, <1>10 DEF Closed

-----------------------------------------------------------------------------
(* The heap that the program sees *)

ResolvedIn(H, a) == IF H[a[1]][a[2]][2].forward THEN H[a[1]][a[2] + 1][2] ELSE a

NameAt(N, a) == N[a[1]][a[2]]
WordAt(H, a, k) == H[a[1]][a[2] + k + 1]
FieldNumbers(H, a) == 0 .. SizeAt(H, a[1], a[2]) - 1
MaskOf(H, a) == MaskAt(H, a[1], a[2])

\* What the program finds in a word of a field
Means(H, N, word, masked) ==
    IF masked /\ word[1] = "tuple" THEN Pointer(NameAt(N, ResolvedIn(H, word[2])))
    ELSE IF word \in {Atom(n) : n \in Atoms} THEN word
    ELSE <<"junk", "junk">>

FieldsIn(H, N, a) ==
    [k \in FieldNumbers(H, a) |-> Means(H, N, WordAt(H, a, k), k \in MaskOf(H, a))]

\* The tuples at the addresses K, by their names, and the names of the roots
TuplesOf(H, N, K) ==
    [m \in {NameAt(N, a) : a \in K} |-> FieldsIn(H, N, CHOOSE a \in K : NameAt(N, a) = m)]

RootsOf(H, N, R) == [i \in DOMAIN R |-> NameAt(N, ResolvedIn(H, R[i][2]))]

\* K has what the roots R reach, each under its own name.
Graph(H, N, R, K) ==
    /\ \A a \in K : NameAt(N, a) \in Names
    /\ \A a, b \in K : NameAt(N, a) = NameAt(N, b) => a = b
    /\ \A i \in DOMAIN R : ResolvedIn(H, R[i][2]) \in K
    /\ \A a \in K : MaskOf(H, a) \subseteq FieldNumbers(H, a)
    /\ \A a \in K : \A k \in MaskOf(H, a) :
         WordAt(H, a, k)[1] = "tuple" /\ ResolvedIn(H, WordAt(H, a, k)[2]) \in K

AbsTuples == [m \in {NameOf(a) : a \in Reached} |->
                Fields(CHOOSE a \in Reached : NameOf(a) = m)]
AbsRoots == [i \in DOMAIN roots |-> NameOf(Resolved(roots[i][2]))]

Kept(T, q) == [m \in Heap!Reachable(T, q) |-> T[m]]

LEMMA ReadsHere ==
    /\ \A a : Resolved(a) = ResolvedIn(heap, a) /\ NameOf(a) = NameAt(name, a)
    /\ \A a : Fields(a) = FieldsIn(heap, name, a)
    /\ \A a : Children(a) = {ResolvedIn(heap, WordAt(heap, a, k)[2]) :
                k \in {k \in MaskOf(heap, a) : WordAt(heap, a, k)[1] = "tuple"}}
<1>1. \A a : Resolved(a) = ResolvedIn(heap, a) /\ NameOf(a) = NameAt(name, a)
  BY DEF Resolved, ResolvedIn, HeaderOf, NameOf, NameAt
<1>2. \A a, k : FieldOf(a, k) = WordAt(heap, a, k)
  BY DEF FieldOf, WordAt
<1>3. \A a : HeaderOf(a).mask = MaskOf(heap, a) /\ 0 .. HeaderOf(a).size - 1 = FieldNumbers(heap, a)
  BY DEF HeaderOf, MaskOf, FieldNumbers, SizeAt, MaskAt
<1>4. \A a : Children(a) = {ResolvedIn(heap, WordAt(heap, a, k)[2]) :
                k \in {k \in MaskOf(heap, a) : WordAt(heap, a, k)[1] = "tuple"}}
  BY <1>1, <1>2, <1>3 DEF Children
<1>5. ASSUME NEW a PROVE Fields(a) = FieldsIn(heap, name, a)
  BY <1>1, <1>2, <1>3 DEF Fields, FieldsIn, Means
<1> QED BY <1>1, <1>4, <1>5

LEMMA TuplesHere ==
    AbsTuples = TuplesOf(heap, name, Reached) /\ AbsRoots = RootsOf(heap, name, roots)
<1>1. AbsTuples = TuplesOf(heap, name, Reached)
  <2>1. \A a : Fields(a) = FieldsIn(heap, name, a)
    BY ReadsHere
  <2>2. AbsTuples = [m \in {NameAt(name, a) : a \in Reached} |->
                       Fields(CHOOSE a \in Reached : NameAt(name, a) = m)]
    BY DEF AbsTuples, NameOf, NameAt
  <2> QED BY <2>1, <2>2 DEF TuplesOf
<1>2. AbsRoots = RootsOf(heap, name, roots)
  BY ReadsHere DEF AbsRoots, RootsOf
<1> QED BY <1>1, <1>2

\* The name of a tuple leads to it.
LEMMA TupleOf ==
    ASSUME NEW H, NEW N, NEW R, NEW K, Graph(H, N, R, K), NEW P \in SUBSET K
    PROVE  /\ DOMAIN TuplesOf(H, N, P) = {NameAt(N, a) : a \in P}
           /\ \A a \in P : TuplesOf(H, N, P)[NameAt(N, a)] = FieldsIn(H, N, a)
<1>1. ASSUME NEW a \in P PROVE TuplesOf(H, N, P)[NameAt(N, a)] = FieldsIn(H, N, a)
  <2>1. (CHOOSE b \in P : NameAt(N, b) = NameAt(N, a)) = a
    BY DEF Graph
  <2> QED BY <2>1 DEF TuplesOf
<1> QED BY <1>1 DEF TuplesOf

LEMMA GraphFinite ==
    ASSUME NEW H, NEW N, NEW R, NEW K, Graph(H, N, R, K)
    PROVE  /\ IsFiniteSet(K) /\ Cardinality(K) <= Cardinality(Names)
           /\ \A P \in SUBSET K : IsFiniteSet({NameAt(N, a) : a \in P})
<1>1. IsFiniteSet(Names)
  BY NamesAssumption
<1> DEFINE f == [a \in K |-> NameAt(N, a)]
<1>2. f \in [K -> Names] /\ DOMAIN f = K /\ \A a, b \in K : f[a] = f[b] => a = b
  BY DEF Graph
<1>3. f \in Injection(K, Names)
  <2> HIDE DEF f
  <2> QED BY <1>2 DEF Injection, IsInjective
<1>4. IsFiniteSet(K) /\ Cardinality(K) <= Cardinality(Names)
  <2> HIDE DEF f
  <2> QED BY <1>1, <1>3, FS_Injection
<1>5. ASSUME NEW P \in SUBSET K PROVE IsFiniteSet({NameAt(N, a) : a \in P})
  <2>1. {NameAt(N, a) : a \in P} \in SUBSET Names
    BY DEF Graph
  <2> QED BY <1>1, <2>1, FS_Subset
<1> QED BY <1>4, <1>5

LEMMA GraphCovers ==
    ASSUME NEW K, Graph(heap, name, roots, K)
    PROVE  /\ Covers(K) /\ Covers(Reached) /\ Reached \subseteq K
           /\ Graph(heap, name, roots, Reached)
<1>1. Covers(K)
  <2>1. FirstReached \subseteq K
    BY ReadsHere DEF FirstReached, Graph
  <2>2. ASSUME NEW a \in K PROVE Children(a) \subseteq K
    BY ReadsHere DEF Graph
  <2> QED BY <2>1, <2>2 DEF Covers
<1>2. Covers(Reached) /\ Reached \subseteq K
  BY <1>1, GraphFinite, ReachedCovers
<1>3. \A i \in DOMAIN roots : ResolvedIn(heap, roots[i][2]) \in Reached
  BY <1>2, ReadsHere DEF Covers, FirstReached
<1>4. ASSUME NEW a \in Reached, NEW k \in MaskOf(heap, a)
      PROVE  WordAt(heap, a, k)[1] = "tuple" /\ ResolvedIn(heap, WordAt(heap, a, k)[2]) \in Reached
  <2>1. WordAt(heap, a, k)[1] = "tuple"
    BY <1>2 DEF Graph
  <2>2. ResolvedIn(heap, WordAt(heap, a, k)[2]) \in Children(a)
    BY <2>1, ReadsHere
  <2> QED BY <1>2, <2>1, <2>2 DEF Covers
<1> QED BY <1>1, <1>2, <1>3, <1>4 DEF Graph

\* To the program the words of the spaces are the tuples that the roots reach.
SeenAs(T, q) == AbsTuples = Kept(T, q) /\ AbsRoots = q

LEMMA GraphSeen ==
    \A K : Graph(heap, name, roots, K) =>
             SeenAs(TuplesOf(heap, name, K), RootsOf(heap, name, roots))
<1> SUFFICES ASSUME NEW K, Graph(heap, name, roots, K)
             PROVE  SeenAs(TuplesOf(heap, name, K), RootsOf(heap, name, roots))
  OBVIOUS
<1>1. PICK T, q : T = TuplesOf(heap, name, K) /\ q = RootsOf(heap, name, roots)
  OBVIOUS
<1>2. /\ Covers(K) /\ Covers(Reached) /\ Reached \subseteq K
      /\ Graph(heap, name, roots, Reached)
  BY GraphCovers
<1>3. /\ DOMAIN T = {NameAt(name, a) : a \in K} /\ IsFiniteSet(DOMAIN T)
      /\ \A a \in K : T[NameAt(name, a)] = FieldsIn(heap, name, a)
  <2>1. K \in SUBSET K
    OBVIOUS
  <2>2. /\ DOMAIN TuplesOf(heap, name, K) = {NameAt(name, a) : a \in K}
        /\ \A a \in K : TuplesOf(heap, name, K)[NameAt(name, a)] = FieldsIn(heap, name, a)
    BY <2>1, TupleOf, ZenonT(60)
  <2>3. IsFiniteSet({NameAt(name, a) : a \in K})
    BY <2>1, GraphFinite
  <2> QED BY <1>1, <2>2, <2>3
<1>4. DOMAIN q = DOMAIN roots /\ \A i \in DOMAIN roots : q[i] = NameAt(name, ResolvedIn(heap, roots[i][2]))
  BY <1>1 DEF RootsOf
\* the fields of a tuple, and what it points to
<1>5. ASSUME NEW a \in K
      PROVE  \A b \in K : NameAt(name, b) \in Heap!Children(T, NameAt(name, a))
                            <=> \E k \in MaskOf(heap, a) : ResolvedIn(heap, WordAt(heap, a, k)[2]) = b
  <2> SUFFICES ASSUME NEW b \in K
               PROVE  NameAt(name, b) \in Heap!Children(T, NameAt(name, a))
                        <=> \E k \in MaskOf(heap, a) : ResolvedIn(heap, WordAt(heap, a, k)[2]) = b
    OBVIOUS
  <2>1. NameAt(name, b) \in Heap!Children(T, NameAt(name, a))
          <=> \E k \in FieldNumbers(heap, a) : FieldsIn(heap, name, a)[k] = Pointer(NameAt(name, b))
    <3>1. T[NameAt(name, a)] = FieldsIn(heap, name, a) /\ NameAt(name, b) \in DOMAIN T
          /\ DOMAIN FieldsIn(heap, name, a) = FieldNumbers(heap, a)
      BY <1>3 DEF FieldsIn
    <3> QED BY <3>1 DEF Heap!Children, Heap!Tuple, Pointer
  <2>2. ASSUME NEW k \in FieldNumbers(heap, a)
        PROVE  FieldsIn(heap, name, a)[k] = Pointer(NameAt(name, b))
                 <=> k \in MaskOf(heap, a) /\ ResolvedIn(heap, WordAt(heap, a, k)[2]) = b
    <3>1. FieldsIn(heap, name, a)[k] = Means(heap, name, WordAt(heap, a, k), k \in MaskOf(heap, a))
      BY DEF FieldsIn
    <3>2. CASE k \in MaskOf(heap, a)
      <4>1. WordAt(heap, a, k)[1] = "tuple" /\ ResolvedIn(heap, WordAt(heap, a, k)[2]) \in K
        BY <3>2 DEF Graph
      <4>2. FieldsIn(heap, name, a)[k] = Pointer(NameAt(name, ResolvedIn(heap, WordAt(heap, a, k)[2])))
        BY <3>1, <3>2, <4>1 DEF Means
      <4>3. \A x, y : Pointer(x) = Pointer(y) <=> x = y
        BY DEF Pointer
      <4> QED BY <3>2, <4>1, <4>2, <4>3 DEF Graph
    <3>3. CASE k \notin MaskOf(heap, a)
      <4>1. \A x, n : Atom(n) # Pointer(x) /\ <<"junk", "junk">> # Pointer(x)
        BY DEF Pointer, Atom
      <4> QED BY <3>1, <3>3, <4>1 DEF Means
    <3> QED BY <3>2, <3>3
  <2>3. MaskOf(heap, a) \subseteq FieldNumbers(heap, a)
    BY DEF Graph
  <2> QED BY <2>1, <2>2, <2>3
<1>6. \A a \in K : Heap!Children(T, NameAt(name, a)) \subseteq {NameAt(name, b) : b \in K}
  BY <1>3 DEF Heap!Children
\* every name that is reachable is the name of a tuple in Reached
<1>7. Heap!Reachable(T, q) \subseteq {NameAt(name, a) : a \in Reached}
  <2>1. FirstNames(q) \subseteq {NameAt(name, a) : a \in Reached}
    BY <1>2, <1>4 DEF FirstNames, Graph
  <2>2. ASSUME NEW a \in Reached
        PROVE  Heap!Children(T, NameAt(name, a)) \subseteq {NameAt(name, b) : b \in Reached}
    <3> SUFFICES ASSUME NEW c \in Heap!Children(T, NameAt(name, a))
                 PROVE  c \in {NameAt(name, b) : b \in Reached}
      OBVIOUS
    <3>1. PICK b \in K : c = NameAt(name, b)
      BY <1>2, <1>6
    <3>2. PICK k \in MaskOf(heap, a) : ResolvedIn(heap, WordAt(heap, a, k)[2]) = b
      BY <1>2, <1>5, <3>1
    <3>3. b \in Reached
      BY <1>2, <3>2 DEF Graph
    <3> QED BY <3>1, <3>3
  <2>3. Closed(T, q, {NameAt(name, a) : a \in Reached})
    BY <2>1, <2>2 DEF Closed
  <2> QED BY <1>3, <2>3, ReachableIn
\* and conversely
<1>8. {NameAt(name, a) : a \in Reached} \subseteq Heap!Reachable(T, q)
  <2>1. Closed(T, q, Heap!Reachable(T, q))
    <3>1. FirstNames(q) \subseteq DOMAIN T
      BY <1>3, <1>4 DEF FirstNames, Graph
    <3> QED BY <1>3, <3>1, ReachableCloses
  <2>2. PICK P \in SUBSET K : P = {a \in K : NameAt(name, a) \in Heap!Reachable(T, q)}
    OBVIOUS
  <2>3. ASSUME NEW i \in DOMAIN roots PROVE Resolved(roots[i][2]) \in P
    <3>1. q[i] \in Heap!Reachable(T, q)
      BY <1>4, <2>1 DEF Closed, FirstNames
    <3> QED BY <1>4, <2>2, <3>1, ReadsHere DEF Graph
  <2>4. ASSUME NEW a \in P PROVE Children(a) \subseteq P
    <3> SUFFICES ASSUME NEW b \in Children(a) PROVE b \in P
      OBVIOUS
    <3>1. a \in K /\ NameAt(name, a) \in Heap!Reachable(T, q)
      BY <2>2
    <3>2. PICK k \in MaskOf(heap, a) : ResolvedIn(heap, WordAt(heap, a, k)[2]) = b
      BY ReadsHere
    <3>3. b \in K
      BY <3>1, <3>2 DEF Graph
    <3>4. NameAt(name, b) \in Heap!Children(T, NameAt(name, a))
      BY <1>5, <3>1, <3>2, <3>3
    <3>5. NameAt(name, b) \in Heap!Reachable(T, q)
      BY <2>1, <3>1, <3>4 DEF Closed
    <3> QED BY <2>2, <3>3, <3>5
  <2>5. Covers(P)
    BY <2>3, <2>4 DEF Covers, FirstReached
  <2>6. Reached \subseteq P
    BY <2>5, ReachedIn
  <2> QED BY <2>2, <2>6
<1>9. Heap!Reachable(T, q) = {NameAt(name, a) : a \in Reached}
  BY <1>7, <1>8
<1>10. AbsTuples = Kept(T, q)
  <2>1. PICK A : A = AbsTuples
    OBVIOUS
  <2>2. /\ DOMAIN A = {NameAt(name, a) : a \in Reached}
        /\ \A a \in Reached : A[NameAt(name, a)] = FieldsIn(heap, name, a)
    BY <1>2, <2>1, TupleOf, TuplesHere, ZenonT(60)
  <2>3. \A m \in DOMAIN A : A[m] = T[m]
    BY <1>2, <1>3, <2>2
  <2>4. A = [m \in DOMAIN A |-> A[m]]
    BY <2>1 DEF AbsTuples
  <2>5. A = [m \in DOMAIN A |-> T[m]]
    BY <2>3, <2>4
  <2> QED BY <1>9, <2>1, <2>2, <2>5 DEF Kept
<1> QED BY <1>1, <1>10, TuplesHere DEF SeenAs

\* Two words that the program cannot tell apart in a field outside of the mask
Alike(x, w) == x = w \/ (x[1] = "tuple" /\ w[1] = "tuple")

\* A word of a field in H becomes x in G: what it leads to is moved by phi.
Carried(H, G, w, x, masked, phi) ==
    IF masked THEN x[1] = "tuple" /\ ResolvedIn(G, x[2]) = phi[ResolvedIn(H, w[2])]
    ELSE Alike(x, w)

\* phi takes the tuple at each address of K to the one that it has become.
Carries(H, N, R, K, G, M, Q, phi) ==
    /\ \A a \in K : /\ NameAt(M, phi[a]) = NameAt(N, a)
                    /\ FieldNumbers(G, phi[a]) = FieldNumbers(H, a)
                    /\ MaskOf(G, phi[a]) = MaskOf(H, a)
    /\ \A a \in K : \A k \in FieldNumbers(H, a) :
         Carried(H, G, WordAt(H, a, k), WordAt(G, phi[a], k), k \in MaskOf(H, a), phi)
    /\ DOMAIN Q = DOMAIN R
    /\ \A i \in DOMAIN R : ResolvedIn(G, Q[i][2]) = phi[ResolvedIn(H, R[i][2])]

Moved(phi, K) == {phi[a] : a \in K}

\* The program sees the same.
Looks(H, N, R, K, G, M, Q, E) ==
    /\ Graph(G, M, Q, E)
    /\ TuplesOf(G, M, E) = TuplesOf(H, N, K) /\ RootsOf(G, M, Q) = RootsOf(H, N, R)

LEMMA CarriedGraph ==
    ASSUME NEW H, NEW N, NEW R, NEW K, Graph(H, N, R, K), NEW G, NEW M, NEW Q, NEW phi,
           Carries(H, N, R, K, G, M, Q, phi)
    PROVE  Looks(H, N, R, K, G, M, Q, Moved(phi, K))
<1>1. PICK E : E = Moved(phi, K)
  OBVIOUS
<1>2. \A a \in K : phi[a] \in E
  BY <1>1 DEF Moved
<1>3. \A e \in E : \E a \in K : e = phi[a]
  BY <1>1 DEF Moved
<1>4. \A a \in K : /\ NameAt(M, phi[a]) = NameAt(N, a)
                   /\ FieldNumbers(G, phi[a]) = FieldNumbers(H, a)
                   /\ MaskOf(G, phi[a]) = MaskOf(H, a)
  BY DEF Carries
<1>5. /\ \A a \in K : NameAt(N, a) \in Names
      /\ \A a, b \in K : NameAt(N, a) = NameAt(N, b) => a = b
      /\ \A a \in K : MaskOf(H, a) \subseteq FieldNumbers(H, a)
  BY DEF Graph
<1>6. ASSUME NEW a \in K, NEW k \in MaskOf(H, a)
      PROVE  /\ WordAt(G, phi[a], k)[1] = "tuple" /\ WordAt(H, a, k)[1] = "tuple"
             /\ ResolvedIn(H, WordAt(H, a, k)[2]) \in K
             /\ ResolvedIn(G, WordAt(G, phi[a], k)[2]) = phi[ResolvedIn(H, WordAt(H, a, k)[2])]
  <2>1. k \in FieldNumbers(H, a)
    BY <1>5
  <2>2. Carried(H, G, WordAt(H, a, k), WordAt(G, phi[a], k), k \in MaskOf(H, a), phi)
    BY <2>1 DEF Carries
  <2>3. WordAt(H, a, k)[1] = "tuple" /\ ResolvedIn(H, WordAt(H, a, k)[2]) \in K
    BY DEF Graph
  <2> QED BY <2>2, <2>3 DEF Carried
<1>7. ASSUME NEW i \in DOMAIN R
      PROVE  /\ ResolvedIn(H, R[i][2]) \in K
             /\ ResolvedIn(G, Q[i][2]) = phi[ResolvedIn(H, R[i][2])]
  BY DEF Graph, Carries
<1>8. DOMAIN Q = DOMAIN R
  BY DEF Carries
<1>9. Graph(G, M, Q, E)
  <2>1. \A e \in E : NameAt(M, e) \in Names
    BY <1>3, <1>4, <1>5
  <2>2. ASSUME NEW d \in E, NEW e \in E, NameAt(M, d) = NameAt(M, e) PROVE d = e
    <3>1. PICK a \in K, b \in K : d = phi[a] /\ e = phi[b]
      BY <1>3
    <3> QED BY <1>4, <1>5, <2>2, <3>1
  <2>3. \A i \in DOMAIN Q : ResolvedIn(G, Q[i][2]) \in E
    BY <1>2, <1>7, <1>8
  <2>4. \A e \in E : MaskOf(G, e) \subseteq FieldNumbers(G, e)
    BY <1>3, <1>4, <1>5
  <2>5. ASSUME NEW e \in E, NEW k \in MaskOf(G, e)
        PROVE  WordAt(G, e, k)[1] = "tuple" /\ ResolvedIn(G, WordAt(G, e, k)[2]) \in E
    <3>1. PICK a \in K : e = phi[a]
      BY <1>3
    <3>2. k \in MaskOf(H, a)
      BY <1>4, <2>5, <3>1
    <3> QED BY <1>2, <1>6, <3>1, <3>2
  <2> QED BY <2>1, <2>2, <2>3, <2>4, <2>5 DEF Graph
<1>10. ASSUME NEW a \in K PROVE FieldsIn(G, M, phi[a]) = FieldsIn(H, N, a)
  <2>1. ASSUME NEW k \in FieldNumbers(H, a)
        PROVE  Means(G, M, WordAt(G, phi[a], k), k \in MaskOf(G, phi[a]))
                 = Means(H, N, WordAt(H, a, k), k \in MaskOf(H, a))
    <3>1. CASE k \in MaskOf(H, a)
      <4>1. k \in MaskOf(G, phi[a])
        BY <1>4, <3>1
      <4>2. NameAt(M, ResolvedIn(G, WordAt(G, phi[a], k)[2]))
              = NameAt(N, ResolvedIn(H, WordAt(H, a, k)[2]))
        BY <1>4, <1>6, <3>1
      <4>3. WordAt(G, phi[a], k)[1] = "tuple" /\ WordAt(H, a, k)[1] = "tuple"
        BY <1>6, <3>1
      <4> QED BY <3>1, <4>1, <4>2, <4>3 DEF Means
    <3>2. CASE k \notin MaskOf(H, a)
      <4>1. k \notin MaskOf(G, phi[a])
        BY <1>4, <3>2
      <4>2. Alike(WordAt(G, phi[a], k), WordAt(H, a, k))
        <5>1. Carried(H, G, WordAt(H, a, k), WordAt(G, phi[a], k), k \in MaskOf(H, a), phi)
          BY DEF Carries
        <5> QED BY <3>2, <5>1 DEF Carried
      <4>3. \A n : Atom(n)[1] = "atom"
        BY DEF Atom
      <4> QED BY <3>2, <4>1, <4>2, <4>3 DEF Means, Alike
    <3> QED BY <3>1, <3>2
  <2>2. FieldNumbers(G, phi[a]) = FieldNumbers(H, a)
    BY <1>4
  <2> QED BY <2>1, <2>2 DEF FieldsIn
<1>11. TuplesOf(G, M, E) = TuplesOf(H, N, K)
  <2>1. PICK S, T : S = TuplesOf(H, N, K) /\ T = TuplesOf(G, M, E)
    OBVIOUS
  <2>2. S = [m \in DOMAIN S |-> S[m]] /\ T = [m \in DOMAIN T |-> T[m]]
    BY <2>1 DEF TuplesOf
  <2>3. /\ DOMAIN S = {NameAt(N, a) : a \in K}
        /\ \A a \in K : S[NameAt(N, a)] = FieldsIn(H, N, a)
    <3>1. K \in SUBSET K
      OBVIOUS
    <3> QED BY <2>1, <3>1, TupleOf, ZenonT(60)
  <2>4. /\ DOMAIN T = {NameAt(M, e) : e \in E}
        /\ \A e \in E : T[NameAt(M, e)] = FieldsIn(G, M, e)
    <3>1. E \in SUBSET E
      OBVIOUS
    <3> QED BY <1>9, <2>1, <3>1, TupleOf, ZenonT(60)
  <2>5. DOMAIN S = DOMAIN T
    BY <1>2, <1>3, <1>4, <2>3, <2>4
  <2>6. \A m \in DOMAIN S : S[m] = T[m]
    <3> SUFFICES ASSUME NEW m \in DOMAIN S PROVE S[m] = T[m]
      OBVIOUS
    <3>1. PICK a \in K : m = NameAt(N, a)
      BY <2>3
    <3>2. S[m] = FieldsIn(H, N, a)
      BY <2>3, <3>1
    <3>3. T[NameAt(M, phi[a])] = FieldsIn(G, M, phi[a])
      BY <1>2, <2>4
    <3> QED BY <1>4, <1>10, <3>1, <3>2, <3>3
  <2> QED BY <2>1, <2>2, <2>5, <2>6
<1>12. RootsOf(G, M, Q) = RootsOf(H, N, R)
  <2>1. \A i \in DOMAIN R : NameAt(M, ResolvedIn(G, Q[i][2])) = NameAt(N, ResolvedIn(H, R[i][2]))
    BY <1>4, <1>7
  <2> QED BY <1>8, <2>1 DEF RootsOf
<1> QED BY <1>1, <1>9, <1>11, <1>12 DEF Looks

\* The heap that the program sees does not change.
Unseen == AbsTuples' = AbsTuples /\ AbsRoots' = AbsRoots

LEMMA NextSeen ==
    ASSUME NEW E, Graph(heap', name', roots', E)
    PROVE  /\ AbsTuples' = Kept(TuplesOf(heap', name', E), RootsOf(heap', name', roots'))
           /\ AbsRoots' = RootsOf(heap', name', roots')
<1>1. (\A K : Graph(heap, name, roots, K) =>
                SeenAs(TuplesOf(heap, name, K), RootsOf(heap, name, roots)))'
  BY GraphSeen, PTL
<1> QED BY <1>1 DEF SeenAs

LEMMA UnseenStep ==
    ASSUME NEW K, Graph(heap, name, roots, K), NEW E,
           Looks(heap, name, roots, K, heap', name', roots', E)
    PROVE  Unseen
<1>1. /\ AbsTuples = Kept(TuplesOf(heap, name, K), RootsOf(heap, name, roots))
      /\ AbsRoots = RootsOf(heap, name, roots)
  BY GraphSeen DEF SeenAs
<1>2. /\ AbsTuples' = Kept(TuplesOf(heap', name', E), RootsOf(heap', name', roots'))
      /\ AbsRoots' = RootsOf(heap', name', roots')
  BY NextSeen DEF Looks
<1> QED BY <1>1, <1>2 DEF Looks, Unseen

\* What the program sees stays when the words stay.
LEMMA SameUnseen ==
    ASSUME NEW K, Graph(heap, name, roots, K), UNCHANGED <<heap, name, roots>>
    PROVE  Unseen
<1>1. heap' = heap /\ name' = name /\ roots' = roots
  OBVIOUS
<1>2. Looks(heap, name, roots, K, heap', name', roots', K)
  BY <1>1 DEF Looks
<1> QED BY <1>2, UnseenStep

-----------------------------------------------------------------------------
(* The tuples that the invariant speaks of *)

LEMMA WordsAt ==
    \A H, s, o : /\ \A k : WordAt(H, <<s, o>>, k) = H[s][o + k + 1]
                 /\ FieldNumbers(H, <<s, o>>) = 0 .. SizeAt(H, s, o) - 1
                 /\ MaskOf(H, <<s, o>>) = MaskAt(H, s, o)
                 /\ \A N : NameAt(N, <<s, o>>) = N[s][o]
BY DEF WordAt, FieldNumbers, MaskOf, NameAt

LEMMA TupleStays ==
    ASSUME NEW H, NEW s, NEW o, IsTuple(H, s, o)
    PROVE  ResolvedIn(H, <<s, o>>) = <<s, o>>
<1>1. PICK h \in HeaderRecords : H[s][o] = Header(h) /\ ~ h.forward
  BY DEF IsTuple
<1>2. H[s][o][2] = h
  BY <1>1 DEF Header
<1> QED BY <1>1, <1>2 DEF ResolvedIn

LEMMA ForwardLeads ==
    ASSUME NEW H, NEW s, NEW o, NEW t, NEW c, IsForward(H, s, o, t, c)
    PROVE  ResolvedIn(H, <<s, o>>) = <<t, c>>
<1>1. PICK h \in HeaderRecords : H[s][o] = Header(h) /\ h.forward
  BY DEF IsForward
<1>2. H[s][o][2] = h
  BY <1>1 DEF Header
<1>3. H[s][o + 1] = Pointer(<<t, c>>)
  BY DEF IsForward
<1> QED BY <1>1, <1>2, <1>3 DEF ResolvedIn, Pointer

\* A word leads to one of the tuples K.
LeadsTo(H, word, K) == word[1] = "tuple" /\ ResolvedIn(H, word[2]) \in K

LEMMA GraphOf ==
    ASSUME NEW H, NEW N, NEW R \in Seq(Words), NEW K,
           \A a \in K : NameAt(N, a) \in Names,
           \A a, b \in K : NameAt(N, a) = NameAt(N, b) => a = b,
           \A a \in K : \E s, o : a = <<s, o>> /\ IsTuple(H, s, o),
           \A a \in K : \A k \in MaskOf(H, a) : LeadsTo(H, WordAt(H, a, k), K),
           \A i \in 1 .. Len(R) : LeadsTo(H, R[i], K)
    PROVE  Graph(H, N, R, K)
<1>1. ASSUME NEW a \in K PROVE MaskOf(H, a) \subseteq FieldNumbers(H, a)
  <2>1. PICK s, o : a = <<s, o>> /\ IsTuple(H, s, o)
    OBVIOUS
  <2>2. \A k \in MaskAt(H, s, o) : k \in 0 .. SizeAt(H, s, o) - 1
    BY <2>1, TupleFacts
  <2>3. MaskOf(H, <<s, o>>) = MaskAt(H, s, o) /\ FieldNumbers(H, <<s, o>>) = 0 .. SizeAt(H, s, o) - 1
    BY WordsAt
  <2>4. MaskOf(H, a) = MaskAt(H, s, o) /\ FieldNumbers(H, a) = 0 .. SizeAt(H, s, o) - 1
    BY <2>1, <2>3
  <2> QED BY <2>2, <2>4
<1>2. DOMAIN R = 1 .. Len(R)
  OBVIOUS
<1> QED BY <1>1, <1>2 DEF Graph, LeadsTo

LEMMA LiveGraph ==
    ASSUME NEW H, NEW N, NEW R \in Seq(Words), NEW s, NEW S, NEW L, Live(H, N, R, s, S, L)
    PROVE  Graph(H, N, R, At(s, S))
<1>1. PICK K : K = At(s, S)
  OBVIOUS
<1>2. \A a \in K : \E o \in S : a = <<s, o>>
  BY <1>1 DEF At
<1>3. \A o \in S : <<s, o>> \in K /\ IsTuple(H, s, o) /\ ResolvedIn(H, <<s, o>>) = <<s, o>>
  BY <1>1, TupleStays DEF At, Live
<1>4. ASSUME NEW word, PointsInto(word, s, S) PROVE LeadsTo(H, word, K)
  BY <1>3, <1>4 DEF PointsInto, Pointer, LeadsTo
<1>5. \A a \in K : \A k \in MaskOf(H, a) : LeadsTo(H, WordAt(H, a, k), K)
  <2> SUFFICES ASSUME NEW a \in K, NEW k \in MaskOf(H, a) PROVE LeadsTo(H, WordAt(H, a, k), K)
    OBVIOUS
  <2>1. PICK o \in S : a = <<s, o>>
    BY <1>2
  <2>2. k \in MaskAt(H, s, o) /\ WordAt(H, a, k) = H[s][o + k + 1]
    BY <2>1, WordsAt
  <2> QED BY <1>4, <2>2 DEF Live
<1>6. \A i \in 1 .. Len(R) : LeadsTo(H, R[i], K)
  BY <1>4 DEF Live
<1>7. \A a \in K : NameAt(N, a) \in Names
  BY <1>2, WordsAt DEF Live, Named
<1>8. ASSUME NEW a \in K, NEW b \in K, NameAt(N, a) = NameAt(N, b) PROVE a = b
  <2>1. PICK o \in S, p \in S : a = <<s, o>> /\ b = <<s, p>>
    BY <1>2
  <2>2. N[s][o] = N[s][p]
    BY <1>8, <2>1, WordsAt
  <2> QED BY <2>1, <2>2 DEF Live, Named
<1>9. \A a \in K : \E t, o : a = <<t, o>> /\ IsTuple(H, t, o)
  BY <1>2, <1>3
<1>10. Graph(H, N, R, K)
  BY <1>5, <1>6, <1>7, <1>8, <1>9, GraphOf
<1> QED BY <1>1, <1>10

\* The tuples of a collection: those to be copied and the copies
InBoth(f, U, C) == At(f, U) \cup At(1 - f, C)

Resolves(H, f, t, U, F, C) ==
    /\ \A o \in U : ResolvedIn(H, <<f, o>>) = <<f, o>>
    /\ \A o \in F : \E c \in C : ResolvedIn(H, <<f, o>>) = <<t, c>>
    /\ \A c \in C : ResolvedIn(H, <<t, c>>) = <<t, c>>

LEMMA CopyingLeads ==
    ASSUME NEW H, NEW N, NEW R, NEW f \in {0, 1}, NEW U, NEW F, NEW C, NEW L, NEW w, NEW i,
           Copying(H, N, R, f, U, F, C, L, w, i), NEW t, t = 1 - f
    PROVE  /\ Resolves(H, f, t, U, F, C)
           /\ \A word : PointsInto(word, f, U \cup F) \/ PointsInto(word, t, C)
                          => LeadsTo(H, word, InBoth(f, U, C))
<1>1. \A o \in U : ResolvedIn(H, <<f, o>>) = <<f, o>>
  BY TupleStays DEF Copying, OldSpace
<1>2. \A o \in F : \E c \in C : ResolvedIn(H, <<f, o>>) = <<t, c>>
  BY ForwardLeads DEF Copying, OldSpace
<1>4. \A c \in C : ResolvedIn(H, <<t, c>>) = <<t, c>>
  BY TupleStays DEF Copying, NewSpace
<1>5. ASSUME NEW word, PointsInto(word, f, U \cup F) \/ PointsInto(word, t, C)
      PROVE  LeadsTo(H, word, InBoth(f, U, C))
  <2>1. CASE PointsInto(word, t, C)
    <3>1. PICK c \in C : word = Pointer(<<t, c>>)
      BY <2>1 DEF PointsInto
    <3> QED BY <1>4, <3>1 DEF Pointer, LeadsTo, InBoth, At
  <2>2. CASE PointsInto(word, f, U \cup F)
    <3>1. PICK o \in U \cup F : word = Pointer(<<f, o>>)
      BY <2>2 DEF PointsInto
    <3>2. ResolvedIn(H, <<f, o>>) \in InBoth(f, U, C)
      BY <1>1, <1>2 DEF InBoth, At
    <3> QED BY <3>1, <3>2 DEF Pointer, LeadsTo
  <2> QED BY <1>5, <2>1, <2>2
<1> QED BY <1>1, <1>2, <1>4, <1>5 DEF Resolves

LEMMA CopyingGraph ==
    ASSUME NEW H, NEW N, NEW R \in Seq(Words), NEW f \in {0, 1}, NEW U, NEW F, NEW C, NEW L,
           NEW w, NEW i, Copying(H, N, R, f, U, F, C, L, w, i)
    PROVE  Graph(H, N, R, InBoth(f, U, C))
<1>1. PICK K, t : K = InBoth(f, U, C) /\ t = 1 - f
  OBVIOUS
<1>2. \A a \in K : (\E o \in U : a = <<f, o>>) \/ (\E c \in C : a = <<t, c>>)
  BY <1>1 DEF InBoth, At
<1>3. /\ OldSpace(H, f, U, F, C) /\ NewSpace(H, t, C, L) /\ Pointers(H, R, f, U, F, C, w, i)
      /\ NamedApart(N, f, U, C)
  BY <1>1 DEF Copying
<1>4. ASSUME NEW word, PointsInto(word, f, U \cup F) \/ PointsInto(word, t, C)
      PROVE  LeadsTo(H, word, K)
  BY <1>1, <1>4, CopyingLeads
<1>5. \A a \in K : \A k \in MaskOf(H, a) : LeadsTo(H, WordAt(H, a, k), K)
  <2> SUFFICES ASSUME NEW a \in K, NEW k \in MaskOf(H, a) PROVE LeadsTo(H, WordAt(H, a, k), K)
    OBVIOUS
  <2>1. CASE \E o \in U : a = <<f, o>>
    <3>1. PICK o \in U : a = <<f, o>>
      BY <2>1
    <3>2. k \in MaskAt(H, f, o) /\ WordAt(H, a, k) = H[f][o + k + 1]
      BY <3>1, WordsAt
    <3> QED BY <1>3, <1>4, <3>2 DEF OldSpace
  <2>2. CASE \E c \in C : a = <<t, c>>
    <3>1. PICK c \in C : a = <<t, c>>
      BY <2>2
    <3>2. k \in MaskAt(H, t, c) /\ WordAt(H, a, k) = H[t][c + k + 1]
      BY <3>1, WordsAt
    <3>3. PointsInto(WordAt(H, a, k), f, U \cup F) \/ PointsInto(WordAt(H, a, k), t, C)
      BY <1>1, <1>3, <3>2 DEF Pointers
    <3> QED BY <1>4, <3>3
  <2> QED BY <1>2, <2>1, <2>2
<1>6. \A j \in 1 .. Len(R) : LeadsTo(H, R[j], K)
  <2> SUFFICES ASSUME NEW j \in 1 .. Len(R) PROVE LeadsTo(H, R[j], K)
    OBVIOUS
  <2>1. PointsInto(R[j], f, U \cup F) \/ PointsInto(R[j], t, C)
    BY <1>1, <1>3 DEF Pointers
  <2> QED BY <1>4, <2>1
<1>7. /\ Named(N, f, U) /\ Named(N, t, C) /\ \A o \in U, c \in C : N[f][o] # N[t][c]
  BY <1>1, <1>3 DEF NamedApart
<1>8. \A a \in K : NameAt(N, a) \in Names
  BY <1>2, <1>7, WordsAt DEF Named
<1>9. ASSUME NEW a \in K, NEW b \in K, NameAt(N, a) = NameAt(N, b) PROVE a = b
  <2>1. CASE (\E o \in U : a = <<f, o>>) /\ (\E o \in U : b = <<f, o>>)
    <3>1. PICK o \in U, p \in U : a = <<f, o>> /\ b = <<f, p>>
      BY <2>1
    <3> QED BY <1>7, <1>9, <3>1, WordsAt DEF Named
  <2>2. CASE (\E c \in C : a = <<t, c>>) /\ (\E c \in C : b = <<t, c>>)
    <3>1. PICK o \in C, p \in C : a = <<t, o>> /\ b = <<t, p>>
      BY <2>2
    <3> QED BY <1>7, <1>9, <3>1, WordsAt DEF Named
  <2>3. CASE (\E o \in U : a = <<f, o>>) /\ (\E c \in C : b = <<t, c>>)
    BY <1>7, <1>9, <2>3, WordsAt
  <2>4. CASE (\E c \in C : a = <<t, c>>) /\ (\E o \in U : b = <<f, o>>)
    BY <1>7, <1>9, <2>4, WordsAt
  <2> QED BY <1>2, <2>1, <2>2, <2>3, <2>4
<1>10. \A a \in K : \E s, o : a = <<s, o>> /\ IsTuple(H, s, o)
  BY <1>2, <1>3 DEF OldSpace, NewSpace
<1>11. Graph(H, N, R, K)
  BY <1>5, <1>6, <1>8, <1>9, <1>10, GraphOf
<1> QED BY <1>1, <1>11

LEMMA RunningGraph ==
    ASSUME Running
    PROVE  \E K : Graph(heap, name, roots, K)
<1>1. roots \in Seq(Words) /\ from \in {0, 1} /\ (AtRest \/ InCopy \/ Copied)
  BY DEF Running, GcTypes
<1>2. CASE AtRest
  BY <1>1, <1>2, LiveGraph DEF AtRest
<1>3. CASE Copied
  BY <1>1, <1>3, LiveGraph DEF Copied
<1>4. CASE InCopy
  <2>1. PICK U, F, C, w, i : Copying(heap, name, roots, from, U, F, C, free, w, i)
    BY <1>4 DEF InCopy
  <2> QED BY <1>1, <2>1, CopyingGraph
<1> QED BY <1>1, <1>2, <1>3, <1>4

\* The tuple at o is in G what it is in H, but for addresses in fields that are
\* not in the mask.
Resembles(H, G, s, o) ==
    /\ G[s][o] = H[s][o]
    /\ \A k \in 0 .. SizeAt(H, s, o) - 1 :
         IF k \in MaskAt(H, s, o) THEN G[s][o + k + 1] = H[s][o + k + 1]
         ELSE Alike(G[s][o + k + 1], H[s][o + k + 1])

LEMMA LiveLooks ==
    ASSUME NEW H, NEW N, NEW R \in Seq(Words), NEW s, NEW S, NEW L, Live(H, N, R, s, S, L),
           NEW G, \A o \in S : Resembles(H, G, s, o), NEW M, \A o \in S : M[s][o] = N[s][o]
    PROVE  Looks(H, N, R, At(s, S), G, M, R, At(s, S))
<1>1. PICK K : K = At(s, S)
  OBVIOUS
<1>2. PICK phi : phi = [a \in K |-> a]
  OBVIOUS
<1>3. Graph(H, N, R, K)
  BY <1>1, LiveGraph
<1>4. \A a \in K : \E o \in S : a = <<s, o>>
  BY <1>1 DEF At
<1>5. \A a \in K : phi[a] = a
  BY <1>2
<1>6. ASSUME NEW o \in S
      PROVE  /\ ResolvedIn(G, <<s, o>>) = <<s, o>> /\ ResolvedIn(H, <<s, o>>) = <<s, o>>
             /\ SizeAt(G, s, o) = SizeAt(H, s, o) /\ MaskAt(G, s, o) = MaskAt(H, s, o)
  <2>1. G[s][o] = H[s][o] /\ IsTuple(H, s, o)
    BY DEF Resembles, Live
  <2>2. ResolvedIn(H, <<s, o>>) = <<s, o>>
    BY <2>1, TupleStays
  <2>3. PICK h \in HeaderRecords : G[s][o] = Header(h) /\ ~ h.forward
    BY <2>1 DEF IsTuple
  <2>4. ResolvedIn(G, <<s, o>>) = <<s, o>>
    BY <2>3, WordKinds DEF ResolvedIn
  <2> QED BY <2>1, <2>2, <2>4 DEF SizeAt, MaskAt
<1>7. ASSUME NEW word, PointsInto(word, s, S)
      PROVE  /\ word[1] = "tuple" /\ ResolvedIn(H, word[2]) \in K
             /\ ResolvedIn(G, word[2]) = phi[ResolvedIn(H, word[2])]
  <2>1. PICK o \in S : word = Pointer(<<s, o>>)
    BY <1>7 DEF PointsInto
  <2>2. word[1] = "tuple" /\ word[2] = <<s, o>> /\ <<s, o>> \in K
    BY <1>1, <2>1 DEF Pointer, At
  <2> QED BY <1>5, <1>6, <2>2
<1>8. ASSUME NEW a \in K
      PROVE  /\ NameAt(M, phi[a]) = NameAt(N, a) /\ FieldNumbers(G, phi[a]) = FieldNumbers(H, a)
             /\ MaskOf(G, phi[a]) = MaskOf(H, a)
  <2>1. PICK o \in S : a = <<s, o>>
    BY <1>4
  <2>2. M[s][o] = N[s][o] /\ SizeAt(G, s, o) = SizeAt(H, s, o) /\ MaskAt(G, s, o) = MaskAt(H, s, o)
    BY <1>6
  <2>3. /\ NameAt(M, <<s, o>>) = M[s][o] /\ NameAt(N, <<s, o>>) = N[s][o]
        /\ FieldNumbers(G, <<s, o>>) = 0 .. SizeAt(G, s, o) - 1 /\ MaskOf(G, <<s, o>>) = MaskAt(G, s, o)
        /\ FieldNumbers(H, <<s, o>>) = 0 .. SizeAt(H, s, o) - 1 /\ MaskOf(H, <<s, o>>) = MaskAt(H, s, o)
    BY WordsAt
  <2>4. phi[a] = <<s, o>>
    BY <1>5, <2>1
  <2> QED BY <2>1, <2>2, <2>3, <2>4
<1>9. ASSUME NEW a \in K, NEW k \in FieldNumbers(H, a)
      PROVE  Carried(H, G, WordAt(H, a, k), WordAt(G, phi[a], k), k \in MaskOf(H, a), phi)
  <2>1. PICK o \in S : a = <<s, o>>
    BY <1>4
  <2>2. /\ WordAt(H, a, k) = H[s][o + k + 1] /\ WordAt(G, phi[a], k) = G[s][o + k + 1]
        /\ k \in 0 .. SizeAt(H, s, o) - 1 /\ MaskOf(H, a) = MaskAt(H, s, o)
    <3>1. /\ WordAt(H, <<s, o>>, k) = H[s][o + k + 1] /\ WordAt(G, <<s, o>>, k) = G[s][o + k + 1]
          /\ FieldNumbers(H, <<s, o>>) = 0 .. SizeAt(H, s, o) - 1 /\ MaskOf(H, <<s, o>>) = MaskAt(H, s, o)
      BY WordsAt
    <3>2. phi[a] = <<s, o>>
      BY <1>5, <2>1
    <3> QED BY <1>9, <2>1, <3>1, <3>2
  <2>3. Resembles(H, G, s, o)
    OBVIOUS
  <2>4. CASE k \in MaskAt(H, s, o)
    <3>1. PointsInto(H[s][o + k + 1], s, S)
      BY <2>4 DEF Live
    <3>2. G[s][o + k + 1] = H[s][o + k + 1]
      BY <2>2, <2>3, <2>4 DEF Resembles
    <3> QED BY <1>7, <2>2, <2>4, <3>1, <3>2 DEF Carried
  <2>5. CASE k \notin MaskAt(H, s, o)
    BY <2>2, <2>3, <2>5 DEF Resembles, Carried
  <2> QED BY <2>4, <2>5
<1>10. ASSUME NEW i \in DOMAIN R PROVE ResolvedIn(G, R[i][2]) = phi[ResolvedIn(H, R[i][2])]
  <2>1. i \in 1 .. Len(R)
    OBVIOUS
  <2>2. PointsInto(R[i], s, S)
    BY <2>1 DEF Live
  <2> QED BY <1>7, <2>2
<1>11. Carries(H, N, R, K, G, M, R, phi)
  BY <1>8, <1>9, <1>10 DEF Carries
<1>12. Moved(phi, K) = K
  BY <1>5 DEF Moved
<1>13. Looks(H, N, R, K, G, M, R, K)
  BY <1>3, <1>11, <1>12, CarriedGraph
<1> QED BY <1>1, <1>13

\* A write behind the live tuples is not seen.
LEMMA BehindLooks ==
    ASSUME NEW H, Memory(H), NEW t \in {0, 1}, NEW N, NEW R \in Seq(Words), NEW C, NEW L,
           Live(H, N, R, t, C, L), NEW G, Below(H, G, t, L), NEW M, \A c \in C : M[t][c] = N[t][c]
    PROVE  Looks(H, N, R, At(t, C), G, M, R, At(t, C))
<1>1. ASSUME NEW c \in C PROVE Resembles(H, G, t, c)
  <2>1. IsTuple(H, t, c) /\ c + SizeAt(H, t, c) < L /\ L \in Nat
    BY DEF Live
  <2>2. c \in Nat /\ SizeAt(H, t, c) \in Nat /\ c + SizeAt(H, t, c) \in DOMAIN H[t]
    BY <2>1, TupleFacts
  <2>3. DOMAIN H[t] = 0 .. Cardinality(DOMAIN H[t]) - 1 /\ Cardinality(DOMAIN H[t]) \in Nat
    BY MemoryDomain
  <2>4. ASSUME NEW j \in 0 .. SizeAt(H, t, c) PROVE G[t][c + j] = H[t][c + j]
    <3>1. c + j \in DOMAIN H[t] /\ c + j < L
      BY <2>1, <2>2, <2>3
    <3> QED BY <3>1 DEF Below
  <2>5. G[t][c] = H[t][c]
    <3>1. 0 \in 0 .. SizeAt(H, t, c) /\ c + 0 = c
      BY <2>2
    <3> QED BY <2>4, <3>1
  <2>6. ASSUME NEW k \in 0 .. SizeAt(H, t, c) - 1 PROVE G[t][c + k + 1] = H[t][c + k + 1]
    <3>1. k + 1 \in 0 .. SizeAt(H, t, c) /\ c + (k + 1) = c + k + 1
      BY <2>2
    <3> QED BY <2>4, <3>1
  <2> QED BY <2>5, <2>6 DEF Resembles, Alike
<1> QED BY <1>1, LiveLooks

-----------------------------------------------------------------------------
(* The steps of the collector that copy nothing that is live *)

LEMMA StillUnseen ==
    ASSUME Running, UNCHANGED <<heap, name, roots>>
    PROVE  Unseen
<1>1. PICK K : Graph(heap, name, roots, K)
  BY RunningGraph
<1> QED BY <1>1, SameUnseen

LEMMA GrownAlike ==
    ASSUME GcTypes, SpacesGrow, NEW moved \in BOOLEAN, NEW G, G = grown(moved),
           NEW p \in DOMAIN heap[from]
    PROVE  Alike(G[from][p], heap[from][p])
<1>1. /\ from \in {0, 1} /\ to # from /\ size(from) \in Nat
      /\ p \in 0 .. size(from) - 1 /\ p < size(from)
  BY SizeTypes
<1> DEFINE dangling(word) ==
             IF moved /\ word[1] = "tuple" /\ word[2][1] = to
             THEN Pointer(<<Nowhere, word[2][2]>>) ELSE word
           n(s) == (IF s = to THEN 2 ELSE 1) * size(s)
<1>2. G = [s \in {0, 1} |-> [o \in 0 .. n(s) - 1 |->
                               IF o < size(s) THEN dangling(heap[s][o]) ELSE Atom(0)]]
  BY DEF grown
<1>3. G[from] = [o \in 0 .. n(from) - 1 |->
                   IF o < size(from) THEN dangling(heap[from][o]) ELSE Atom(0)]
  <2> HIDE DEF dangling, n
  <2> QED BY <1>1, <1>2
<1>4. p \in 0 .. n(from) - 1
  BY <1>1
<1>5. G[from][p] = dangling(heap[from][p])
  <2> HIDE DEF dangling, n
  <2> QED BY <1>1, <1>3, <1>4
<1>6. Alike(dangling(heap[from][p]), heap[from][p])
  BY DEF Alike, Pointer
<1> HIDE DEF dangling, n
<1> QED BY <1>5, <1>6

LEMMA GrownUnseen ==
    ASSUME Running, Quiet, NEW moved \in BOOLEAN, heap' = grown(moved), UNCHANGED <<name, roots>>
    PROVE  Unseen
<1>1. GcTypes /\ SpacesGrow /\ AtRest /\ roots \in Seq(Words)
  BY DEF Running, GcTypes
<1>2. PICK S \in SUBSET Nat, L \in 0 .. free : Live(heap, name, roots, from, S, L)
  BY <1>1 DEF AtRest
<1>3. PICK G : G = heap' /\ G = grown(moved)
  OBVIOUS
<1>4. IsGrown(G)
  BY <1>1, <1>3, GrownFacts
<1>5. \A o \in S : SameTuple(heap, G, from, o)
  BY <1>1, <1>2, <1>4, GrownTuples
<1>6. \A p \in DOMAIN heap[from] : Alike(G[from][p], heap[from][p])
  BY <1>1, <1>3, GrownAlike
<1>7. ASSUME NEW o \in S PROVE Resembles(heap, G, from, o)
  <2>1. /\ o \in Nat /\ SizeAt(heap, from, o) \in Nat
        /\ o + SizeAt(heap, from, o) \in DOMAIN heap[from]
    BY <1>2, TupleFacts DEF Live
  <2>2. size(from) \in Nat /\ DOMAIN heap[from] = 0 .. size(from) - 1
    BY <1>1, SizeTypes
  <2>3. ASSUME NEW k \in 0 .. SizeAt(heap, from, o) - 1
        PROVE  IF k \in MaskAt(heap, from, o)
               THEN G[from][o + k + 1] = heap[from][o + k + 1]
               ELSE Alike(G[from][o + k + 1], heap[from][o + k + 1])
    <3>1. o + k + 1 \in DOMAIN heap[from]
      BY <2>1, <2>2
    <3> QED BY <1>5, <1>6, <3>1 DEF SameTuple
  <2>4. G[from][o] = heap[from][o]
    BY <1>5 DEF SameTuple
  <2> QED BY <2>3, <2>4 DEF Resembles
<1>8. Looks(heap, name, roots, At(from, S), G, name, roots, At(from, S))
  BY <1>1, <1>2, <1>7, LiveLooks
<1>9. Looks(heap, name, roots, At(from, S), heap', name', roots', At(from, S))
  BY <1>3, <1>8
<1>10. Graph(heap, name, roots, At(from, S))
  BY <1>1, <1>2, LiveGraph
<1> QED BY <1>9, <1>10, UnseenStep

\* After the swap the copies are the tuples, and only their names are kept.
LEMMA SwapUnseen ==
    ASSUME Running, Swap
    PROVE  Unseen
<1>1. /\ name' = [name EXCEPT ![from] = [o \in 0 .. MaxHeap - 1 |-> None]]
      /\ heap' = heap /\ roots' = roots
  BY DEF Swap
<1>2. /\ GcTypes /\ SpacesGrow /\ roots \in Seq(Words) /\ Tables(name)
  BY DEF Running, GcTypes
<1>3. from \in {0, 1} /\ to \in {0, 1} /\ to # from
  BY <1>2, SizeTypes
<1>4. PICK C \in SUBSET Nat, L \in 0 .. free : Live(heap, name, roots, to, C, L)
  BY SwapCopied DEF Copied
<1>5. PICK M : M = name'
  OBVIOUS
<1>6. M[to] = name[to]
  BY <1>1, <1>2, <1>3, <1>5 DEF Tables
<1>7. \A o \in C : Resembles(heap, heap, to, o)
  BY DEF Resembles, Alike
<1>8. \A o \in C : M[to][o] = name[to][o]
  BY <1>6
<1>9. Looks(heap, name, roots, At(to, C), heap, M, roots, At(to, C))
  BY <1>2, <1>4, <1>7, <1>8, LiveLooks
<1>10. Looks(heap, name, roots, At(to, C), heap', name', roots', At(to, C))
  BY <1>1, <1>5, <1>9
<1>11. Graph(heap, name, roots, At(to, C))
  BY <1>2, <1>4, LiveGraph
<1> QED BY <1>10, <1>11, UnseenStep

\* A write behind the copies, when all has been copied
LEMMA BehindUnseen ==
    ASSUME Running, UNCHANGED roots, NEW C \in SUBSET Nat, NEW L,
           Live(heap, name, roots, to, C, L), Below(heap, heap', to, L),
           \A c \in C : name'[to][c] = name[to][c]
    PROVE  Unseen
<1>1. /\ GcTypes /\ SpacesGrow /\ roots \in Seq(Words) /\ Memory(heap)
  BY DEF Running, GcTypes
<1>2. to \in {0, 1}
  BY <1>1, SizeTypes
<1>3. PICK G, M : G = heap' /\ M = name'
  OBVIOUS
<1>4. Below(heap, G, to, L)
  BY <1>3
<1>5. \A c \in C : M[to][c] = name[to][c]
  BY <1>3
<1>6. Looks(heap, name, roots, At(to, C), G, M, roots, At(to, C))
  BY <1>1, <1>2, <1>4, <1>5, BehindLooks
<1>7. Looks(heap, name, roots, At(to, C), heap', name', roots', At(to, C))
  BY <1>3, <1>6
<1>8. Graph(heap, name, roots, At(to, C))
  BY <1>1, LiveGraph
<1> QED BY <1>7, <1>8, UnseenStep

\* Only the words count.
LEMMA SameWordsLook ==
    ASSUME NEW H, NEW N, NEW R, NEW K, Graph(H, N, R, K), NEW G, \A s \in {0, 1} : G[s] = H[s],
           \A a \in K : a[1] \in {0, 1}, \A a \in K : \A k \in MaskOf(H, a) : WordAt(H, a, k)[2][1] \in {0, 1},
           \A i \in DOMAIN R : R[i][2][1] \in {0, 1}
    PROVE  Looks(H, N, R, K, G, N, R, K)
<1>1. PICK phi : phi = [a \in K |-> a]
  OBVIOUS
<1>2. \A a \in K : phi[a] = a
  BY <1>1
<1>3. ASSUME NEW a, a[1] \in {0, 1}
      PROVE  /\ ResolvedIn(G, a) = ResolvedIn(H, a) /\ FieldNumbers(G, a) = FieldNumbers(H, a)
             /\ MaskOf(G, a) = MaskOf(H, a) /\ \A k : WordAt(G, a, k) = WordAt(H, a, k)
  BY <1>3 DEF ResolvedIn, FieldNumbers, MaskOf, WordAt, SizeAt, MaskAt
<1>4. ASSUME NEW a \in K, NEW k \in FieldNumbers(H, a)
      PROVE  Carried(H, G, WordAt(H, a, k), WordAt(G, phi[a], k), k \in MaskOf(H, a), phi)
  <2>1. WordAt(G, phi[a], k) = WordAt(H, a, k)
    BY <1>2, <1>3
  <2>2. CASE k \in MaskOf(H, a)
    <3>1. WordAt(H, a, k)[1] = "tuple" /\ ResolvedIn(H, WordAt(H, a, k)[2]) \in K
      BY <2>2 DEF Graph
    <3>2. ResolvedIn(G, WordAt(H, a, k)[2]) = ResolvedIn(H, WordAt(H, a, k)[2])
      BY <1>3, <2>2
    <3> QED BY <1>2, <2>1, <2>2, <3>1, <3>2 DEF Carried
  <2>3. CASE k \notin MaskOf(H, a)
    BY <2>1, <2>3 DEF Carried, Alike
  <2> QED BY <2>2, <2>3
<1>5. \A a \in K : /\ NameAt(N, phi[a]) = NameAt(N, a) /\ FieldNumbers(G, phi[a]) = FieldNumbers(H, a)
                   /\ MaskOf(G, phi[a]) = MaskOf(H, a)
  BY <1>2, <1>3
<1>6. \A i \in DOMAIN R : ResolvedIn(G, R[i][2]) = phi[ResolvedIn(H, R[i][2])]
  BY <1>2, <1>3 DEF Graph
<1>7. Carries(H, N, R, K, G, N, R, phi)
  BY <1>4, <1>5, <1>6 DEF Carries
<1>8. Moved(phi, K) = K
  BY <1>2 DEF Moved
<1> QED BY <1>7, <1>8, CarriedGraph

LEMMA CopyingLooks ==
    ASSUME NEW H, NEW N, NEW R \in Seq(Words), NEW f \in {0, 1}, NEW U, NEW F, NEW C, NEW L,
           NEW w, NEW i, Copying(H, N, R, f, U, F, C, L, w, i),
           NEW G, \A s \in {0, 1} : G[s] = H[s]
    PROVE  Looks(H, N, R, InBoth(f, U, C), G, N, R, InBoth(f, U, C))
<1>1. PICK K : K = InBoth(f, U, C)
  OBVIOUS
<1>2. PICK t \in {0, 1} : t = 1 - f
  OBVIOUS
<1>3. /\ OldSpace(H, f, U, F, C) /\ NewSpace(H, t, C, L) /\ Pointers(H, R, f, U, F, C, w, i)
  BY <1>2 DEF Copying
<1>4. \A a \in K : (\E o \in U : a = <<f, o>>) \/ (\E c \in C : a = <<t, c>>)
  BY <1>1, <1>2 DEF InBoth, At
<1>5. ASSUME NEW word, PointsInto(word, f, U \cup F) \/ PointsInto(word, t, C)
      PROVE  word[2][1] \in {0, 1}
  BY <1>5 DEF PointsInto, Pointer
<1>6. \A a \in K : a[1] \in {0, 1}
  BY <1>4
<1>7. \A a \in K : \A k \in MaskOf(H, a) : WordAt(H, a, k)[2][1] \in {0, 1}
  <2> SUFFICES ASSUME NEW a \in K, NEW k \in MaskOf(H, a) PROVE WordAt(H, a, k)[2][1] \in {0, 1}
    OBVIOUS
  <2>1. CASE \E o \in U : a = <<f, o>>
    <3>1. PICK o \in U : a = <<f, o>>
      BY <2>1
    <3>2. k \in MaskAt(H, f, o) /\ WordAt(H, a, k) = H[f][o + k + 1]
      BY <3>1, WordsAt
    <3> QED BY <1>3, <1>5, <3>2 DEF OldSpace
  <2>2. CASE \E c \in C : a = <<t, c>>
    <3>1. PICK c \in C : a = <<t, c>>
      BY <2>2
    <3>2. k \in MaskAt(H, t, c) /\ WordAt(H, a, k) = H[t][c + k + 1]
      BY <3>1, WordsAt
    <3>3. PointsInto(WordAt(H, a, k), f, U \cup F) \/ PointsInto(WordAt(H, a, k), t, C)
      BY <1>2, <1>3, <3>2 DEF Pointers
    <3> QED BY <1>5, <3>3
  <2> QED BY <1>4, <2>1, <2>2
<1>8. \A j \in DOMAIN R : R[j][2][1] \in {0, 1}
  <2> SUFFICES ASSUME NEW j \in DOMAIN R PROVE R[j][2][1] \in {0, 1}
    OBVIOUS
  <2>1. j \in 1 .. Len(R)
    OBVIOUS
  <2>2. PointsInto(R[j], f, U \cup F) \/ PointsInto(R[j], t, C)
    BY <1>2, <1>3, <2>1 DEF Pointers
  <2> QED BY <1>5, <2>2
<1>9. Graph(H, N, R, K)
  BY <1>1, CopyingGraph
<1>10. Looks(H, N, R, K, G, N, R, K)
  BY <1>6, <1>7, <1>8, <1>9, SameWordsLook
<1> QED BY <1>1, <1>10

LEMMA ScanTupleUnseen ==
    ASSUME Running, ScanTuple
    PROVE  Unseen
<1>1. pc = "scan" /\ scan <= free
  BY DEF ScanTuple, MoreToScan
<1>2. /\ GcTypes /\ SpacesGrow /\ (InCopy \/ Copied)
  BY <1>1 DEF Running, Quiet
<1>3. CASE scan >= size(to)
  <2>1. UNCHANGED <<heap, name, roots>>
    BY <1>3 DEF ScanTuple, Stop
  <2> QED BY <2>1, StillUnseen
<1>4. CASE ~ scan >= size(to)
  <2>1. PICK h \in AsHeader(heap[to][scan]) :
          /\ heap' = [heap EXCEPT ![to][scan] = Header(h)]
          /\ UNCHANGED <<name, roots>>
    BY <1>4 DEF ScanTuple
  <2>2. /\ Memory(heap) /\ from \in {0, 1} /\ to \in {0, 1} /\ to = 1 - from
        /\ DOMAIN heap[to] = 0 .. size(to) - 1 /\ size(to) \in Nat
        /\ scan \in Nat /\ free \in Nat /\ roots \in Seq(Words)
    BY <1>2, SizeTypes DEF GcTypes
  <2>3. scan \in DOMAIN heap[to]
    BY <1>4, <2>2
  <2>4. Header(h) \in Words
    <3>1. heap[to][scan] \in Words
      BY <2>2, <2>3, MemoryDomain
    <3> QED BY <3>1, HeaderTaken DEF Words
  <2>5. PICK G : G = heap' /\ G = Written(heap, to, scan, Header(h))
    BY <2>1 DEF Written
  <2>6. IsWritten(heap, G, to, scan, Header(h))
    BY <2>2, <2>3, <2>4, <2>5, WrittenFacts
  <2>7. ASSUME NEW C \in SUBSET Nat, NEW L, Live(heap, name, roots, to, C, L), L <= scan
        PROVE  Unseen
    <3>1. L \in Nat
      BY <2>7 DEF Live
    <3>2. Below(heap, G, to, L)
      <4>1. /\ DOMAIN G[to] = DOMAIN heap[to]
            /\ \A p \in DOMAIN heap[to] : p # scan => G[to][p] = heap[to][p]
        BY <2>2, <2>6 DEF IsWritten
      <4>2. \A p \in DOMAIN heap[to] : p < L => p # scan
        BY <2>2, <2>7, <3>1
      <4> QED BY <4>1, <4>2 DEF Below
    <3>3. Below(heap, heap', to, L)
      BY <2>5, <3>2
    <3>4. \A c \in C : name'[to][c] = name[to][c]
      BY <2>1
    <3> QED BY <2>1, <2>7, <3>3, <3>4, BehindUnseen
  <2>8. CASE InCopy
    <3>1. PICK U \in SUBSET Nat, F \in SUBSET Nat, C \in SUBSET Nat :
            /\ scan \in C \cup {free}
            /\ Copying(heap, name, roots, from, U, F, C, free, scan, Len(roots))
      BY <1>1, <2>8 DEF InCopy
    <3>2. CASE scan \in C
      <4>1. IsTuple(heap, to, scan)
        BY <2>2, <3>1, <3>2 DEF Copying, NewSpace
      <4>2. PICK e : heap[to][scan] = Header(e)
        BY <4>1 DEF IsTuple
      <4>3. heap[to][scan] = Header(h)
        BY <4>2, HeaderItself
      <4>4. \A s \in {0, 1} : G[s] = heap[s]
        <5>1. /\ DOMAIN G[to] = DOMAIN heap[to] /\ Memory(G)
              /\ \A p \in DOMAIN heap[to] : G[to][p] = heap[to][p]
          BY <2>2, <2>6, <4>3 DEF IsWritten
        <5>2. heap[to] \in [DOMAIN heap[to] -> Words] /\ G[to] \in [DOMAIN heap[to] -> Words]
          BY <2>2, <5>1, MemoryDomain
        <5>3. G[to] = heap[to]
          BY <5>1, <5>2
        <5>4. \A s \in {0, 1} : s # to => G[s] = heap[s]
          BY <2>6 DEF IsWritten
        <5> QED BY <5>3, <5>4
      <4>5. Looks(heap, name, roots, InBoth(from, U, C), G, name, roots, InBoth(from, U, C))
        BY <2>2, <3>1, <4>4, CopyingLooks
      <4>6. Looks(heap, name, roots, InBoth(from, U, C), heap', name', roots', InBoth(from, U, C))
        BY <2>1, <2>5, <4>5
      <4>7. Graph(heap, name, roots, InBoth(from, U, C))
        BY <2>2, <3>1, CopyingGraph
      <4> QED BY <4>6, <4>7, UnseenStep
    <3>3. CASE scan = free
      <4>1. Live(heap, name, roots, to, C, free)
        BY <2>2, <3>1, <3>3, CopyingEnds
      <4>2. free <= scan
        BY <2>2, <3>3
      <4> QED BY <2>7, <4>1, <4>2
    <3> QED BY <3>1, <3>2, <3>3
  <2>9. CASE Copied
    <3>1. PICK C \in SUBSET Nat, L \in 0 .. free : Live(heap, name, roots, to, C, L) /\ L <= scan
      BY <2>9 DEF Copied
    <3> QED BY <2>7, <3>1
  <2> QED BY <1>2, <2>8, <2>9
<1> QED BY <1>3, <1>4

\* A field of junk
LEMMA JunkUnseen ==
    ASSUME Running, Copied, pc = "fields", NEW h \in HeaderRecords, heap[to][tuple] = Header(h),
           index < h.size, tuple + index + 1 < size(to),
           NEW copy \in gc_copy_tuple(heap[to][tuple + index + 1]), copy.stop = "no",
           heap' = tuple_set_tuple(copy.heap, to, tuple, index, copy.word),
           name' = copy.name, UNCHANGED roots
    PROVE  Unseen
<1>1. PICK C \in SUBSET Nat, L \in 0 .. free :
        Live(heap, name, roots, to, C, L) /\ L <= tuple
  BY DEF Copied
<1>2. PICK G, M : G = heap' /\ M = copy.name
  OBVIOUS
<1>3. StaysBelow(G, M, C, L)
  <2>1. G = tuple_set_tuple(copy.heap, to, tuple, index, copy.word)
    BY <1>2
  <2> QED BY <1>1, <1>2, <2>1, JunkField
<1>4. Below(heap, heap', to, L)
  BY <1>2, <1>3 DEF StaysBelow
<1>5. \A c \in C : name'[to][c] = name[to][c]
  BY <1>2, <1>3 DEF StaysBelow
<1> QED BY <1>1, <1>4, <1>5, BehindUnseen

-----------------------------------------------------------------------------
(* The copy of a tuple *)

\* phi takes the tuple at p to its copy.
Copies(f, t, p, L, K) == [a \in K |-> IF a = <<f, p>> THEN <<t, L>> ELSE a]

Copier(phi, f, t, U, C, p, L) ==
    /\ phi[<<f, p>>] = <<t, L>>
    /\ \A o \in U : o # p => phi[<<f, o>>] = <<f, o>>
    /\ \A c \in C : phi[<<t, c>>] = <<t, c>>
    /\ Moved(phi, InBoth(f, U, C)) = InBoth(f, U \ {p}, C \cup {L})

LEMMA CopiesFacts ==
    ASSUME NEW f \in {0, 1}, NEW t, t = 1 - f, NEW U, NEW C, NEW p \in U, NEW L, NEW phi,
           phi = Copies(f, t, p, L, InBoth(f, U, C))
    PROVE  Copier(phi, f, t, U, C, p, L)
<1>1. PICK K : K = InBoth(f, U, C)
  OBVIOUS
<1>2. t # f
  OBVIOUS
<1>3. (\A o \in U : <<f, o>> \in K) /\ (\A c \in C : <<t, c>> \in K)
      /\ \A a \in K : (\E o \in U : a = <<f, o>>) \/ (\E c \in C : a = <<t, c>>)
  BY <1>1 DEF InBoth, At
<1>4. phi = [a \in K |-> IF a = <<f, p>> THEN <<t, L>> ELSE a]
  BY <1>1 DEF Copies
<1>5. phi[<<f, p>>] = <<t, L>>
  BY <1>3, <1>4
<1>6. \A o \in U : o # p => phi[<<f, o>>] = <<f, o>>
  BY <1>3, <1>4
<1>7. \A c \in C : phi[<<t, c>>] = <<t, c>>
  BY <1>2, <1>3, <1>4
<1>8. Moved(phi, K) = InBoth(f, U \ {p}, C \cup {L})
  <2>1. \A a \in Moved(phi, K) : a \in InBoth(f, U \ {p}, C \cup {L})
    <3> SUFFICES ASSUME NEW a \in K PROVE phi[a] \in InBoth(f, U \ {p}, C \cup {L})
      BY DEF Moved
    <3>1. CASE \E o \in U : a = <<f, o>>
      <4>1. PICK o \in U : a = <<f, o>>
        BY <3>1
      <4>2. phi[a] = IF o = p THEN <<t, L>> ELSE <<f, o>>
        BY <1>5, <1>6, <4>1
      <4> QED BY <1>1, <4>2 DEF InBoth, At
    <3>2. CASE \E c \in C : a = <<t, c>>
      BY <1>1, <1>7, <3>2 DEF InBoth, At
    <3> QED BY <1>3, <3>1, <3>2
  <2>2. ASSUME NEW a \in InBoth(f, U \ {p}, C \cup {L}) PROVE a \in Moved(phi, K)
    <3>1. \/ \E o \in U \ {p} : a = <<f, o>>
          \/ \E c \in C \cup {L} : a = <<t, c>>
      BY <1>1 DEF InBoth, At
    <3>2. CASE \E o \in U \ {p} : a = <<f, o>>
      BY <1>3, <1>6, <3>2 DEF Moved
    <3>3. CASE a = <<t, L>>
      BY <1>3, <1>5, <3>3 DEF Moved
    <3>4. CASE \E c \in C : a = <<t, c>>
      BY <1>3, <1>7, <3>4 DEF Moved
    <3> QED BY <3>1, <3>2, <3>3, <3>4
  <2> QED BY <2>1, <2>2
<1> QED BY <1>1, <1>5, <1>6, <1>7, <1>8 DEF Copier

\* G, with the names M, is the heap after the tuple at p has been copied.
CopiedTo(G, M, p, h) ==
    /\ HeaderOk(h) /\ heap[from][p] = Header(h)
    /\ p + h.size < size(from) /\ free + h.size < size(to)
    /\ HasCopied(G, p, h)
    /\ M[from] = name[from] /\ M[to][free] = name[from][p]
    /\ \A q : q # free => M[to][q] = name[to][q]

\* Where the words lead after the copy
CopyLeads(G, U, F, C, p) ==
    /\ ResolvedIn(G, <<from, p>>) = <<to, free>>
    /\ \A o \in U : o # p => ResolvedIn(G, <<from, o>>) = <<from, o>>
    /\ \A o \in F \ U : ResolvedIn(G, <<from, o>>) = ResolvedIn(heap, <<from, o>>)
    /\ \A c \in C : ResolvedIn(G, <<to, c>>) = <<to, c>>

\* What the words of a tuple are after the copy
CopyWords(G, U, F, C, p, h) ==
    /\ \A o \in U \cup F : o # p => SameWords(heap, G, from, o)
    /\ \A c \in C : SameWords(heap, G, to, c)
    /\ G[to][free] = Header(h)
    /\ \A k \in 0 .. h.size - 1 : G[to][free + k + 1] = heap[from][p + k + 1]
    /\ G[from][p] = Forwarded(h) /\ G[from][p + 1] = Pointer(<<to, free>>)

LEMMA CopyWordsAre ==
    ASSUME Memory(heap), Sized, free \in Nat, NEW U \in SUBSET Nat, NEW F \in SUBSET Nat,
           NEW C \in SUBSET Nat, OldSpace(heap, from, U, F, C), NewSpace(heap, to, C, free),
           NEW p \in U, NEW G, NEW M, NEW h, CopiedTo(G, M, p, h)
    PROVE  CopyWords(G, U, F, C, p, h)
<1>1. /\ from \in {0, 1} /\ to \in {0, 1} /\ to # from
  BY DEF Sized, to
<1>2. /\ size(from) \in Nat /\ DOMAIN heap[from] = 0 .. size(from) - 1
      /\ size(to) \in Nat /\ DOMAIN heap[to] = 0 .. size(to) - 1
  BY <1>1, MemoryDomain DEF size
<1>3. h.size \in Nat /\ h.size > 0 /\ p \in Nat
  BY DEF CopiedTo, HeaderOk, HeaderRecords
<1>4. p + h.size < size(from) /\ free + h.size < size(to)
  BY DEF CopiedTo
<1>5. /\ \A q \in DOMAIN heap[to] :
           G[to][q] = IF q = free THEN Header(h)
                      ELSE IF q \in free .. free + h.size THEN heap[from][p + q - free]
                      ELSE heap[to][q]
      /\ \A q \in DOMAIN heap[from] :
           G[from][q] = IF q = p + 1 THEN Pointer(<<to, free>>)
                        ELSE IF q = p THEN Forwarded(h)
                        ELSE heap[from][q]
  BY DEF CopiedTo, HasCopied
<1>6. \A o \in U \cup F : o # p => SameWords(heap, G, from, o)
  <2>1. \A q \in DOMAIN heap[from] : q # p /\ q # p + 1 => G[from][q] = heap[from][q]
    BY <1>5
  <2> QED BY <1>1, <2>1, OldWordsKept
<1>7. ASSUME NEW c \in C PROVE SameWords(heap, G, to, c)
  <2>1. IsTuple(heap, to, c) /\ c + SizeAt(heap, to, c) < free
    BY DEF NewSpace
  <2>2. c \in Nat /\ SizeAt(heap, to, c) \in Nat /\ c + SizeAt(heap, to, c) \in DOMAIN heap[to]
    BY <2>1, TupleFacts
  <2>3. ASSUME NEW j \in 0 .. SizeAt(heap, to, c) PROVE G[to][c + j] = heap[to][c + j]
    <3>1. c + j \in 0 .. size(to) - 1 /\ c + j # free /\ c + j \notin free .. free + h.size
      BY <1>2, <1>3, <2>1, <2>2
    <3> QED BY <1>2, <1>5, <3>1
  <2> QED BY <2>3 DEF SameWords
<1>8. G[to][free] = Header(h)
  <2>1. free \in 0 .. size(to) - 1
    BY <1>2, <1>3, <1>4
  <2> QED BY <1>2, <1>5, <2>1
<1>9. ASSUME NEW k \in 0 .. h.size - 1 PROVE G[to][free + k + 1] = heap[from][p + k + 1]
  <2>1. /\ free + k + 1 \in 0 .. size(to) - 1 /\ free + k + 1 # free
        /\ free + k + 1 \in free .. free + h.size /\ p + (free + k + 1) - free = p + k + 1
    <3>1. k \in Nat /\ k < h.size /\ h.size \in Nat /\ p \in Nat /\ size(to) \in Nat
          /\ free + h.size < size(to) /\ free \in Nat
      BY <1>2, <1>3, <1>4
    <3> QED BY <3>1
  <2> QED BY <1>2, <1>5, <2>1
<1>10. G[from][p] = Forwarded(h) /\ G[from][p + 1] = Pointer(<<to, free>>)
  <2>1. p \in 0 .. size(from) - 1 /\ p + 1 \in 0 .. size(from) - 1 /\ p # p + 1
    BY <1>2, <1>3, <1>4
  <2> QED BY <1>2, <1>5, <2>1
<1> QED BY <1>6, <1>7, <1>8, <1>9, <1>10 DEF CopyWords

LEMMA FirstWords ==
    ASSUME NEW H, NEW G, NEW s, NEW o \in Nat, SizeAt(H, s, o) \in Nat \ {0}, SameWords(H, G, s, o)
    PROVE  G[s][o] = H[s][o] /\ G[s][o + 1] = H[s][o + 1]
           /\ \A k \in 0 .. SizeAt(H, s, o) - 1 : G[s][o + k + 1] = H[s][o + k + 1]
<1>1. 0 \in 0 .. SizeAt(H, s, o) /\ 1 \in 0 .. SizeAt(H, s, o) /\ o + 0 = o
  OBVIOUS
<1>2. G[s][o + 0] = H[s][o + 0] /\ G[s][o + 1] = H[s][o + 1]
  BY <1>1 DEF SameWords
<1>3. ASSUME NEW k \in 0 .. SizeAt(H, s, o) - 1 PROVE G[s][o + k + 1] = H[s][o + k + 1]
  <2>1. k + 1 \in 0 .. SizeAt(H, s, o) /\ o + (k + 1) = o + k + 1
    OBVIOUS
  <2>2. G[s][o + (k + 1)] = H[s][o + (k + 1)]
    BY <2>1 DEF SameWords
  <2> QED BY <2>1, <2>2
<1> QED BY <1>1, <1>2, <1>3

LEMMA StillTuple ==
    ASSUME NEW H, NEW G, NEW s, NEW o, IsTuple(H, s, o), G[s][o] = H[s][o]
    PROVE  ResolvedIn(G, <<s, o>>) = <<s, o>>
<1>1. PICK h \in HeaderRecords : H[s][o] = Header(h) /\ ~ h.forward
  BY DEF IsTuple
<1>2. G[s][o][2] = h
  BY <1>1, WordKinds
<1> QED BY <1>1, <1>2 DEF ResolvedIn

LEMMA CopyLeadsTo ==
    ASSUME NEW U \in SUBSET Nat, NEW F \in SUBSET Nat,
           NEW C \in SUBSET Nat, OldSpace(heap, from, U, F, C), NewSpace(heap, to, C, free),
           NEW p \in U, NEW G, NEW h, CopyWords(G, U, F, C, p, h), HeaderOk(h)
    PROVE  CopyLeads(G, U, F, C, p)
<1>1. \A o \in U \cup F : o \in Nat /\ SizeAt(heap, from, o) \in Nat \ {0}
  BY OldExtents
<1>2. ResolvedIn(G, <<from, p>>) = <<to, free>>
  <2>1. G[from][p] = Header([h EXCEPT !.forward = TRUE]) /\ G[from][p + 1] = Pointer(<<to, free>>)
    BY DEF CopyWords, Forwarded
  <2>2. G[from][p][2] = [h EXCEPT !.forward = TRUE] /\ G[from][p + 1][2] = <<to, free>>
    BY <2>1, WordKinds
  <2>3. [h EXCEPT !.forward = TRUE].forward
    BY DEF HeaderOk, HeaderRecords
  <2> QED BY <2>2, <2>3 DEF ResolvedIn
<1>3. ASSUME NEW o \in U, o # p PROVE ResolvedIn(G, <<from, o>>) = <<from, o>>
  <2>1. SameWords(heap, G, from, o)
    BY <1>3 DEF CopyWords
  <2>2. IsTuple(heap, from, o)
    BY DEF OldSpace
  <2>3. o \in Nat /\ SizeAt(heap, from, o) \in Nat \ {0}
    BY <1>1
  <2>4. G[from][o] = heap[from][o]
    BY <2>1, <2>3, FirstWords
  <2> QED BY <2>2, <2>4, StillTuple
<1>4. ASSUME NEW o \in F \ U PROVE ResolvedIn(G, <<from, o>>) = ResolvedIn(heap, <<from, o>>)
  <2>1. SameWords(heap, G, from, o)
    BY DEF CopyWords
  <2>3. o \in Nat /\ SizeAt(heap, from, o) \in Nat \ {0}
    BY <1>1
  <2>2. G[from][o] = heap[from][o] /\ G[from][o + 1] = heap[from][o + 1]
    BY <2>1, <2>3, FirstWords
  <2> QED BY <2>2 DEF ResolvedIn
<1>5. ASSUME NEW c \in C PROVE ResolvedIn(G, <<to, c>>) = <<to, c>>
  <2>1. SameWords(heap, G, to, c) /\ IsTuple(heap, to, c)
    BY DEF CopyWords, NewSpace
  <2>2. c \in Nat /\ SizeAt(heap, to, c) \in Nat \ {0}
    BY <2>1, TupleFacts
  <2>3. G[to][c] = heap[to][c]
    BY <2>1, <2>2, FirstWords
  <2> QED BY <2>1, <2>3, StillTuple
<1> QED BY <1>2, <1>3, <1>4, <1>5 DEF CopyLeads

\* The tuple at o of space s has become the one at q of space d.
Became(H, N, G, M, s, o, d, q) ==
    /\ M[d][q] = N[s][o]
    /\ SizeAt(G, d, q) = SizeAt(H, s, o) /\ MaskAt(G, d, q) = MaskAt(H, s, o)
    /\ \A k \in 0 .. SizeAt(H, s, o) - 1 : G[d][q + k + 1] = H[s][o + k + 1]

LEMMA StillBecame ==
    ASSUME NEW H, NEW N, NEW G, NEW M, NEW s, NEW o, IsTuple(H, s, o), SameWords(H, G, s, o),
           M[s][o] = N[s][o]
    PROVE  Became(H, N, G, M, s, o, s, o)
<1>1. o \in Nat /\ SizeAt(H, s, o) \in Nat \ {0}
  BY TupleFacts
<1>2. G[s][o] = H[s][o] /\ \A k \in 0 .. SizeAt(H, s, o) - 1 : G[s][o + k + 1] = H[s][o + k + 1]
  BY <1>1, FirstWords
<1>3. SizeAt(G, s, o) = SizeAt(H, s, o) /\ MaskAt(G, s, o) = MaskAt(H, s, o)
  BY <1>2 DEF SizeAt, MaskAt
<1> QED BY <1>2, <1>3 DEF Became

CarriedAt(H, N, G, M, phi, a) ==
    /\ NameAt(M, phi[a]) = NameAt(N, a)
    /\ FieldNumbers(G, phi[a]) = FieldNumbers(H, a) /\ MaskOf(G, phi[a]) = MaskOf(H, a)
    /\ \A k \in FieldNumbers(H, a) :
         Carried(H, G, WordAt(H, a, k), WordAt(G, phi[a], k), k \in MaskOf(H, a), phi)

\* What a tuple and its words are taken to
LEMMA BecameCarried ==
    ASSUME NEW H, NEW N, NEW G, NEW M, NEW s, NEW o, NEW d, NEW q, Became(H, N, G, M, s, o, d, q),
           NEW phi, phi[<<s, o>>] = <<d, q>>,
           \A k \in MaskAt(H, s, o) :
             /\ H[s][o + k + 1][1] = "tuple"
             /\ ResolvedIn(G, H[s][o + k + 1][2]) = phi[ResolvedIn(H, H[s][o + k + 1][2])]
    PROVE  CarriedAt(H, N, G, M, phi, <<s, o>>)
<1>1. /\ \A k : WordAt(H, <<s, o>>, k) = H[s][o + k + 1]
      /\ FieldNumbers(H, <<s, o>>) = 0 .. SizeAt(H, s, o) - 1
      /\ MaskOf(H, <<s, o>>) = MaskAt(H, s, o)
      /\ NameAt(N, <<s, o>>) = N[s][o]
  BY WordsAt
<1>2. /\ \A k : WordAt(G, <<d, q>>, k) = G[d][q + k + 1]
      /\ FieldNumbers(G, <<d, q>>) = 0 .. SizeAt(G, d, q) - 1 /\ MaskOf(G, <<d, q>>) = MaskAt(G, d, q)
      /\ NameAt(M, <<d, q>>) = M[d][q]
  BY WordsAt
<1>3. /\ M[d][q] = N[s][o]
      /\ SizeAt(G, d, q) = SizeAt(H, s, o) /\ MaskAt(G, d, q) = MaskAt(H, s, o)
      /\ \A k \in 0 .. SizeAt(H, s, o) - 1 : G[d][q + k + 1] = H[s][o + k + 1]
  BY DEF Became
<1>4. ASSUME NEW k \in FieldNumbers(H, <<s, o>>)
      PROVE  Carried(H, G, WordAt(H, <<s, o>>, k), WordAt(G, phi[<<s, o>>], k),
                     k \in MaskOf(H, <<s, o>>), phi)
  <2>1. /\ WordAt(H, <<s, o>>, k) = H[s][o + k + 1]
        /\ WordAt(G, phi[<<s, o>>], k) = H[s][o + k + 1]
    BY <1>1, <1>2, <1>3
  <2>2. CASE k \in MaskAt(H, s, o)
    BY <1>1, <2>1, <2>2 DEF Carried
  <2>3. CASE k \notin MaskAt(H, s, o)
    BY <1>1, <2>1, <2>3 DEF Carried, Alike
  <2> QED BY <2>2, <2>3
<1>5. /\ NameAt(M, phi[<<s, o>>]) = NameAt(N, <<s, o>>)
      /\ FieldNumbers(G, phi[<<s, o>>]) = FieldNumbers(H, <<s, o>>)
      /\ MaskOf(G, phi[<<s, o>>]) = MaskOf(H, <<s, o>>)
  BY <1>1, <1>2, <1>3
<1> QED BY <1>4, <1>5 DEF CarriedAt

\* The program does not see the copy.
LEMMA CopyLooks ==
    ASSUME Memory(heap), Sized, free \in Nat, roots \in Seq(Words),
           NEW U \in SUBSET Nat, NEW F \in SUBSET Nat,
           NEW C \in SUBSET Nat, NEW w, NEW i, Copying(heap, name, roots, from, U, F, C, free, w, i),
           NEW p \in U, NEW G, NEW M, NEW h, CopiedTo(G, M, p, h)
    PROVE  Looks(heap, name, roots, InBoth(from, U, C), G, M, roots,
                 InBoth(from, U \ {p}, C \cup {free}))
<1>1. PICK t, K, phi : /\ t = to /\ K = InBoth(from, U, C)
                       /\ phi = Copies(from, to, p, free, InBoth(from, U, C))
  OBVIOUS
<1>2. from \in {0, 1} /\ t \in {0, 1} /\ t = 1 - from
  BY <1>1 DEF Sized, to
<1>3. OldSpace(heap, from, U, F, C) /\ NewSpace(heap, t, C, free)
      /\ Pointers(heap, roots, from, U, F, C, w, i)
  BY <1>2 DEF Copying
<1>4. HeaderOk(h) /\ heap[from][p] = Header(h) /\ h.size \in Nat
  BY DEF CopiedTo, HeaderOk, HeaderRecords
<1>5. CopyWords(G, U, F, C, p, h)
  BY <1>1, <1>3, CopyWordsAre
<1>6. CopyLeads(G, U, F, C, p)
  BY <1>1, <1>3, <1>4, <1>5, CopyLeadsTo
<1>7. /\ phi[<<from, p>>] = <<t, free>>
      /\ \A o \in U : o # p => phi[<<from, o>>] = <<from, o>>
      /\ \A c \in C : phi[<<t, c>>] = <<t, c>>
      /\ Moved(phi, K) = InBoth(from, U \ {p}, C \cup {free})
  <2>1. phi = Copies(from, t, p, free, InBoth(from, U, C))
    BY <1>1
  <2>2. Copier(phi, from, t, U, C, p, free)
    BY <1>2, <2>1, CopiesFacts
  <2> QED BY <1>1, <2>2 DEF Copier
<1>8. /\ \A a \in K : (\E o \in U : a = <<from, o>>) \/ (\E c \in C : a = <<t, c>>)
  BY <1>1, <1>2 DEF InBoth, At
<1>9. Graph(heap, name, roots, K)
  BY <1>1, <1>2, CopyingGraph
\* where a word leads
<1>10. ASSUME NEW word, PointsInto(word, from, U \cup F) \/ PointsInto(word, t, C)
       PROVE  /\ word[1] = "tuple"
              /\ ResolvedIn(G, word[2]) = phi[ResolvedIn(heap, word[2])]
  <2>0. /\ \A o \in U : ResolvedIn(heap, <<from, o>>) = <<from, o>>
        /\ \A o \in F : \E c \in C : ResolvedIn(heap, <<from, o>>) = <<t, c>>
        /\ \A c \in C : ResolvedIn(heap, <<t, c>>) = <<t, c>>
    <3>1. t = 1 - from
      BY <1>2
    <3>2. Resolves(heap, from, t, U, F, C)
      BY <1>2, <3>1, CopyingLeads
    <3> QED BY <3>2 DEF Resolves
  <2>1. CASE PointsInto(word, t, C)
    <3>1. PICK c \in C : word = Pointer(<<t, c>>)
      BY <2>1 DEF PointsInto
    <3>2. word[1] = "tuple" /\ word[2] = <<t, c>>
      BY <3>1, WordKinds
    <3>3. ResolvedIn(G, <<t, c>>) = <<t, c>>
      BY <1>1, <1>6 DEF CopyLeads
    <3> QED BY <1>7, <2>0, <3>2, <3>3
  <2>2. CASE PointsInto(word, from, U \cup F)
    <3>1. PICK o \in U \cup F : word = Pointer(<<from, o>>)
      BY <2>2 DEF PointsInto
    <3>2. word[1] = "tuple" /\ word[2] = <<from, o>>
      BY <3>1, WordKinds
    <3>3. CASE o = p
      <4>1. ResolvedIn(G, <<from, p>>) = <<t, free>>
        BY <1>1, <1>6 DEF CopyLeads
      <4>2. ResolvedIn(heap, <<from, p>>) = <<from, p>>
        BY <2>0
      <4> QED BY <1>7, <3>2, <3>3, <4>1, <4>2
    <3>4. CASE o \in U /\ o # p
      <4>1. ResolvedIn(G, <<from, o>>) = <<from, o>>
        BY <1>6, <3>4 DEF CopyLeads
      <4> QED BY <1>7, <2>0, <3>2, <3>4, <4>1
    <3>5. CASE o \in F \ U
      <4>1. ResolvedIn(G, <<from, o>>) = ResolvedIn(heap, <<from, o>>)
        BY <1>6, <3>5 DEF CopyLeads
      <4>2. PICK c \in C : ResolvedIn(heap, <<from, o>>) = <<t, c>>
        BY <2>0, <3>5
      <4> QED BY <1>7, <3>2, <4>1, <4>2
    <3> QED BY <3>3, <3>4, <3>5
  <2> QED BY <1>10, <2>1, <2>2
\* the tuple that each has become
<1>11. /\ SizeAt(heap, from, p) = h.size /\ MaskAt(heap, from, p) = h.mask
       /\ SizeAt(G, t, free) = h.size /\ MaskAt(G, t, free) = h.mask
  <2>1. heap[from][p][2] = h /\ G[t][free][2] = h
    BY <1>1, <1>4, <1>5, WordKinds DEF CopyWords
  <2> QED BY <2>1 DEF SizeAt, MaskAt
<1>12. \A q : q # free => M[t][q] = name[t][q]
  BY <1>1 DEF CopiedTo
<1>13. /\ M[from] = name[from] /\ M[t][free] = name[from][p]
  BY <1>1 DEF CopiedTo
<1>14. /\ Became(heap, name, G, M, from, p, t, free)
       /\ \A o \in U : o # p => Became(heap, name, G, M, from, o, from, o)
       /\ \A c \in C : Became(heap, name, G, M, t, c, t, c)
  <2>1. Became(heap, name, G, M, from, p, t, free)
    <3>1. \A k \in 0 .. SizeAt(heap, from, p) - 1 : G[t][free + k + 1] = heap[from][p + k + 1]
      BY <1>1, <1>5, <1>11 DEF CopyWords
    <3> QED BY <1>11, <1>13, <3>1 DEF Became
  <2>2. ASSUME NEW o \in U, o # p PROVE Became(heap, name, G, M, from, o, from, o)
    <3>1. SameWords(heap, G, from, o)
      BY <1>5, <2>2 DEF CopyWords
    <3>2. IsTuple(heap, from, o)
      BY <1>3 DEF OldSpace
    <3>3. M[from][o] = name[from][o]
      BY <1>13
    <3> QED BY <3>1, <3>2, <3>3, StillBecame
  <2>3. ASSUME NEW c \in C PROVE Became(heap, name, G, M, t, c, t, c)
    <3>1. SameWords(heap, G, t, c)
      BY <1>1, <1>5 DEF CopyWords
    <3>2. IsTuple(heap, t, c) /\ c + SizeAt(heap, t, c) < free
      BY <1>3 DEF NewSpace
    <3>3. c \in Nat /\ SizeAt(heap, t, c) \in Nat
      BY <3>2, TupleFacts
    <3>4. c # free
      BY <3>2, <3>3
    <3>5. M[t][c] = name[t][c]
      BY <1>12, <3>4
    <3>6. IsTuple(heap, t, c)
      BY <3>2
    <3> QED BY <3>1, <3>5, <3>6, StillBecame
  <2> QED BY <2>1, <2>2, <2>3
<1>15. ASSUME NEW a \in K PROVE CarriedAt(heap, name, G, M, phi, a)
  <2>1. ASSUME NEW s, NEW o, NEW d, NEW q, a = <<s, o>>, phi[<<s, o>>] = <<d, q>>,
               Became(heap, name, G, M, s, o, d, q),
               \A k \in MaskAt(heap, s, o) : PointsInto(heap[s][o + k + 1], from, U \cup F)
                                              \/ PointsInto(heap[s][o + k + 1], t, C)
        PROVE  CarriedAt(heap, name, G, M, phi, a)
    <3>1. \A k \in MaskAt(heap, s, o) :
             /\ heap[s][o + k + 1][1] = "tuple"
             /\ ResolvedIn(G, heap[s][o + k + 1][2]) = phi[ResolvedIn(heap, heap[s][o + k + 1][2])]
      BY <1>10, <2>1
    <3>2. CarriedAt(heap, name, G, M, phi, <<s, o>>)
      BY <2>1, <3>1, BecameCarried
    <3> QED BY <2>1, <3>2
  <2>2. CASE \E o \in U : a = <<from, o>>
    <3>1. PICK o \in U : a = <<from, o>>
      BY <2>2
    <3>2. \A k \in MaskAt(heap, from, o) : PointsInto(heap[from][o + k + 1], from, U \cup F)
                                              \/ PointsInto(heap[from][o + k + 1], t, C)
      BY <1>3 DEF OldSpace
    <3>3. CASE o = p
      <4>1. Became(heap, name, G, M, from, o, t, free) /\ phi[<<from, o>>] = <<t, free>>
        BY <1>7, <1>14, <3>3
      <4> QED BY <2>1, <3>1, <3>2, <4>1
    <3>4. CASE o # p
      <4>1. Became(heap, name, G, M, from, o, from, o) /\ phi[<<from, o>>] = <<from, o>>
        BY <1>7, <1>14, <3>4
      <4> QED BY <2>1, <3>1, <3>2, <4>1
    <3> QED BY <3>3, <3>4
  <2>3. CASE \E c \in C : a = <<t, c>>
    <3>1. PICK c \in C : a = <<t, c>>
      BY <2>3
    <3>2. \A k \in MaskAt(heap, t, c) : PointsInto(heap[t][c + k + 1], from, U \cup F)
                                              \/ PointsInto(heap[t][c + k + 1], t, C)
      BY <1>2, <1>3 DEF Pointers
    <3>3. Became(heap, name, G, M, t, c, t, c) /\ phi[<<t, c>>] = <<t, c>>
      BY <1>7, <1>14
    <3> QED BY <2>1, <3>1, <3>2, <3>3
  <2> QED BY <1>8, <2>2, <2>3
<1>16. ASSUME NEW j \in DOMAIN roots
       PROVE  ResolvedIn(G, roots[j][2]) = phi[ResolvedIn(heap, roots[j][2])]
  <2>1. j \in 1 .. Len(roots)
    OBVIOUS
  <2>2. PointsInto(roots[j], from, U \cup F) \/ PointsInto(roots[j], t, C)
    BY <1>2, <1>3, <2>1 DEF Pointers
  <2> QED BY <1>10, <2>2
<1>17. Carries(heap, name, roots, K, G, M, roots, phi)
  BY <1>15, <1>16 DEF Carries, CarriedAt
<1>18. Looks(heap, name, roots, K, G, M, roots, Moved(phi, K))
  BY <1>9, <1>17, CarriedGraph
<1> QED BY <1>1, <1>7, <1>18

\* What gc_copy_tuple does to a collection, and what the program sees of it
MovesUnseen(copy, p, V, E, D, U, F, C, w, i) ==
    /\ MovesTo(copy, V, E, D, U, F, C, w, i)
    /\ Looks(heap, name, roots, InBoth(from, U, C), copy.heap, copy.name, roots, InBoth(from, V, D))
    /\ ResolvedIn(copy.heap, copy.word[2]) = ResolvedIn(copy.heap, <<from, p>>)

LEMMA KnownUnseen ==
    ASSUME Memory(heap), Sized, roots \in Seq(Words),
           NEW U \in SUBSET Nat, NEW F \in SUBSET Nat,
           NEW C \in SUBSET Nat, NEW w, NEW i, Copying(heap, name, roots, from, U, F, C, free, w, i),
           NEW p \in F, NEW copy \in gc_copy_tuple(Pointer(<<from, p>>)), copy.stop = "no"
    PROVE  MovesUnseen(copy, p, U, F, C, U, F, C, w, i)
<1>1. from \in {0, 1}
  BY DEF Sized
<1>2. MovesTo(copy, U, F, C, U, F, C, w, i)
  BY <1>1, CopyKnown
<1>3. Graph(heap, name, roots, InBoth(from, U, C))
  BY <1>1, CopyingGraph
<1>5. PICK t : t = 1 - from
  OBVIOUS
<1>6. PICK c \in C : IsForward(heap, from, p, t, c)
  BY <1>5 DEF Copying, OldSpace
<1>10. copy.heap = heap /\ copy.name = name /\ copy.word = heap[from][p + 1]
  BY <1>5, <1>6, CopyKnownIs DEF KnownCopy
<1>4. Looks(heap, name, roots, InBoth(from, U, C), copy.heap, copy.name, roots, InBoth(from, U, C))
  BY <1>3, <1>10 DEF Looks
<1>7. ResolvedIn(heap, <<from, p>>) = <<t, c>>
  BY <1>6, ForwardLeads
<1>8. copy.word[2] = <<t, c>>
  BY <1>6, <1>10, WordKinds DEF IsForward
<1>9. ResolvedIn(heap, <<t, c>>) = <<t, c>>
  <2>1. IsTuple(heap, t, c)
    BY <1>5 DEF Copying, NewSpace
  <2> QED BY <2>1, TupleStays
<1> QED BY <1>2, <1>4, <1>7, <1>8, <1>9, <1>10 DEF MovesUnseen

LEMMA NewUnseen ==
    ASSUME Memory(heap), Tables(name), Sized, free \in Nat, roots \in Seq(Words),
           NEW U \in SUBSET Nat, NEW F \in SUBSET Nat, NEW C \in SUBSET Nat,
           NEW w \in Nat, w <= free, NEW i, Copying(heap, name, roots, from, U, F, C, free, w, i),
           NEW p \in U, NEW copy \in gc_copy_tuple(Pointer(<<from, p>>)), copy.stop = "no"
    PROVE  MovesUnseen(copy, p, U \ {p}, F \cup {p}, C \cup {free}, U, F, C, w, i)
<1>1. PICK t, G, M, V, E, D : /\ t = 1 - from /\ G = copy.heap /\ M = copy.name
                              /\ V = U \ {p} /\ E = F \cup {p} /\ D = C \cup {free}
  OBVIOUS
<1>2. MovesTo(copy, V, E, D, U, F, C, w, i)
  BY <1>1, CopyNew
<1>3. OldSpace(heap, from, U, F, C) /\ NewSpace(heap, t, C, free) /\ t = to
  BY <1>1 DEF Copying, to
<1>4. IsTuple(heap, from, p)
  BY <1>3 DEF OldSpace
<1>5. PICK h : NewCopy(copy, p, h)
  BY <1>4, CopyNewIs
<1>6. CopiedTo(G, M, p, h)
  BY <1>1, <1>5 DEF NewCopy, CopiedTo
<1>7. Looks(heap, name, roots, InBoth(from, U, C), G, M, roots, InBoth(from, V, D))
  BY <1>1, <1>6, CopyLooks
<1>8. CopyWords(G, U, F, C, p, h)
  BY <1>3, <1>6, CopyWordsAre
<1>9. CopyLeads(G, U, F, C, p)
  <2>1. HeaderOk(h)
    BY <1>5 DEF NewCopy
  <2> QED BY <1>3, <1>8, <2>1, CopyLeadsTo
<1>10. ResolvedIn(G, <<from, p>>) = <<t, free>>
  BY <1>3, <1>9 DEF CopyLeads
<1>11. copy.word[2] = <<t, free>>
  BY <1>3, <1>5, WordKinds DEF NewCopy
<1>12. ResolvedIn(G, <<t, free>>) = <<t, free>>
  <2>1. NewSpace(G, t, D, copy.free)
    BY <1>1, <1>2 DEF MovesTo, Copying
  <2>2. IsTuple(G, t, free)
    BY <1>1, <2>1 DEF NewSpace
  <2> QED BY <2>2, TupleStays
<1>13. MovesUnseen(copy, p, V, E, D, U, F, C, w, i)
  BY <1>1, <1>2, <1>7, <1>10, <1>11, <1>12 DEF MovesUnseen
<1> QED BY <1>1, <1>13

LEMMA WordUnseen ==
    ASSUME Memory(heap), Tables(name), Sized, free \in Nat, roots \in Seq(Words),
           NEW U \in SUBSET Nat, NEW F \in SUBSET Nat, NEW C \in SUBSET Nat,
           NEW w \in Nat, w <= free, NEW i, Copying(heap, name, roots, from, U, F, C, free, w, i),
           NEW word, PointsInto(word, from, U \cup F), NEW copy \in gc_copy_tuple(word),
           copy.stop = "no"
    PROVE  \E p \in U \cup F : /\ word = Pointer(<<from, p>>)
                               /\ \E V, E, D : MovesUnseen(copy, p, V, E, D, U, F, C, w, i)
<1>1. PICK p \in U \cup F : word = Pointer(<<from, p>>)
  BY DEF PointsInto
<1>2. copy \in gc_copy_tuple(Pointer(<<from, p>>))
  BY <1>1
<1>3. CASE p \in U
  BY <1>1, <1>2, <1>3, NewUnseen
<1>4. CASE p \in F
  BY <1>1, <1>2, <1>4, KnownUnseen
<1> QED BY <1>3, <1>4

\* A root that leads where it led
LEMMA RootLooks ==
    ASSUME NEW H, NEW N, NEW R, NEW K, Graph(H, N, R, K), NEW Q, DOMAIN Q = DOMAIN R,
           \A j \in DOMAIN R : ResolvedIn(H, Q[j][2]) = ResolvedIn(H, R[j][2])
    PROVE  Looks(H, N, R, K, H, N, Q, K)
<1>1. Graph(H, N, Q, K)
  BY DEF Graph
<1>2. RootsOf(H, N, Q) = RootsOf(H, N, R)
  BY DEF RootsOf
<1> QED BY <1>1, <1>2 DEF Looks

LEMMA LooksTwice ==
    ASSUME NEW H, NEW N, NEW R, NEW K, NEW G, NEW M, NEW Q, NEW E, Looks(H, N, R, K, G, M, Q, E),
           NEW J, NEW O, NEW S, NEW P, Looks(G, M, Q, E, J, O, S, P)
    PROVE  Looks(H, N, R, K, J, O, S, P)
BY DEF Looks

\* A field that leads where it led
LEMMA FieldLooks ==
    ASSUME NEW H, Memory(H), NEW N, NEW R \in Seq(Words), NEW f \in {0, 1}, NEW t \in {0, 1},
           t = 1 - f, NEW U, NEW F, NEW C, NEW L, NEW w, NEW i, Copying(H, N, R, f, U, F, C, L, w, i),
           NEW c \in C, NEW k \in MaskAt(H, t, c), NEW x \in Words, PointsInto(x, t, C),
           ResolvedIn(H, x[2]) = ResolvedIn(H, H[t][c + k + 1][2]),
           NEW G, G = StoredMask(H, t, c, k, x, MaskAt(H, t, c) \cup {k})
    PROVE  Looks(H, N, R, InBoth(f, U, C), G, N, R, InBoth(f, U, C))
<1>1. PICK K, phi : K = InBoth(f, U, C) /\ phi = [a \in K |-> a]
  OBVIOUS
<1>2. NewSpace(H, t, C, L) /\ OldSpace(H, f, U, F, C) /\ Pointers(H, R, f, U, F, C, w, i)
  BY DEF Copying
<1>3. Tuples(H, t, C)
  BY <1>2 DEF Tuples, NewSpace
<1>4. /\ IsTuple(H, t, c) /\ k \in 0 .. SizeAt(H, t, c) - 1
      /\ MaskAt(H, t, c) \in SUBSET (0 .. SizeAt(H, t, c) - 1)
  BY <1>2, TupleFacts DEF NewSpace
<1>5. PICK m \in SUBSET (0 .. SizeAt(H, t, c) - 1) :
        m = MaskAt(H, t, c) /\ m = MaskAt(H, t, c) \cup {k}
  BY <1>4
<1>6. FieldSet(H, G, t, C, c, k, x, m)
  <2>1. G = StoredMask(H, t, c, k, x, m)
    BY <1>5
  <2> QED BY <1>3, <1>4, <2>1, StoreApart
<1>7. /\ G[f] = H[f]
      /\ \A o \in C : o # c => SameTuple(H, G, t, o) /\ SameWords(H, G, t, o)
      /\ IsTuple(G, t, c) /\ SizeAt(G, t, c) = SizeAt(H, t, c) /\ MaskAt(G, t, c) = m
      /\ G[t][c + k + 1] = x
      /\ \A j \in 0 .. SizeAt(H, t, c) - 1 : j # k => G[t][c + j + 1] = H[t][c + j + 1]
  <2>1. f # t
    OBVIOUS
  <2> QED BY <1>6, <2>1 DEF FieldSet
<1>8. Graph(H, N, R, K) /\ Resolves(H, f, t, U, F, C)
  BY <1>1, CopyingGraph, CopyingLeads
<1>9. ASSUME NEW d \in C PROVE ResolvedIn(G, <<t, d>>) = <<t, d>>
  <2>1. CASE d = c
    <3>1. IsTuple(G, t, d)
      BY <1>7, <2>1
    <3> QED BY <3>1, TupleStays
  <2>2. CASE d # c
    <3>1. G[t][d] = H[t][d]
      BY <1>7, <2>2 DEF SameTuple
    <3>2. IsTuple(H, t, d)
      BY <1>2 DEF NewSpace
    <3> QED BY <3>1, <3>2, StillTuple
  <2> QED BY <2>1, <2>2
<1>10. ASSUME NEW word, PointsInto(word, f, U \cup F) \/ PointsInto(word, t, C)
       PROVE  /\ word[1] = "tuple" /\ ResolvedIn(G, word[2]) = ResolvedIn(H, word[2])
              /\ ResolvedIn(H, word[2]) \in K
  <2>1. CASE PointsInto(word, t, C)
    <3>1. PICK d \in C : word = Pointer(<<t, d>>)
      BY <2>1 DEF PointsInto
    <3>2. word[2] = <<t, d>>
      BY <3>1, WordKinds
    <3>3. ResolvedIn(H, <<t, d>>) = <<t, d>>
      BY <1>8 DEF Resolves
    <3>4. ResolvedIn(G, word[2]) = ResolvedIn(H, word[2])
      BY <1>9, <3>2, <3>3
    <3>5. LeadsTo(H, word, K)
      BY <1>1, <2>1, CopyingLeads
    <3> QED BY <3>4, <3>5 DEF LeadsTo
  <2>2. CASE PointsInto(word, f, U \cup F)
    <3>1. PICK o \in U \cup F : word = Pointer(<<f, o>>)
      BY <2>2, SMTT(40) DEF PointsInto
    <3>2. word[2] = <<f, o>>
      BY <3>1, WordKinds
    <3>3. ResolvedIn(G, <<f, o>>) = ResolvedIn(H, <<f, o>>)
      BY <1>7 DEF ResolvedIn
    <3>4. ResolvedIn(G, word[2]) = ResolvedIn(H, word[2])
      BY <3>2, <3>3
    <3>5. LeadsTo(H, word, K)
      BY <1>1, <2>2, CopyingLeads
    <3> QED BY <3>4, <3>5 DEF LeadsTo
  <2> QED BY <1>10, <2>1, <2>2
<1>11. (\A o \in U : <<f, o>> \in K) /\ (\A d \in C : <<t, d>> \in K)
       /\ \A a \in K : (\E o \in U : a = <<f, o>>) \/ (\E d \in C : a = <<t, d>>)
  BY <1>1 DEF InBoth, At
<1>12. \A a \in K : phi[a] = a
  BY <1>1
\* the words of the copies
<1>13. ASSUME NEW d \in C, NEW j \in MaskAt(H, t, d)
       PROVE  PointsInto(H[t][d + j + 1], f, U \cup F) \/ PointsInto(H[t][d + j + 1], t, C)
  BY <1>2 DEF Pointers
<1>14. ASSUME NEW o \in U PROVE CarriedAt(H, N, G, N, phi, <<f, o>>)
  <2>1. Became(H, N, G, N, f, o, f, o)
    BY <1>7 DEF Became, SizeAt, MaskAt
  <2>2. \A j \in MaskAt(H, f, o) : PointsInto(H[f][o + j + 1], f, U \cup F)
    BY <1>2 DEF OldSpace
  <2>3. \A j \in MaskAt(H, f, o) :
          /\ H[f][o + j + 1][1] = "tuple"
          /\ ResolvedIn(G, H[f][o + j + 1][2]) = phi[ResolvedIn(H, H[f][o + j + 1][2])]
    BY <1>10, <1>12, <2>2
  <2>4. phi[<<f, o>>] = <<f, o>>
    BY <1>11, <1>12
  <2> QED BY <2>1, <2>3, <2>4, BecameCarried
<1>15. ASSUME NEW d \in C, d # c PROVE CarriedAt(H, N, G, N, phi, <<t, d>>)
  <2>1. Became(H, N, G, N, t, d, t, d)
    <3>1. IsTuple(H, t, d)
      BY <1>2 DEF NewSpace
    <3>2. SameWords(H, G, t, d)
      BY <1>7, <1>15
    <3> QED BY <3>1, <3>2, StillBecame
  <2>3. \A j \in MaskAt(H, t, d) :
          /\ H[t][d + j + 1][1] = "tuple"
          /\ ResolvedIn(G, H[t][d + j + 1][2]) = phi[ResolvedIn(H, H[t][d + j + 1][2])]
    BY <1>10, <1>12, <1>13
  <2>4. phi[<<t, d>>] = <<t, d>>
    BY <1>11, <1>12
  <2> QED BY <2>1, <2>3, <2>4, BecameCarried
<1>16. CarriedAt(H, N, G, N, phi, <<t, c>>)
  <2>1. /\ \A j : WordAt(H, <<t, c>>, j) = H[t][c + j + 1] /\ WordAt(G, <<t, c>>, j) = G[t][c + j + 1]
        /\ FieldNumbers(H, <<t, c>>) = 0 .. SizeAt(H, t, c) - 1
        /\ FieldNumbers(G, <<t, c>>) = 0 .. SizeAt(G, t, c) - 1
        /\ MaskOf(H, <<t, c>>) = MaskAt(H, t, c) /\ MaskOf(G, <<t, c>>) = MaskAt(G, t, c)
    BY WordsAt
  <2>2. /\ FieldNumbers(G, <<t, c>>) = FieldNumbers(H, <<t, c>>) /\ MaskOf(G, <<t, c>>) = MaskOf(H, <<t, c>>)
    BY <1>5, <1>7, <2>1
  <2>3. ASSUME NEW j \in FieldNumbers(H, <<t, c>>)
        PROVE  Carried(H, G, WordAt(H, <<t, c>>, j), WordAt(G, <<t, c>>, j),
                       j \in MaskOf(H, <<t, c>>), phi)
    <3>1. CASE j = k
      <4>1. WordAt(G, <<t, c>>, j) = x /\ WordAt(H, <<t, c>>, j) = H[t][c + k + 1]
        BY <1>7, <2>1, <3>1
      <4>2. /\ x[1] = "tuple" /\ ResolvedIn(G, x[2]) = ResolvedIn(H, x[2])
            /\ ResolvedIn(H, x[2]) \in K
        BY <1>10
      <4>3. j \in MaskOf(H, <<t, c>>)
        BY <2>1, <3>1
      <4> QED BY <1>12, <4>1, <4>2, <4>3 DEF Carried
    <3>2. CASE j # k
      <4>1. WordAt(G, <<t, c>>, j) = H[t][c + j + 1] /\ WordAt(H, <<t, c>>, j) = H[t][c + j + 1]
        BY <1>7, <2>1, <2>3, <3>2
      <4>2. CASE j \in MaskOf(H, <<t, c>>)
        <5>1. j \in MaskAt(H, t, c)
          BY <2>1, <4>2
        <5>2. PointsInto(H[t][c + j + 1], f, U \cup F) \/ PointsInto(H[t][c + j + 1], t, C)
          BY <1>13, <5>1
        <5>3. /\ H[t][c + j + 1][1] = "tuple"
              /\ ResolvedIn(G, H[t][c + j + 1][2]) = ResolvedIn(H, H[t][c + j + 1][2])
              /\ ResolvedIn(H, H[t][c + j + 1][2]) \in K
          BY <1>10, <5>2
        <5> QED BY <1>12, <4>1, <4>2, <5>3 DEF Carried
      <4>3. CASE j \notin MaskOf(H, <<t, c>>)
        BY <4>1, <4>3 DEF Carried, Alike
      <4> QED BY <4>2, <4>3
    <3> QED BY <3>1, <3>2
  <2>4. phi[<<t, c>>] = <<t, c>>
    BY <1>11, <1>12
  <2> QED BY <2>2, <2>3, <2>4 DEF CarriedAt
<1>17. \A a \in K : CarriedAt(H, N, G, N, phi, a)
  BY <1>11, <1>14, <1>15, <1>16
<1>18. ASSUME NEW j \in DOMAIN R PROVE ResolvedIn(G, R[j][2]) = phi[ResolvedIn(H, R[j][2])]
  <2>1. j \in 1 .. Len(R)
    OBVIOUS
  <2>2. PointsInto(R[j], f, U \cup F) \/ PointsInto(R[j], t, C)
    BY <1>2, <2>1 DEF Pointers
  <2> QED BY <1>10, <1>12, <2>2
<1>19. Carries(H, N, R, K, G, N, R, phi)
  BY <1>17, <1>18 DEF Carries, CarriedAt
<1>20. Moved(phi, K) = K
  BY <1>12 DEF Moved
<1>21. Looks(H, N, R, K, G, N, R, K)
  BY <1>8, <1>19, <1>20, CarriedGraph
<1> QED BY <1>1, <1>21

-----------------------------------------------------------------------------
(* The steps that the program does not see *)

LEMMA RootCopiedUnseen ==
    ASSUME Memory(heap), Tables(name), Sized, free \in Nat, roots \in Seq(Words), index \in Nat,
           NEW U \in SUBSET Nat, NEW F \in SUBSET Nat, NEW C \in SUBSET Nat,
           Copying(heap, name, roots, from, U, F, C, free, 0, index), index < Len(roots),
           PointsInto(roots[index + 1], from, U \cup F),
           NEW copy \in gc_copy_tuple(roots[index + 1]), copy.stop = "no",
           heap' = copy.heap, name' = copy.name,
           roots' = [roots EXCEPT ![index + 1] = copy.word]
    PROVE  Unseen
<1>1. PICK word, G, M, Q : word = roots[index + 1] /\ G = copy.heap /\ M = copy.name /\ Q = roots'
  OBVIOUS
<1>2. \E p \in U \cup F : /\ word = Pointer(<<from, p>>)
                          /\ \E V, E, D : MovesUnseen(copy, p, V, E, D, U, F, C, 0, index)
  <2>1. 0 \in Nat /\ 0 <= free
    OBVIOUS
  <2>2. PointsInto(word, from, U \cup F) /\ copy \in gc_copy_tuple(word)
    BY <1>1
  <2> QED BY <2>1, <2>2, WordUnseen
<1>12. PICK p \in U \cup F : /\ word = Pointer(<<from, p>>)
                             /\ \E V, E, D : MovesUnseen(copy, p, V, E, D, U, F, C, 0, index)
  BY <1>2
<1>3. PICK V, E, D : MovesUnseen(copy, p, V, E, D, U, F, C, 0, index)
  BY <1>12
<1>4. /\ Looks(heap, name, roots, InBoth(from, U, C), G, M, roots, InBoth(from, V, D))
      /\ ResolvedIn(G, copy.word[2]) = ResolvedIn(G, <<from, p>>)
  BY <1>1, <1>3 DEF MovesUnseen
<1>5. Graph(G, M, roots, InBoth(from, V, D))
  BY <1>4 DEF Looks
<1>6. word[2] = <<from, p>>
  BY <1>12, WordKinds
<1>7. /\ DOMAIN Q = DOMAIN roots
      /\ \A j \in DOMAIN roots : ResolvedIn(G, Q[j][2]) = ResolvedIn(G, roots[j][2])
  <2>1. DOMAIN Q = DOMAIN roots
    BY <1>1
  <2>2. ASSUME NEW j \in DOMAIN roots PROVE ResolvedIn(G, Q[j][2]) = ResolvedIn(G, roots[j][2])
    <3>1. CASE j = index + 1
      <4>1. Q[j] = copy.word
        BY <1>1, <3>1
      <4> QED BY <1>1, <1>4, <1>6, <3>1, <4>1
    <3>2. CASE j # index + 1
      <4>1. Q[j] = roots[j]
        BY <1>1, <3>2
      <4> QED BY <4>1
    <3> QED BY <3>1, <3>2
  <2> QED BY <2>1, <2>2
<1>8. Looks(G, M, roots, InBoth(from, V, D), G, M, Q, InBoth(from, V, D))
  BY <1>5, <1>7, RootLooks
<1>9. Looks(heap, name, roots, InBoth(from, U, C), G, M, Q, InBoth(from, V, D))
  BY <1>4, <1>8, LooksTwice
<1>10. Looks(heap, name, roots, InBoth(from, U, C), heap', name', roots', InBoth(from, V, D))
  BY <1>1, <1>9
<1>11. Graph(heap, name, roots, InBoth(from, U, C))
  BY CopyingGraph DEF Sized
<1> QED BY <1>10, <1>11, UnseenStep

LEMMA CopyRootUnseen ==
    ASSUME Running, CopyRoot
    PROVE  Unseen
<1>1. pc = "roots" /\ index < Len(roots)
  BY DEF CopyRoot
<1>2. /\ GcTypes /\ SpacesGrow /\ ~ Quiet
  BY <1>1 DEF Running, Quiet
<1>3. InCopy
  BY <1>1, <1>2 DEF Running, Copied
<1>4. PICK copy \in gc_copy_tuple(roots[index + 1]) :
        IF copy.stop # "no" THEN Stop(copy.stop)
        ELSE /\ heap' = copy.heap /\ name' = copy.name /\ free' = copy.free
             /\ roots' = [roots EXCEPT ![index + 1] = copy.word]
             /\ index' = index + 1
             /\ UNCHANGED <<from, scan, tuple, want, pc, after>>
  BY DEF CopyRoot
<1>5. CASE copy.stop # "no"
  BY <1>4, <1>5, StillUnseen DEF Stop
<1>6. CASE copy.stop = "no"
  <2>1. /\ heap' = copy.heap /\ name' = copy.name
        /\ roots' = [roots EXCEPT ![index + 1] = copy.word]
    BY <1>4, <1>6
  <2>2. PICK U \in SUBSET Nat, F \in SUBSET Nat, C \in SUBSET Nat :
          /\ scan = 0
          /\ Copying(heap, name, roots, from, U, F, C, free, 0, index)
    BY <1>1, <1>3 DEF InCopy
  <2>3. /\ Memory(heap) /\ Tables(name) /\ roots \in Seq(Words) /\ free \in Nat /\ index \in Nat
        /\ Sized
    BY <1>2, SizeTypes DEF GcTypes
  <2>4. index + 1 \in 1 .. Len(roots) /\ ~ index + 1 <= index
    BY <1>1, <2>3
  <2>5. PointsInto(roots[index + 1], from, U \cup F)
    <3>1. IF index + 1 <= index THEN PointsInto(roots[index + 1], 1 - from, C)
          ELSE PointsInto(roots[index + 1], from, U \cup F)
      BY <2>2, <2>4 DEF Copying, Pointers
    <3> QED BY <2>4, <3>1
  <2> QED BY <1>1, <1>6, <2>1, <2>2, <2>3, <2>5, RootCopiedUnseen
<1> QED BY <1>5, <1>6

\* ScanField, of a copy
LEMMA FieldUnseen ==
    ASSUME Running, InCopy, pc = "fields", NEW h \in HeaderRecords, heap[to][tuple] = Header(h),
           index < h.size, index \in h.mask, tuple + index + 1 < size(to),
           NEW copy \in gc_copy_tuple(heap[to][tuple + index + 1]), copy.stop = "no",
           heap' = tuple_set_tuple(copy.heap, to, tuple, index, copy.word),
           name' = copy.name, UNCHANGED roots
    PROVE  Unseen
<1>1. GcTypes /\ SpacesGrow /\ InFields
  BY DEF Running
<1>2. /\ from \in {0, 1} /\ to \in {0, 1} /\ to = 1 - from /\ index \in Nat
      /\ tuple \in Nat /\ free \in Nat /\ h.size \in Nat /\ roots \in Seq(Words)
      /\ Memory(heap) /\ Tables(name) /\ Sized
      /\ size(to) \in Nat /\ DOMAIN heap[to] = 0 .. size(to) - 1
  BY <1>1, SizeTypes DEF GcTypes, to, HeaderRecords, InFields
<1>3. tuple + index + 1 \in DOMAIN heap[to]
  BY <1>2
<1>4. PICK word \in Words : word = heap[to][tuple + index + 1]
  BY <1>2, <1>3, MemoryDomain
<1>5. Took(copy)
  BY <1>2, <1>4, CopyTook
<1>6. PICK t, H, M, G, m : /\ t = to /\ H = copy.heap /\ M = copy.name /\ G = heap'
                           /\ m = MaskAt(H, to, tuple) \cup {index}
  OBVIOUS
<1>8. Memory(H) /\ copy.word \in Words
  BY <1>5, <1>6 DEF Took
<1>9. PICK U \in SUBSET Nat, F \in SUBSET Nat, C \in SUBSET Nat :
          /\ tuple \in C
          /\ Copying(heap, name, roots, from, U, F, C, free, tuple + index + 1, Len(roots))
  BY DEF InCopy
<1>10. SizeAt(heap, to, tuple) = h.size /\ MaskAt(heap, to, tuple) = h.mask
  BY WordKinds DEF SizeAt, MaskAt
<1>11. PICK w \in Nat : w = tuple + index + 1
  BY <1>2
<1>12. IsTuple(heap, to, tuple) /\ tuple + SizeAt(heap, to, tuple) < free
  BY <1>2, <1>9 DEF Copying, NewSpace
<1>7. G = StoredMask(H, t, tuple, index, copy.word, MaskAt(H, t, tuple) \cup {index})
  <2>1. SizeAt(heap, to, tuple) <= 24
    BY <1>12, TupleFacts
  <2>2. index \in 0 .. 23
    BY <1>2, <1>10, <2>1
  <2>3. tuple_set_tuple(H, t, tuple, index, copy.word) =
          StoredMask(H, t, tuple, index, copy.word, MaskAt(H, t, tuple) \cup {index})
    BY <2>2, SmallIndex DEF tuple_set_tuple, tuple_set_atom, StoredMask, MaskAt
  <2> QED BY <1>6, <2>3, Zenon
<1>13. w <= free
  BY <1>2, <1>10, <1>11, <1>12
<1>14. Copying(heap, name, roots, from, U, F, C, free, w, Len(roots))
  BY <1>9, <1>11
<1>15. PointsInto(word, from, U \cup F)
  <2>1. index \in MaskAt(heap, 1 - from, tuple)
    BY <1>2, <1>10
  <2>2. IF tuple + index + 1 < w THEN PointsInto(heap[1 - from][tuple + index + 1], 1 - from, C)
        ELSE PointsInto(heap[1 - from][tuple + index + 1], from, U \cup F)
    BY <1>9, <1>14, <2>1 DEF Copying, Pointers
  <2> QED BY <1>2, <1>4, <1>11, <2>2
<1>16. \E p \in U \cup F : /\ word = Pointer(<<from, p>>)
                           /\ \E V, E, D : MovesUnseen(copy, p, V, E, D, U, F, C, w, Len(roots))
  BY <1>2, <1>4, <1>13, <1>14, <1>15, WordUnseen
<1>26. PICK p \in U \cup F :
          /\ word = Pointer(<<from, p>>)
          /\ \E V, E, D : MovesUnseen(copy, p, V, E, D, U, F, C, w, Len(roots))
  BY <1>16
<1>17. PICK V, E, D : MovesUnseen(copy, p, V, E, D, U, F, C, w, Len(roots))
  BY <1>26
<1>18. /\ Looks(heap, name, roots, InBoth(from, U, C), H, M, roots, InBoth(from, V, D))
       /\ ResolvedIn(H, copy.word[2]) = ResolvedIn(H, <<from, p>>)
       /\ C \subseteq D /\ Copying(H, M, roots, from, V, E, D, copy.free, w, Len(roots))
       /\ PointsInto(copy.word, t, D) /\ SameTuple(heap, H, t, tuple)
  BY <1>2, <1>6, <1>9, <1>17 DEF MovesUnseen, MovesTo
<1>19. /\ index \in MaskAt(H, t, tuple) /\ H[t][tuple + index + 1] = word
  <2>1. /\ SizeAt(H, t, tuple) = h.size /\ MaskAt(H, t, tuple) = h.mask
    BY <1>6, <1>10, <1>12, <1>18, SameTupleIs
  <2>2. H[t][tuple + index + 1] = heap[t][tuple + index + 1]
    BY <1>6, <1>10, <1>18 DEF SameTuple
  <2> QED BY <1>4, <1>6, <2>1, <2>2
<1>20. word[2] = <<from, p>>
  BY <1>26, WordKinds
<1>21. ResolvedIn(H, copy.word[2]) = ResolvedIn(H, H[t][tuple + index + 1][2])
  BY <1>18, <1>19, <1>20
<1>22. Looks(H, M, roots, InBoth(from, V, D), G, M, roots, InBoth(from, V, D))
  <2>1. t \in {0, 1} /\ t = 1 - from /\ tuple \in D
    BY <1>2, <1>6, <1>9, <1>18
  <2>2. Copying(H, M, roots, from, V, E, D, copy.free, w, Len(roots))
    BY <1>18
  <2>3. index \in MaskAt(H, t, tuple)
    BY <1>19
  <2>4. PointsInto(copy.word, t, D)
    BY <1>18
  <2> QED BY <1>2, <1>7, <1>8, <1>21, <2>1, <2>2, <2>3, <2>4, FieldLooks
<1>23. Looks(heap, name, roots, InBoth(from, U, C), G, M, roots, InBoth(from, V, D))
  BY <1>18, <1>22, LooksTwice
<1>24. Looks(heap, name, roots, InBoth(from, U, C), heap', name', roots', InBoth(from, V, D))
  BY <1>6, <1>23
<1>25. Graph(heap, name, roots, InBoth(from, U, C))
  BY <1>2, <1>14, CopyingGraph
<1> QED BY <1>24, <1>25, UnseenStep

LEMMA ScanFieldUnseen ==
    ASSUME Running, ScanField
    PROVE  Unseen
<1>1. pc = "fields"
  BY DEF ScanField
<1>2. GcTypes /\ SpacesGrow /\ InFields /\ (InCopy \/ Copied)
  BY <1>1 DEF Running, Quiet
<1>3. PICK h \in HeaderRecords : heap[to][tuple] = Header(h)
  BY <1>1, <1>2 DEF InFields
<1>4. heap[to][tuple][2] = h
  BY <1>3, WordKinds
<1>5. index \in Nat /\ h.size \in Nat /\ tuple \in Nat /\ size(to) \in Nat
  BY <1>2, SizeTypes DEF GcTypes, HeaderRecords
<1>6. CASE index >= h.size
  <2>1. UNCHANGED <<heap, name, roots>>
    BY <1>4, <1>6 DEF ScanField
  <2> QED BY <2>1, StillUnseen
<1>7. CASE ~ index >= h.size /\ index \notin h.mask
  <2>1. UNCHANGED <<heap, name, roots>>
    BY <1>4, <1>7 DEF ScanField
  <2> QED BY <2>1, StillUnseen
<1>8. CASE ~ index >= h.size /\ index \in h.mask /\ tuple + index + 1 >= size(to)
  <2>1. Stop("wild")
    BY <1>4, <1>8 DEF ScanField
  <2> QED BY <2>1, StillUnseen DEF Stop
<1>9. CASE ~ index >= h.size /\ index \in h.mask /\ ~ tuple + index + 1 >= size(to)
  <2>1. PICK copy \in gc_copy_tuple(heap[to][tuple + index + 1]) :
          IF copy.stop # "no" THEN Stop(copy.stop)
          ELSE /\ heap' = tuple_set_tuple(copy.heap, to, tuple, index, copy.word)
               /\ name' = copy.name /\ free' = copy.free
               /\ index' = index + 1
               /\ UNCHANGED <<from, roots, scan, tuple, want, pc, after>>
    BY <1>4, <1>9 DEF ScanField
  <2>2. CASE copy.stop # "no"
    BY <2>1, <2>2, StillUnseen DEF Stop
  <2>3. CASE copy.stop = "no"
    <3>1. index < h.size /\ tuple + index + 1 < size(to)
      BY <1>5, <1>9
    <3>2. CASE InCopy
      BY <1>1, <1>3, <1>9, <2>1, <2>3, <3>1, <3>2, FieldUnseen
    <3>3. CASE Copied
      BY <1>1, <1>3, <1>9, <2>1, <2>3, <3>1, <3>3, JunkUnseen
    <3> QED BY <1>2, <3>2, <3>3
  <2> QED BY <2>2, <2>3
<1> QED BY <1>6, <1>7, <1>8, <1>9

\* The program sees nothing of the collector but its new tuple.
LEMMA CollectorUnseen ==
    ASSUME Running, Collector, ~ (gc_allocate_tuple /\ gc_space_is_enough(want))
    PROVE  Unseen
<1>1. CASE gc_allocate_tuple
  <2>1. BeginCopy("check") /\ heap' = heap
    BY <1>1 DEF gc_allocate_tuple
  <2>2. UNCHANGED <<heap, name, roots>>
    BY <2>1 DEF BeginCopy
  <2> QED BY <2>2, StillUnseen
<1>2. CASE CheckCopied
  <2>1. UNCHANGED <<heap, name, roots>>
    BY <1>2 DEF CheckCopied
  <2> QED BY <2>1, StillUnseen
<1>3. CASE gc_grow
  <2>1. CASE 2 * size(to) > MaxHeap
    <3>1. UNCHANGED <<heap, name, roots>>
      BY <1>3, <2>1 DEF gc_grow, Stop
    <3> QED BY <3>1, StillUnseen
  <2>2. CASE ~ 2 * size(to) > MaxHeap
    <3>1. (\E moved \in BOOLEAN : heap' = grown(moved)) /\ BeginCopy("grown") /\ pc = "grow"
      BY <1>3, <2>2 DEF gc_grow
    <3>2. UNCHANGED <<name, roots>> /\ Quiet
      BY <3>1 DEF BeginCopy, Quiet
    <3> QED BY <3>1, <3>2, GrownUnseen
  <2> QED BY <2>1, <2>2
<1>4. CASE GrowOther
  <2>1. (\E moved \in BOOLEAN : heap' = grown(moved)) /\ UNCHANGED <<name, roots>> /\ pc = "grown"
    BY <1>4 DEF GrowOther
  <2>2. Quiet
    BY <2>1 DEF Quiet
  <2> QED BY <2>1, <2>2, GrownUnseen
<1>5. CASE CopyRoot
  BY <1>5, CopyRootUnseen
<1>6. CASE RootsDone
  <2>1. UNCHANGED <<heap, name, roots>>
    BY <1>6 DEF RootsDone
  <2> QED BY <2>1, StillUnseen
<1>7. CASE ScanTuple
  BY <1>7, ScanTupleUnseen
<1>8. CASE ScanField
  BY <1>8, ScanFieldUnseen
<1>9. CASE Swap
  BY <1>9, SwapUnseen
<1> QED BY <1>1, <1>2, <1>3, <1>4, <1>5, <1>6, <1>7, <1>8, <1>9 DEF Collector

-----------------------------------------------------------------------------
(* The heap that the program sees when the collector is not at work *)

Plain(word) == IF word \in {Atom(n) : n \in Atoms} THEN word ELSE <<"junk", "junk">>

\* The fields of the tuple at o, in a space that has what they point to
Shown(H, N, s, o) ==
    [k \in 0 .. SizeAt(H, s, o) - 1 |->
       IF k \in MaskAt(H, s, o) THEN Pointer(N[s][H[s][o + k + 1][2][2]])
       ELSE Plain(H[s][o + k + 1])]

\* T and q are the tuples P of space s, and the roots R that lead to them.
Pictures(T, q, H, N, R, s, P) ==
    /\ T = [m \in {N[s][o] : o \in P} |-> T[m]]
    /\ \A o \in P : T[N[s][o]] = Shown(H, N, s, o)
    /\ q \in Seq(Names) /\ Len(q) = Len(R)
    /\ \A i \in 1 .. Len(R) : q[i] = N[s][R[i][2][2]]

LEMMA PictureIs ==
    ASSUME NEW T, NEW q, NEW H, NEW N, NEW R, NEW s, NEW P, Pictures(T, q, H, N, R, s, P),
           NEW U, NEW r, Pictures(U, r, H, N, R, s, P), R \in Seq(Words)
    PROVE  U = T /\ r = q
<1>1. /\ q \in Seq(Names) /\ Len(q) = Len(R) /\ \A i \in 1 .. Len(R) : q[i] = N[s][R[i][2][2]]
      /\ r \in Seq(Names) /\ Len(r) = Len(R) /\ \A i \in 1 .. Len(R) : r[i] = N[s][R[i][2][2]]
  BY DEF Pictures
<1>2. r = q
  <2>1. Len(r) = Len(q) /\ \A i \in 1 .. Len(r) : r[i] = q[i]
    BY <1>1
  <2> QED BY <1>1, <2>1, SeqEqual
<1>3. PICK D : D = {N[s][o] : o \in P}
  OBVIOUS
<1>4. T = [m \in D |-> T[m]] /\ U = [m \in D |-> U[m]]
  BY <1>3 DEF Pictures
<1>5. \A m \in D : T[m] = U[m]
  BY <1>3 DEF Pictures
<1> QED BY <1>2, <1>4, <1>5

LEMMA LiveShown ==
    ASSUME NEW H, NEW N, NEW R, NEW s, NEW P, NEW L, Live(H, N, R, s, P, L), NEW o \in P
    PROVE  FieldsIn(H, N, <<s, o>>) = Shown(H, N, s, o)
<1>1. /\ \A k : WordAt(H, <<s, o>>, k) = H[s][o + k + 1]
      /\ FieldNumbers(H, <<s, o>>) = 0 .. SizeAt(H, s, o) - 1
      /\ MaskOf(H, <<s, o>>) = MaskAt(H, s, o)
  BY WordsAt
<1>2. ASSUME NEW k \in 0 .. SizeAt(H, s, o) - 1
      PROVE  Means(H, N, H[s][o + k + 1], k \in MaskAt(H, s, o))
               = IF k \in MaskAt(H, s, o) THEN Pointer(N[s][H[s][o + k + 1][2][2]])
                 ELSE Plain(H[s][o + k + 1])
  <2>1. CASE k \in MaskAt(H, s, o)
    <3>1. PICK p \in P : H[s][o + k + 1] = Pointer(<<s, p>>)
      BY <2>1 DEF Live, PointsInto
    <3>2. H[s][o + k + 1][1] = "tuple" /\ H[s][o + k + 1][2] = <<s, p>>
      BY <3>1, WordKinds
    <3>3. ResolvedIn(H, <<s, p>>) = <<s, p>>
      BY TupleStays DEF Live
    <3>4. <<s, p>>[2] = p /\ NameAt(N, <<s, p>>) = N[s][p]
      BY DEF NameAt
    <3>5. Means(H, N, H[s][o + k + 1], k \in MaskAt(H, s, o)) = Pointer(N[s][p])
      BY <2>1, <3>2, <3>3, <3>4 DEF Means
    <3>6. H[s][o + k + 1][2][2] = p
      BY <3>2
    <3> QED BY <2>1, <3>5, <3>6
  <2>2. CASE k \notin MaskAt(H, s, o)
    BY <2>2 DEF Means, Plain
  <2> QED BY <2>1, <2>2
<1> QED BY <1>1, <1>2 DEF FieldsIn, Shown

LEMMA LivePictures ==
    ASSUME NEW H, NEW N, NEW R \in Seq(Words), NEW s, NEW P, NEW L, Live(H, N, R, s, P, L)
    PROVE  Pictures(TuplesOf(H, N, At(s, P)), RootsOf(H, N, R), H, N, R, s, P)
<1>1. PICK K, T, q : K = At(s, P) /\ T = TuplesOf(H, N, K) /\ q = RootsOf(H, N, R)
  OBVIOUS
<1>2. Graph(H, N, R, K)
  BY <1>1, LiveGraph
<1>3. DOMAIN T = {NameAt(N, a) : a \in K} /\ \A a \in K : T[NameAt(N, a)] = FieldsIn(H, N, a)
  <2>1. K \in SUBSET K
    OBVIOUS
  <2>2. /\ DOMAIN TuplesOf(H, N, K) = {NameAt(N, a) : a \in K}
        /\ \A a \in K : TuplesOf(H, N, K)[NameAt(N, a)] = FieldsIn(H, N, a)
    BY <1>2, <2>1, TupleOf
  <2> QED BY <1>1, <2>2
<1>4. /\ \A o \in P : <<s, o>> \in K /\ NameAt(N, <<s, o>>) = N[s][o]
      /\ \A a \in K : \E o \in P : a = <<s, o>>
  BY <1>1, WordsAt DEF At
<1>5. ASSUME NEW o \in P PROVE T[N[s][o]] = Shown(H, N, s, o)
  <2>1. <<s, o>> \in K /\ NameAt(N, <<s, o>>) = N[s][o]
    BY <1>4
  <2>2. T[NameAt(N, <<s, o>>)] = FieldsIn(H, N, <<s, o>>)
    BY <1>3, <2>1
  <2>3. FieldsIn(H, N, <<s, o>>) = Shown(H, N, s, o)
    BY LiveShown
  <2> QED BY <2>1, <2>2, <2>3
<1>6. T = [m \in {N[s][o] : o \in P} |-> T[m]]
  <2>1. T = [m \in DOMAIN T |-> T[m]]
    BY <1>1 DEF TuplesOf
  <2>2. {NameAt(N, a) : a \in K} = {N[s][o] : o \in P}
    <3>1. ASSUME NEW a \in K PROVE NameAt(N, a) \in {N[s][o] : o \in P}
      <4>1. PICK o \in P : a = <<s, o>>
        BY <1>4
      <4> QED BY <1>4, <4>1
    <3>2. ASSUME NEW o \in P PROVE N[s][o] \in {NameAt(N, a) : a \in K}
      BY <1>4
    <3> QED BY <3>1, <3>2
  <2> QED BY <1>3, <2>1, <2>2
<1>7. ASSUME NEW i \in 1 .. Len(R)
      PROVE  q[i] = N[s][R[i][2][2]] /\ q[i] \in Names
  <2>1. PICK o \in P : R[i] = Pointer(<<s, o>>)
    BY DEF Live, PointsInto
  <2>2. R[i][2] = <<s, o>> /\ R[i][2][2] = o
    BY <2>1, WordKinds
  <2>3. ResolvedIn(H, <<s, o>>) = <<s, o>>
    BY TupleStays DEF Live
  <2>4. q[i] = NameAt(N, ResolvedIn(H, R[i][2]))
    BY <1>1 DEF RootsOf
  <2>5. q[i] = N[s][o]
    BY <1>4, <2>2, <2>3, <2>4
  <2> QED BY <2>2, <2>5 DEF Live, Named
<1>8. q \in Seq(Names) /\ Len(q) = Len(R)
  <2>1. q = [i \in 1 .. Len(R) |-> q[i]] /\ Len(R) \in Nat
    BY <1>1 DEF RootsOf
  <2> QED BY <1>7, <2>1
<1>9. Pictures(T, q, H, N, R, s, P)
  BY <1>5, <1>6, <1>7, <1>8 DEF Pictures
<1> QED BY <1>1, <1>9

\* The tuples P, below L, are what the roots reach, and what the program sees.
InSight(P, L) ==
    /\ Live(heap, name, roots, from, P, L)
    /\ Pictures(AbsTuples, AbsRoots, heap, name, roots, from, P)
    /\ Reached = At(from, P)

LEMMA ProgramSees ==
    ASSUME Running, Quiet
    PROVE  \E P \in SUBSET Nat, L \in 0 .. free : InSight(P, L)
<1>1. roots \in Seq(Words) /\ from \in {0, 1} /\ AtRest
  BY DEF Running, GcTypes
<1>2. PICK S \in SUBSET Nat, L \in 0 .. free : Live(heap, name, roots, from, S, L)
  BY <1>1 DEF AtRest
<1>3. Graph(heap, name, roots, At(from, S))
  BY <1>1, <1>2, LiveGraph
<1>4. Covers(Reached) /\ Reached \subseteq At(from, S)
  BY <1>3, GraphCovers
<1>5. PICK P \in SUBSET Nat : P = {o \in S : <<from, o>> \in Reached}
  OBVIOUS
<1>6. Live(heap, name, roots, from, P, L)
  BY <1>1, <1>2, <1>4, <1>5, LiveReached
<1>7. Reached = At(from, P)
  BY <1>4, <1>5 DEF At
<1>8. Pictures(AbsTuples, AbsRoots, heap, name, roots, from, P)
  <2>1. Pictures(TuplesOf(heap, name, At(from, P)), RootsOf(heap, name, roots), heap, name,
                 roots, from, P)
    BY <1>1, <1>6, LivePictures
  <2> QED BY <1>7, <2>1, TuplesHere
<1> QED BY <1>6, <1>7, <1>8 DEF InSight

LEMMA ProgramBecomes ==
    ASSUME roots' \in Seq(Words), NEW P, NEW L, Live(heap', name', roots', from', P, L),
           NEW T, NEW q, Pictures(T, q, heap', name', roots', from', P)
    PROVE  Heap!Become(T, q)
<1>1. PICK K : K = At(from', P)
  OBVIOUS
<1>2. Graph(heap', name', roots', K)
  BY <1>1, LiveGraph
<1>3. /\ AbsTuples' = Kept(TuplesOf(heap', name', K), RootsOf(heap', name', roots'))
      /\ AbsRoots' = RootsOf(heap', name', roots')
  BY <1>2, NextSeen
<1>4. Pictures(TuplesOf(heap', name', K), RootsOf(heap', name', roots'), heap', name', roots',
               from', P)
  BY <1>1, LivePictures
<1>5. TuplesOf(heap', name', K) = T /\ RootsOf(heap', name', roots') = q
  BY <1>4, PictureIs
<1>6. AbsTuples' = [m \in Heap!Reachable(T, q) |-> T[m]] /\ AbsRoots' = q
  BY <1>3, <1>5 DEF Kept
<1> QED BY <1>6 DEF Heap!Become, AbsTuples, AbsRoots

-----------------------------------------------------------------------------
(* The steps of the program *)

LEMMA RootSeen ==
    ASSUME Running, NEW P \in SUBSET Nat, NEW L, InSight(P, L), NEW i \in DOMAIN roots
    PROVE  \E o \in P : /\ roots[i] = Pointer(<<from, o>>) /\ roots[i][2][1] = from
                        /\ roots[i][2][2] = o /\ roots[i][1] = "tuple"
                        /\ i \in DOMAIN AbsRoots /\ AbsRoots[i] = name[from][o]
<1>1. roots \in Seq(Words) /\ Live(heap, name, roots, from, P, L)
  BY DEF Running, GcTypes, InSight
<1>2. PICK o \in P : /\ roots[i] = Pointer(<<from, o>>) /\ roots[i][2][1] = from
                     /\ roots[i][2][2] = o /\ roots[i][1] = "tuple"
  BY <1>1, RootIs
<1>3. /\ Len(AbsRoots) = Len(roots) /\ AbsRoots \in Seq(Names)
      /\ \A j \in 1 .. Len(roots) : AbsRoots[j] = name[from][roots[j][2][2]]
  BY DEF InSight, Pictures
<1>4. i \in 1 .. Len(roots)
  BY <1>1
<1>5. AbsRoots[i] = name[from][o] /\ i \in DOMAIN AbsRoots
  BY <1>2, <1>3, <1>4
<1> QED BY <1>2, <1>5

\* The fields of a tuple that is in sight
LEMMA TupleSeen ==
    ASSUME NEW P, NEW L, InSight(P, L), NEW o \in P
    PROVE  /\ name[from][o] \in DOMAIN AbsTuples
           /\ DOMAIN AbsTuples[name[from][o]] = 0 .. SizeAt(heap, from, o) - 1
           /\ AbsTuples[name[from][o]] = Shown(heap, name, from, o)
<1>1. PICK T : T = AbsTuples
  OBVIOUS
<1>2. T = [m \in {name[from][p] : p \in P} |-> T[m]]
      /\ \A p \in P : T[name[from][p]] = Shown(heap, name, from, p)
  BY <1>1 DEF InSight, Pictures
<1>3. name[from][o] \in DOMAIN T
  <2>1. name[from][o] \in {name[from][p] : p \in P}
    OBVIOUS
  <2> QED BY <1>2, <2>1
<1>4. DOMAIN Shown(heap, name, from, o) = 0 .. SizeAt(heap, from, o) - 1
  BY DEF Shown
<1> QED BY <1>1, <1>2, <1>3, <1>4

LEMMA PopSeen ==
    ASSUME Running, gc_pop_root
    PROVE  Heap!Pop
<1>1. roots \in Seq(Words) /\ roots' \in Seq(Words) /\ roots # <<>> /\ Quiet /\ from \in {0, 1}
  <2>1. roots \in Seq(Words) /\ roots # <<>> /\ Quiet /\ from \in {0, 1}
    BY DEF Running, gc_pop_root, Quiet, GcTypes
  <2>2. roots' = SubSeq(roots, 1, Len(roots) - 1)
    BY DEF gc_pop_root
  <2> QED BY <2>1, <2>2
<1>2. UNCHANGED <<heap, name, from>> /\ roots' = SubSeq(roots, 1, Len(roots) - 1)
  BY DEF gc_pop_root
<1>3. PICK P \in SUBSET Nat, L \in 0 .. free : InSight(P, L)
  BY <1>1, ProgramSees
<1>4. PICK T, q, n : T = AbsTuples /\ q = AbsRoots /\ n = Len(roots) - 1
  OBVIOUS
<1>5. /\ T = [m \in {name[from][o] : o \in P} |-> T[m]]
      /\ (\A o \in P : T[name[from][o]] = Shown(heap, name, from, o))
      /\ q \in Seq(Names) /\ Len(q) = Len(roots)
      /\ \A i \in 1 .. Len(roots) : q[i] = name[from][roots[i][2][2]]
  BY <1>3, <1>4 DEF InSight, Pictures
<1>6. n \in Nat /\ Len(roots) = n + 1
  BY <1>1, <1>4
<1>7. PICK Q, r : Q = roots' /\ r = SubSeq(q, 1, Len(q) - 1)
  OBVIOUS
<1>8. Q = SubSeq(roots, 1, n) /\ r = SubSeq(q, 1, n)
  BY <1>2, <1>4, <1>5, <1>7
<1>9. /\ Len(Q) = n /\ r \in Seq(Names) /\ Len(r) = n
      /\ \A j \in 1 .. n : j \in 1 .. Len(roots) /\ Q[j] = roots[j] /\ r[j] = q[j]
  BY <1>1, <1>5, <1>6, <1>8
<1>10. Live(heap, name, Q, from, P, L)
  <2>1. \A j \in 1 .. Len(Q) : PointsInto(Q[j], from, P)
    BY <1>3, <1>9 DEF InSight, Live
  <2> QED BY <1>3, <2>1 DEF InSight, Live
<1>11. Pictures(T, r, heap, name, Q, from, P)
  BY <1>5, <1>9 DEF Pictures
<1>12. Heap!Become(T, r)
  <2>1. Live(heap', name', roots', from', P, L) /\ Pictures(T, r, heap', name', roots', from', P)
    BY <1>2, <1>7, <1>10, <1>11
  <2> QED BY <1>1, <2>1, ProgramBecomes
<1>13. q # <<>>
  BY <1>5, <1>6
<1>14. AbsRoots # <<>> /\ Heap!Become(AbsTuples, SubSeq(AbsRoots, 1, Len(AbsRoots) - 1))
  BY <1>4, <1>7, <1>12, <1>13
<1> QED BY <1>14 DEF Heap!Pop, AbsTuples, AbsRoots

LEMMA GetSeen ==
    ASSUME Running, NEW i \in DOMAIN roots, NEW k \in 0 .. MaxTuple - 1, tuple_get_tuple(i, k)
    PROVE  /\ i \in DOMAIN AbsRoots /\ k \in DOMAIN AbsTuples[AbsRoots[i]]
           /\ Heap!GetTuple(i, k)
<1>1. roots \in Seq(Words) /\ Quiet /\ from \in {0, 1} /\ Len(roots) < RootSize
  BY DEF Running, tuple_get_tuple, Quiet, GcTypes
<1>2. UNCHANGED <<heap, name, from>>
  BY DEF tuple_get_tuple
<1>3. PICK P \in SUBSET Nat, L \in 0 .. free : InSight(P, L)
  BY <1>1, ProgramSees
<1>4. PICK T, q : T = AbsTuples /\ q = AbsRoots
  OBVIOUS
<1>5. /\ T = [m \in {name[from][o] : o \in P} |-> T[m]]
      /\ (\A o \in P : T[name[from][o]] = Shown(heap, name, from, o))
      /\ q \in Seq(Names) /\ Len(q) = Len(roots)
      /\ \A j \in 1 .. Len(roots) : q[j] = name[from][roots[j][2][2]]
  BY <1>3, <1>4 DEF InSight, Pictures
<1>6. PICK o \in P : /\ roots[i][2][1] = from /\ roots[i][2][2] = o
                     /\ i \in DOMAIN q /\ q[i] = name[from][o]
  BY <1>3, <1>4, RootSeen
<1>7. k \in MaskAt(heap, from, o) /\ roots' = Append(roots, heap[from][o + k + 1])
  BY <1>6 DEF tuple_get_tuple, MaskAt
<1>8. PICK p \in P : heap[from][o + k + 1] = Pointer(<<from, p>>)
  BY <1>3, <1>7 DEF InSight, Live, PointsInto
<1>9. PICK word : word = Pointer(<<from, p>>)
  OBVIOUS
<1>10. word \in Words /\ word[2][2] = p /\ PointsInto(word, from, P)
  <2>1. <<from, p>> \in (0 .. 2) \X Nat
    BY <1>1
  <2>2. word[2] = <<from, p>>
    BY <1>9, WordKinds
  <2> QED BY <1>9, <2>1, <2>2 DEF Words, PointsInto
<1>11. k \in 0 .. SizeAt(heap, from, o) - 1
  <2>1. IsTuple(heap, from, o)
    BY <1>3 DEF InSight, Live
  <2> QED BY <1>7, <2>1, TupleFacts
<1>12. /\ k \in DOMAIN T[q[i]] /\ T[q[i]][k] = Pointer(name[from][p])
       /\ name[from][p] \in DOMAIN T
  <2>1. /\ DOMAIN T[name[from][o]] = 0 .. SizeAt(heap, from, o) - 1
        /\ T[name[from][o]] = Shown(heap, name, from, o)
    BY <1>3, <1>4, TupleSeen
  <2>2. name[from][p] \in DOMAIN T
    BY <1>3, <1>4, TupleSeen
  <2>3. Shown(heap, name, from, o)[k] = Pointer(name[from][heap[from][o + k + 1][2][2]])
    BY <1>7, <1>11 DEF Shown
  <2>4. heap[from][o + k + 1][2][2] = p
    BY <1>8, <1>9, <1>10
  <2> QED BY <1>6, <1>11, <2>1, <2>2, <2>3, <2>4
<1>13. PICK Q, r : Q = Append(roots, word) /\ r = Append(q, name[from][p])
  OBVIOUS
<1>14. name[from][p] \in Names
  BY <1>3 DEF InSight, Live, Named
<1>15. /\ Q \in Seq(Words) /\ Len(Q) = Len(roots) + 1 /\ r \in Seq(Names) /\ Len(r) = Len(Q)
       /\ \A j \in 1 .. Len(Q) : \/ j \in 1 .. Len(roots) /\ Q[j] = roots[j] /\ r[j] = q[j]
                                 \/ Q[j] = word /\ r[j] = name[from][p]
  BY <1>1, <1>5, <1>10, <1>13, <1>14
<1>16. Live(heap, name, Q, from, P, L)
  <2>1. \A j \in 1 .. Len(Q) : PointsInto(Q[j], from, P)
    BY <1>3, <1>10, <1>15 DEF InSight, Live
  <2> QED BY <1>3, <2>1 DEF InSight, Live
<1>17. Pictures(T, r, heap, name, Q, from, P)
  <2>1. \A j \in 1 .. Len(Q) : r[j] = name[from][Q[j][2][2]]
    BY <1>5, <1>10, <1>15
  <2> QED BY <1>5, <1>15, <2>1 DEF Pictures
<1>18. roots' = Q
  BY <1>7, <1>8, <1>9, <1>13
<1>19. Heap!Become(T, r)
  <2>1. Live(heap', name', roots', from', P, L) /\ Pictures(T, r, heap', name', roots', from', P)
    BY <1>2, <1>16, <1>17, <1>18
  <2>2. roots' \in Seq(Words)
    BY <1>15, <1>18
  <2> QED BY <2>1, <2>2, ProgramBecomes
<1>20. /\ Len(AbsRoots) < RootSize /\ k \in DOMAIN AbsTuples[AbsRoots[i]]
       /\ \E m \in DOMAIN AbsTuples :
            /\ AbsTuples[AbsRoots[i]][k] = Pointer(m)
            /\ Heap!Become(AbsTuples, Append(AbsRoots, m))
  BY <1>1, <1>4, <1>5, <1>12, <1>13, <1>19
<1>21. Heap!GetTuple(i, k)
  BY <1>20 DEF Heap!GetTuple, AbsTuples, AbsRoots, Pointer, Heap!Tuple
<1> QED BY <1>4, <1>6, <1>12, <1>21

\* A tuple whose words stay, and the names of what it points to
LEMMA ShownSame ==
    ASSUME NEW H, NEW N, NEW G, NEW M, NEW s, NEW o, IsTuple(H, s, o), SameWords(H, G, s, o),
           \A k \in MaskAt(H, s, o) : M[s][H[s][o + k + 1][2][2]] = N[s][H[s][o + k + 1][2][2]]
    PROVE  Shown(G, M, s, o) = Shown(H, N, s, o)
<1>1. /\ o \in Nat /\ SizeAt(H, s, o) \in Nat \ {0}
  BY TupleFacts
<1>2. /\ G[s][o] = H[s][o]
      /\ \A k \in 0 .. SizeAt(H, s, o) - 1 : G[s][o + k + 1] = H[s][o + k + 1]
  BY <1>1, FirstWords
<1>3. SizeAt(G, s, o) = SizeAt(H, s, o) /\ MaskAt(G, s, o) = MaskAt(H, s, o)
  BY <1>2 DEF SizeAt, MaskAt
<1> QED BY <1>2, <1>3 DEF Shown

\* What a word of the root stack or an atom is to the program
Given(word) ==
    IF word[1] = "tuple" THEN Pointer(name[from][word[2][2]]) ELSE Plain(word)

LEMMA FieldSeen ==
    ASSUME Running, NEW i \in DOMAIN roots, NEW k \in 0 .. MaxTuple - 1, NEW word,
           SetField(i, k, word),
           \/ \E j \in DOMAIN roots : word = roots[j]
           \/ \E a \in Atoms : word = Atom(a)
    PROVE  /\ i \in DOMAIN AbsRoots /\ k \in DOMAIN AbsTuples[AbsRoots[i]]
           /\ Heap!SetField(i, k, Given(word))
<1>1. /\ roots \in Seq(Words) /\ Quiet /\ from \in {0, 1} /\ Memory(heap)
  BY DEF Running, SetField, Quiet, GcTypes
<1>2. UNCHANGED <<name, from, roots>>
  BY DEF SetField
<1>3. PICK P \in SUBSET Nat, L \in 0 .. free : InSight(P, L)
  BY <1>1, ProgramSees
<1>4. PICK T, q, s, w : T = AbsTuples /\ q = AbsRoots /\ s = from /\ w = Given(word)
  OBVIOUS
<1>5. /\ T = [m \in {name[s][o] : o \in P} |-> T[m]]
      /\ (\A o \in P : T[name[s][o]] = Shown(heap, name, s, o))
      /\ q \in Seq(Names) /\ Len(q) = Len(roots)
      /\ \A j \in 1 .. Len(roots) : q[j] = name[s][roots[j][2][2]]
  BY <1>3, <1>4 DEF InSight, Pictures
<1>6. PICK c \in P : /\ roots[i][2][1] = s /\ roots[i][2][2] = c
                     /\ i \in DOMAIN q /\ q[i] = name[s][c]
  BY <1>3, <1>4, RootSeen
<1>7. Live(heap, name, roots, s, P, L)
  BY <1>3, <1>4 DEF InSight
<1>8. /\ k < SizeAt(heap, s, c)
      /\ heap' = IF word[1] = "tuple"
                 THEN StoredMask(heap, s, c, k, word, MaskAt(heap, s, c) \cup {k})
                 ELSE StoredMask(heap, s, c, k, word, MaskAt(heap, s, c) \ {k})
  <2>1. k \in 0 .. 23
    BY SizesAssumption
  <2>2. /\ k < SizeAt(heap, s, c)
        /\ heap' = IF word[1] = "tuple" THEN tuple_set_tuple(heap, s, c, k, word)
                   ELSE tuple_set_atom(heap, s, c, k, word)
    BY <1>6 DEF SetField, SizeAt
  <2>3. /\ tuple_set_tuple(heap, s, c, k, word) = StoredMask(heap, s, c, k, word, MaskAt(heap, s, c) \cup {k})
        /\ tuple_set_atom(heap, s, c, k, word) = StoredMask(heap, s, c, k, word, MaskAt(heap, s, c) \ {k})
    BY <2>1, SmallIndex DEF tuple_set_tuple, tuple_set_atom, StoredMask, MaskAt
  <2> QED BY <2>2, <2>3, Zenon
<1>9. /\ SizeAt(heap, s, c) \in Nat /\ MaskAt(heap, s, c) \in SUBSET (0 .. SizeAt(heap, s, c) - 1)
  <2>1. IsTuple(heap, s, c)
    BY <1>7 DEF Live
  <2> QED BY <2>1, TupleFacts
<1>10. k \in 0 .. SizeAt(heap, s, c) - 1
  BY <1>8, <1>9, SizesAssumption
<1>11. word[1] = "tuple" => \E p \in P : word = Pointer(<<s, p>>) /\ word[2][2] = p
  <2>1. CASE \E j \in DOMAIN roots : word = roots[j]
    <3>1. PICK j \in DOMAIN roots : word = roots[j]
      BY <2>1
    <3>2. PICK p \in P : roots[j] = Pointer(<<from, p>>) /\ roots[j][2][2] = p
      BY <1>3, RootSeen
    <3> QED BY <1>4, <3>1, <3>2
  <2>2. CASE \E a \in Atoms : word = Atom(a)
    BY <2>2 DEF Atom
  <2> QED BY <2>1, <2>2
<1>12. word \in Words
  <2>1. CASE \E j \in DOMAIN roots : word = roots[j]
    BY <1>1, <2>1
  <2>2. CASE \E a \in Atoms : word = Atom(a)
    BY <2>2, SizesAssumption DEF Words
  <2> QED BY <2>1, <2>2
<1>13. PICK G, m : /\ G = heap' /\ m \in SUBSET (0 .. SizeAt(heap, s, c) - 1)
                   /\ G = StoredMask(heap, s, c, k, word, m)
                   /\ (k \in m <=> word[1] = "tuple")
                   /\ \A j : j # k => (j \in m <=> j \in MaskAt(heap, s, c))
  <2>1. CASE word[1] = "tuple"
    <3>1. MaskAt(heap, s, c) \cup {k} \in SUBSET (0 .. SizeAt(heap, s, c) - 1)
      BY <1>9, <1>10
    <3> QED BY <1>8, <2>1, <3>1
  <2>2. CASE word[1] # "tuple"
    <3>1. MaskAt(heap, s, c) \ {k} \in SUBSET (0 .. SizeAt(heap, s, c) - 1)
      BY <1>9
    <3> QED BY <1>8, <2>2, <3>1
  <2> QED BY <2>1, <2>2
<1>14. Fits(heap, s, P, c, k, word, m)
  BY <1>11, <1>13 DEF Fits, PointsInto
<1>15. Live(G, name, roots, s, P, L)
  <2>1. StillLive(heap, G, name, roots, s, P, L)
    BY <1>1, <1>4, <1>7, <1>10, <1>12, <1>13, <1>14, LiveStored
  <2> QED BY <2>1 DEF StillLive
<1>16. FieldSet(heap, G, s, P, c, k, word, m)
  <2>1. Tuples(heap, s, P)
    BY <1>7 DEF Tuples, Live
  <2> QED BY <1>1, <1>4, <1>10, <1>12, <1>13, <2>1, StoreApart
\* the fields of the tuple
<1>17. Shown(G, name, s, c) = [Shown(heap, name, s, c) EXCEPT ![k] = w]
  <2>1. /\ SizeAt(G, s, c) = SizeAt(heap, s, c) /\ MaskAt(G, s, c) = m
        /\ G[s][c + k + 1] = word
        /\ \A j \in 0 .. SizeAt(heap, s, c) - 1 : j # k => G[s][c + j + 1] = heap[s][c + j + 1]
    BY <1>16 DEF FieldSet
  <2>2. DOMAIN Shown(heap, name, s, c) = 0 .. SizeAt(heap, s, c) - 1
    BY DEF Shown
  <2>3. ASSUME NEW j \in 0 .. SizeAt(heap, s, c) - 1
        PROVE  (IF j \in m THEN Pointer(name[s][G[s][c + j + 1][2][2]]) ELSE Plain(G[s][c + j + 1]))
                 = IF j = k THEN w ELSE Shown(heap, name, s, c)[j]
    <3>1. CASE j = k
      BY <1>4, <1>13, <2>1, <3>1 DEF Given
    <3>2. CASE j # k
      BY <1>13, <2>1, <3>2 DEF Shown
    <3> QED BY <3>1, <3>2
  <2> QED BY <2>1, <2>2, <2>3 DEF Shown
<1>18. ASSUME NEW o \in P, o # c PROVE Shown(G, name, s, o) = Shown(heap, name, s, o)
  <2>1. SameWords(heap, G, s, o) /\ IsTuple(heap, s, o)
    BY <1>7, <1>16, <1>18 DEF FieldSet, Live
  <2> QED BY <2>1, ShownSame
<1>19. PICK U : U = [T EXCEPT ![q[i]][k] = w]
  OBVIOUS
<1>20. Pictures(U, q, G, name, roots, s, P)
  <2>1. DOMAIN T = {name[s][o] : o \in P}
    BY <1>5
  <2>2. U = [T EXCEPT ![name[s][c]] = [T[name[s][c]] EXCEPT ![k] = w]]
    BY <1>6, <1>19
  <2>3. U = [d \in {name[s][o] : o \in P} |-> U[d]]
    BY <2>1, <2>2
  <2>4. ASSUME NEW o \in P PROVE U[name[s][o]] = Shown(G, name, s, o)
    <3>1. name[s][o] \in DOMAIN T
      BY <2>1
    <3>2. CASE o = c
      <4>1. U[name[s][o]] = [T[name[s][c]] EXCEPT ![k] = w]
        BY <2>2, <3>1, <3>2
      <4>2. T[name[s][c]] = Shown(heap, name, s, c)
        BY <1>5
      <4> QED BY <1>17, <3>2, <4>1, <4>2
    <3>3. CASE o # c
      <4>1. name[s][o] # name[s][c]
        BY <1>7, <3>3 DEF Live, Named
      <4>2. U[name[s][o]] = T[name[s][o]]
        BY <2>2, <3>1, <4>1
      <4> QED BY <1>5, <1>18, <3>3, <4>2
    <3> QED BY <3>2, <3>3
  <2> QED BY <1>5, <2>3, <2>4 DEF Pictures
<1>21. Heap!Become(U, q)
  <2>1. /\ Live(heap', name', roots', from', P, L)
        /\ Pictures(U, q, heap', name', roots', from', P)
    BY <1>2, <1>4, <1>13, <1>15, <1>20
  <2>2. roots' \in Seq(Words)
    BY <1>1, <1>2
  <2> QED BY <2>1, <2>2, ProgramBecomes
<1>22. k \in DOMAIN T[q[i]]
  BY <1>3, <1>4, <1>6, <1>10, TupleSeen
<1>23. /\ k \in DOMAIN AbsTuples[AbsRoots[i]]
       /\ Heap!Become([AbsTuples EXCEPT ![AbsRoots[i]][k] = w], AbsRoots)
  BY <1>4, <1>19, <1>21, <1>22
<1>24. Heap!SetField(i, k, w)
  BY <1>23 DEF Heap!SetField, AbsTuples, AbsRoots
<1> QED BY <1>4, <1>6, <1>23, <1>24

LEMMA SetSeen ==
    ASSUME Running, NEW i \in DOMAIN roots, NEW k \in 0 .. MaxTuple - 1,
           \/ \E j \in DOMAIN roots : SetField(i, k, roots[j])
           \/ \E a \in Atoms : SetField(i, k, Atom(a))
    PROVE  /\ i \in DOMAIN AbsRoots /\ k \in DOMAIN AbsTuples[AbsRoots[i]]
           /\ \/ \E j \in DOMAIN AbsRoots : Heap!SetTuple(i, k, j)
              \/ \E a \in Atoms : Heap!SetAtom(i, k, a)
<1>1. CASE \E j \in DOMAIN roots : SetField(i, k, roots[j])
  <2>1. PICK j \in DOMAIN roots : SetField(i, k, roots[j])
    BY <1>1
  <2>2. PICK word : word = roots[j]
    OBVIOUS
  <2>3. SetField(i, k, word)
    BY <2>1, <2>2
  <2>4. /\ i \in DOMAIN AbsRoots /\ k \in DOMAIN AbsTuples[AbsRoots[i]]
        /\ Heap!SetField(i, k, Given(word))
    BY <2>2, <2>3, FieldSeen
  <2>5. Given(word) = Pointer(AbsRoots[j]) /\ j \in DOMAIN AbsRoots
    <3>1. Quiet
      BY <2>1 DEF SetField, Quiet
    <3>2. PICK P \in SUBSET Nat, L \in 0 .. free : InSight(P, L)
      BY <3>1, ProgramSees
    <3>3. PICK o \in P : /\ roots[j][2][2] = o /\ roots[j][1] = "tuple"
                         /\ j \in DOMAIN AbsRoots /\ AbsRoots[j] = name[from][o]
      BY <3>2, RootSeen
    <3> QED BY <2>2, <3>3 DEF Given
  <2>6. Heap!SetField(i, k, Pointer(AbsRoots[j]))
    BY <2>4, <2>5
  <2>7. Heap!SetTuple(i, k, j)
    BY <2>6 DEF Heap!SetTuple, Heap!Tuple, Pointer, AbsRoots
  <2> QED BY <2>4, <2>5, <2>7
<1>2. CASE \E a \in Atoms : SetField(i, k, Atom(a))
  <2>1. PICK a \in Atoms : SetField(i, k, Atom(a))
    BY <1>2
  <2>2. PICK word : word = Atom(a)
    OBVIOUS
  <2>3. SetField(i, k, word)
    BY <2>1, <2>2
  <2>4. /\ i \in DOMAIN AbsRoots /\ k \in DOMAIN AbsTuples[AbsRoots[i]]
        /\ Heap!SetField(i, k, Given(word))
    BY <2>2, <2>3, FieldSeen
  <2>5. Given(word) = Atom(a)
    <3>1. word[1] # "tuple"
      BY <2>2 DEF Atom
    <3> QED BY <2>2, <3>1 DEF Given, Plain
  <2>6. Heap!SetField(i, k, Atom(a))
    BY <2>4, <2>5
  <2>7. Heap!SetAtom(i, k, a)
    BY <2>6 DEF Heap!SetAtom, Heap!Atom, Atom
  <2> QED BY <2>4, <2>7
<1> QED BY <1>1, <1>2

\* What the program does with a new tuple: want is the size it asked for.
Pushing == want \in Sizes \cup {0} /\ (want # 0 => pc # "mutator" /\ Len(roots) < RootSize)

\* A new tuple e, with the name m and n fields of junk, is in sight.
NewSight(U, r, T, m, n, G, M, Q, s, P, e) ==
    /\ Pictures(U, r, G, M, Q, s, P \cup {e}) /\ m \notin DOMAIN T
    /\ Shown(G, M, s, e) = [k \in 0 .. n - 1 |-> Plain(G[s][e + k + 1])]

LEMMA NewPictures ==
    ASSUME NEW H, NEW N, NEW R, NEW s, NEW P, NEW L, NEW e, NEW n, NEW m, NEW G, NEW M, NEW Q,
           Allocates(H, N, R, s, P, L, e, n, m, G, M, Q),
           NEW T, NEW q, Pictures(T, q, H, N, R, s, P), NEW U,
           U = [x \in DOMAIN T \cup {m} |-> IF x = m THEN Shown(G, M, s, e) ELSE T[x]],
           NEW r, r = Append(q, m)
    PROVE  NewSight(U, r, T, m, n, G, M, Q, s, P, e)
<1>1. /\ Memory(H) /\ Tables(N) /\ R \in Seq(Words) /\ s \in {0, 1} /\ P \in SUBSET Nat
      /\ L \in Nat /\ Live(H, N, R, s, P, L) /\ e \in Nat /\ L <= e
      /\ n \in Nat /\ n > 0 /\ n <= 24 /\ e + n + 1 < Cardinality(DOMAIN H[s])
      /\ Cardinality(DOMAIN H[s]) <= MaxHeap /\ m \in Names /\ (\A o \in P : N[s][o] # m)
      /\ G = Written(H, s, e, FreshHeader(n)) /\ M = Renamed(N, s, e, m)
      /\ Q = Append(R, Pointer(<<s, e>>))
  BY DEF Allocates, Fresh
<1>2. /\ DOMAIN H[s] = 0 .. Cardinality(DOMAIN H[s]) - 1 /\ Cardinality(DOMAIN H[s]) \in Nat
  BY <1>1, MemoryDomain
<1>3. e \in DOMAIN H[s] /\ e \in 0 .. MaxHeap - 1
  BY <1>1, <1>2, SizesAssumption
<1>4. /\ G[s][e] = FreshHeader(n) /\ \A p \in DOMAIN H[s] : p # e => G[s][p] = H[s][p]
  <2>1. FreshHeader(n) \in Words
    <3>1. [size |-> n, mask |-> {}, forward |-> FALSE] \in HeaderRecords
      BY <1>1 DEF HeaderRecords
    <3> QED BY <3>1 DEF FreshHeader, Words
  <2>2. IsWritten(H, G, s, e, FreshHeader(n))
    BY <1>1, <1>3, <2>1, WrittenFacts
  <2> QED BY <2>2 DEF IsWritten
<1>5. M[s][e] = m /\ \A p : p # e => M[s][p] = N[s][p]
  BY <1>1, <1>3, NameSet
<1>6. SizeAt(G, s, e) = n /\ MaskAt(G, s, e) = {}
  <2>1. G[s][e][2] = [size |-> n, mask |-> {}, forward |-> FALSE]
    BY <1>4, WordKinds DEF FreshHeader
  <2> QED BY <2>1 DEF SizeAt, MaskAt
<1>7. Shown(G, M, s, e) = [k \in 0 .. n - 1 |-> Plain(G[s][e + k + 1])]
  BY <1>6 DEF Shown
<1>8. ASSUME NEW o \in P PROVE o # e /\ Shown(G, M, s, o) = Shown(H, N, s, o)
  <2>1. IsTuple(H, s, o) /\ o + SizeAt(H, s, o) < L
    BY <1>1 DEF Live
  <2>2. /\ o \in Nat /\ SizeAt(H, s, o) \in Nat \ {0} /\ o + SizeAt(H, s, o) \in DOMAIN H[s]
    BY <2>1, TupleFacts
  <2>3. SameWords(H, G, s, o)
    <3> SUFFICES ASSUME NEW j \in 0 .. SizeAt(H, s, o) PROVE G[s][o + j] = H[s][o + j]
      BY DEF SameWords
    <3>1. o + j \in DOMAIN H[s] /\ o + j # e
      BY <1>1, <1>2, <2>1, <2>2, SMTT(40)
    <3> QED BY <1>4, <3>1
  <2>4. ASSUME NEW p \in P PROVE p # e
    <3>1. p + SizeAt(H, s, p) < L /\ IsTuple(H, s, p)
      BY <1>1 DEF Live
    <3>2. p \in Nat /\ SizeAt(H, s, p) \in Nat
      BY <3>1, TupleFacts
    <3> QED BY <1>1, <3>1, <3>2
  <2>5. ASSUME NEW k \in MaskAt(H, s, o)
        PROVE  M[s][H[s][o + k + 1][2][2]] = N[s][H[s][o + k + 1][2][2]]
    <3>1. PICK p \in P : H[s][o + k + 1] = Pointer(<<s, p>>)
      BY <1>1 DEF Live, PointsInto
    <3>2. H[s][o + k + 1][2] = <<s, p>>
      BY <3>1, WordKinds
    <3>3. H[s][o + k + 1][2][2] = p
      BY <3>2
    <3> QED BY <1>5, <2>4, <3>3
  <2> QED BY <2>1, <2>3, <2>4, <2>5, ShownSame
<1>9. /\ DOMAIN T = {N[s][o] : o \in P} /\ (\A o \in P : T[N[s][o]] = Shown(H, N, s, o))
      /\ q \in Seq(Names) /\ Len(q) = Len(R) /\ \A i \in 1 .. Len(R) : q[i] = N[s][R[i][2][2]]
  <2>1. T = [x \in {N[s][o] : o \in P} |-> T[x]]
    BY DEF Pictures
  <2> QED BY <2>1 DEF Pictures
<1>10. m \notin DOMAIN T
  BY <1>1, <1>9
<1>11. PICK E : E = P \cup {e}
  OBVIOUS
<1>12. \A o \in P : M[s][o] = N[s][o]
  BY <1>5, <1>8
<1>13. U = [x \in {M[s][o] : o \in E} |-> U[x]]
  <2>1. {M[s][o] : o \in E} = DOMAIN T \cup {m}
    <3>1. ASSUME NEW o \in E PROVE M[s][o] \in DOMAIN T \cup {m}
      BY <1>5, <1>9, <1>11, <1>12
    <3>2. ASSUME NEW x \in DOMAIN T \cup {m} PROVE x \in {M[s][o] : o \in E}
      <4>1. CASE x = m
        BY <1>5, <1>11, <4>1
      <4>2. CASE x \in DOMAIN T
        BY <1>9, <1>11, <1>12, <4>2
      <4> QED BY <4>1, <4>2
    <3> QED BY <3>1, <3>2
  <2> QED BY <2>1
<1>14. ASSUME NEW o \in E PROVE U[M[s][o]] = Shown(G, M, s, o)
  <2>1. CASE o = e
    BY <1>5, <2>1
  <2>2. CASE o \in P
    <3>1. M[s][o] \in DOMAIN T /\ M[s][o] # m /\ M[s][o] = N[s][o]
      BY <1>9, <1>10, <1>12, <2>2
    <3>2. U[M[s][o]] = T[N[s][o]]
      BY <3>1
    <3> QED BY <1>8, <1>9, <2>2, <3>2
  <2> QED BY <1>11, <2>1, <2>2
<1>15. PICK word : word = Pointer(<<s, e>>)
  OBVIOUS
<1>16. word \in Words /\ word[2][2] = e
  <2>1. <<s, e>> \in (0 .. 2) \X Nat
    BY <1>1
  <2>2. word[2] = <<s, e>>
    BY <1>15, WordKinds
  <2> QED BY <1>15, <2>1, <2>2 DEF Words
<1>17. /\ r \in Seq(Names) /\ Len(r) = Len(Q) /\ Len(Q) = Len(R) + 1
       /\ \A j \in 1 .. Len(Q) : \/ j \in 1 .. Len(R) /\ Q[j] = R[j] /\ r[j] = q[j]
                                 \/ Q[j] = word /\ r[j] = m
  <2>1. Q = Append(R, word)
    BY <1>1, <1>15
  <2> QED BY <1>1, <1>9, <1>15, <1>16, <2>1
<1>18. ASSUME NEW j \in 1 .. Len(Q) PROVE r[j] = M[s][Q[j][2][2]]
  <2>1. CASE Q[j] = word /\ r[j] = m
    BY <1>5, <1>16, <2>1
  <2>2. CASE j \in 1 .. Len(R) /\ Q[j] = R[j] /\ r[j] = q[j]
    <3>1. PICK o \in P : R[j] = Pointer(<<s, o>>)
      BY <1>1, <2>2 DEF Live, PointsInto
    <3>2. R[j][2] = <<s, o>>
      BY <3>1, WordKinds
    <3>3. R[j][2][2] = o
      BY <3>2
    <3> QED BY <1>9, <1>12, <2>2, <3>3
  <2> QED BY <1>17, <2>1, <2>2
<1>19. Pictures(U, r, G, M, Q, s, E)
  BY <1>13, <1>14, <1>17, <1>18 DEF Pictures
<1> QED BY <1>7, <1>10, <1>11, <1>19 DEF NewSight

LEMMA NewSeen ==
    ASSUME Running, Pushing, gc_allocate_tuple, gc_space_is_enough(want)
    PROVE  \E m \in Names, n \in Sizes : Heap!New(m, n)
<1>1. /\ GcTypes /\ SpacesGrow /\ Asked /\ Quiet /\ pc = "allocate"
      /\ heap' = [heap EXCEPT ![from][free] = FreshHeader(want)]
      /\ name' = [name EXCEPT ![from][free] =
                    CHOOSE m \in Names : \A a \in Reached : NameOf(a) # m]
      /\ roots' = Append(roots, Pointer(<<from, free>>))
      /\ from' = from
  BY DEF Running, gc_allocate_tuple, Quiet
<1>2. /\ Memory(heap) /\ Tables(name) /\ roots \in Seq(Words) /\ from \in {0, 1}
      /\ free \in Nat /\ want \in Nat \ {0} /\ want <= 24 /\ want \in Sizes
      /\ Len(roots) < RootSize
  <2>1. want > 0
    <3>1. Asked /\ pc = "allocate"
      BY <1>1
    <3> QED BY <3>1 DEF Asked
  <2>2. /\ Memory(heap) /\ Tables(name) /\ roots \in Seq(Words) /\ from \in {0, 1}
        /\ free \in Nat /\ want \in Nat /\ want <= 24
    BY <1>1 DEF GcTypes
  <2> QED BY <2>1, <2>2 DEF Pushing
<1>3. /\ size(from) \in Nat /\ size(from) <= MaxHeap /\ MaxHeap \in Nat
      /\ free + want + 1 < size(from)
  BY <1>1, SizeTypes DEF gc_space_is_enough
<1>4. PICK P \in SUBSET Nat, L \in 0 .. free : InSight(P, L)
  BY <1>1, ProgramSees
<1>5. Live(heap, name, roots, from, P, L)
  BY <1>4 DEF InSight
<1>6. IsFiniteSet(P) /\ Cardinality(P) \in Nat /\ 2 * Cardinality(P) <= L
  <2>1. \A o \in P : /\ o \in Nat /\ SizeAt(heap, from, o) \in Nat \ {0}
                     /\ o + SizeAt(heap, from, o) < L
    BY <1>5, TupleFacts DEF Live
  <2>2. Apart(heap, from, P) /\ L \in Nat
    BY <1>5 DEF Live
  <2> QED BY <2>1, <2>2, LiveCount
<1>7. Cardinality(P) < Cardinality(Names)
  <2>1. Cardinality(Names) \in Nat /\ MaxHeap <= 2 * Cardinality(Names) + 2
    BY NamesAssumption, FS_CardinalityType
  <2> QED BY <1>2, <1>3, <1>6, <2>1
<1>8. PICK m \in Names : /\ m = CHOOSE n \in Names : \A a \in Reached : NameOf(a) # n
                         /\ \A a \in Reached : NameOf(a) # m
  <2>1. \E n \in Names : \A o \in P : name[from][o] # n
    BY <1>6, <1>7, FreshName
  <2>2. Reached = At(from, P)
    BY <1>4 DEF InSight
  <2>3. \E n \in Names : \A a \in Reached : NameOf(a) # n
    BY <2>1, <2>2 DEF At, NameOf
  <2> QED BY <2>3
<1>9. Fresh(name, from, P, m)
  <2>1. \A o \in P : <<from, o>> \in Reached /\ NameOf(<<from, o>>) = name[from][o]
    BY <1>4 DEF InSight, At, NameOf
  <2> QED BY <1>8, <2>1 DEF Fresh
<1>10. PICK G, M, Q : /\ G = heap' /\ G = Written(heap, from, free, FreshHeader(want))
                      /\ M = name' /\ M = Renamed(name, from, free, m)
                      /\ Q = roots' /\ Q = Append(roots, Pointer(<<from, free>>))
  BY <1>1, <1>8 DEF Written, Renamed
<1>11. Allocates(heap, name, roots, from, P, L, free, want, m, G, M, Q)
  <2>1. free + want + 1 < Cardinality(DOMAIN heap[from])
        /\ Cardinality(DOMAIN heap[from]) <= MaxHeap
    BY <1>3 DEF size
  <2>2. L \in Nat /\ L <= free /\ want \in Nat /\ want > 0 /\ want <= 24
    BY <1>2
  <2>3. /\ G = Written(heap, from, free, FreshHeader(want))
        /\ M = Renamed(name, from, free, m) /\ Q = Append(roots, Pointer(<<from, free>>))
    BY <1>10
  <2> QED BY <1>2, <1>5, <1>9, <2>1, <2>2, <2>3, Zenon DEF Allocates
<1>12. Q \in Seq(Words) /\ Live(G, M, Q, from, P \cup {free}, free + want + 1)
  <2>1. Allocated(heap, G, M, Q, from, P \cup {free}, free + want + 1)
    BY <1>11, LiveAllocated
  <2> QED BY <2>1 DEF Allocated
<1>13. PICK T, q, fields, U :
          /\ T = AbsTuples /\ q = AbsRoots /\ fields = Shown(G, M, from, free)
          /\ U = [x \in DOMAIN T \cup {m} |-> IF x = m THEN fields ELSE T[x]]
  OBVIOUS
<1>14. Pictures(T, q, heap, name, roots, from, P)
  BY <1>4, <1>13 DEF InSight
<1>15. U = [x \in DOMAIN T \cup {m} |-> IF x = m THEN Shown(G, M, from, free) ELSE T[x]]
  BY <1>13
<1>17. PICK r : r = Append(q, m)
  OBVIOUS
<1>16. /\ Pictures(U, r, G, M, Q, from, P \cup {free}) /\ m \notin DOMAIN T
       /\ Shown(G, M, from, free) = [k \in 0 .. want - 1 |-> Plain(G[from][free + k + 1])]
  <2>1. NewSight(U, r, T, m, want, G, M, Q, from, P, free)
    BY <1>11, <1>14, <1>15, <1>17, NewPictures
  <2> QED BY <2>1 DEF NewSight
<1>18. Heap!Become(U, r)
  <2>1. PICK E, K : E = P \cup {free} /\ K = free + want + 1
    OBVIOUS
  <2>2. Live(heap', name', roots', from', E, K) /\ Pictures(U, r, heap', name', roots', from', E)
    BY <1>1, <1>10, <1>12, <1>16, <1>17, <2>1
  <2>3. roots' \in Seq(Words)
    BY <1>10, <1>12
  <2> QED BY <2>2, <2>3, ProgramBecomes
<1>19. fields \in [0 .. want - 1 -> {Atom(a) : a \in Atoms} \cup {<<"junk", "junk">>}]
  <2>1. \A word : Plain(word) \in {Atom(a) : a \in Atoms} \cup {<<"junk", "junk">>}
    BY DEF Plain
  <2> QED BY <1>13, <1>16, <2>1
<1>20. Len(q) = Len(roots)
  BY <1>14 DEF Pictures
<1>21. /\ Len(AbsRoots) < RootSize /\ m \notin DOMAIN AbsTuples
       /\ Heap!Become([x \in DOMAIN AbsTuples \cup {m} |-> IF x = m THEN fields ELSE AbsTuples[x]],
                      Append(AbsRoots, m))
  BY <1>2, <1>13, <1>16, <1>17, <1>18, <1>20
<1>22. fields \in [0 .. want - 1 -> {Heap!Atom(a) : a \in Atoms} \cup {Heap!Junk}]
  BY <1>19 DEF Heap!Atom, Heap!Junk, Atom
<1>23. Heap!New(m, want)
  BY <1>21, <1>22 DEF Heap!New, AbsTuples, AbsRoots
<1> QED BY <1>2, <1>23

LEMMA PushingStep ==
    ASSUME Running, Pushing, Next
    PROVE  Pushing'
<1>1. roots \in Seq(Words) /\ SpacesGrow
  BY DEF Running, GcTypes
<1>2. ASSUME want' = want, roots' = roots, pc' # "mutator" PROVE Pushing'
  <2>1. want # 0 => Len(roots) < RootSize
    BY DEF Pushing
  <2> QED BY <1>2, <2>1 DEF Pushing
<1>3. ASSUME NEW reason, reason \in {"abort", "wild", "exhausted"}, Stop(reason) PROVE Pushing'
  BY <1>2, <1>3 DEF Stop
<1>4. ASSUME pc = "mutator", want' = want, pc' = pc PROVE Pushing'
  BY <1>4 DEF Pushing
<1>5. CASE \E n \in Sizes : tuple_new(n)
  BY <1>5, SMTT(40) DEF tuple_new, Pushing
<1>6. CASE \E i \in DOMAIN roots, k \in 0 .. MaxTuple - 1 :
             \/ \E j \in DOMAIN roots : SetField(i, k, roots[j])
             \/ \E a \in Atoms : SetField(i, k, Atom(a))
             \/ tuple_get_tuple(i, k)
  BY <1>4, <1>6 DEF SetField, tuple_get_tuple
<1>7. CASE gc_pop_root
  BY <1>4, <1>7 DEF gc_pop_root
<1>8. CASE CallGrow
  BY <1>2, <1>8 DEF CallGrow
<1>9. CASE gc_allocate_tuple
  <2>1. CASE gc_space_is_enough(want)
    BY <1>9, <2>1 DEF gc_allocate_tuple, Pushing
  <2>2. CASE ~ gc_space_is_enough(want)
    BY <1>2, <1>9, <2>2 DEF gc_allocate_tuple, BeginCopy
  <2> QED BY <2>1, <2>2
<1>10. CASE CheckCopied
  BY <1>2, <1>10 DEF CheckCopied
<1>11. CASE gc_grow
  <2>1. CASE 2 * size(to) > MaxHeap
    BY <1>3, <1>11, <2>1 DEF gc_grow
  <2>2. CASE ~ 2 * size(to) > MaxHeap
    BY <1>2, <1>11, <2>2 DEF gc_grow, BeginCopy
  <2> QED BY <2>1, <2>2
<1>12. CASE GrowOther
  <2>1. CASE want = 0
    BY <1>12, <2>1 DEF GrowOther, Pushing
  <2>2. CASE want # 0
    BY <1>2, <1>12, <2>2 DEF GrowOther
  <2> QED BY <2>1, <2>2
<1>13. CASE CopyRoot
  <2>1. PICK copy \in gc_copy_tuple(roots[index + 1]) :
          IF copy.stop # "no" THEN Stop(copy.stop)
          ELSE /\ heap' = copy.heap /\ name' = copy.name /\ free' = copy.free
               /\ roots' = [roots EXCEPT ![index + 1] = copy.word]
               /\ index' = index + 1
               /\ UNCHANGED <<from, scan, tuple, want, pc, after>>
    BY <1>13 DEF CopyRoot
  <2>2. CASE copy.stop # "no"
    BY <1>3, <2>1, <2>2, CopyStops
  <2>3. CASE copy.stop = "no"
    <3>1. Len(roots') = Len(roots) /\ want' = want /\ pc' = pc
      BY <1>1, <2>1, <2>3
    <3> QED BY <3>1 DEF Pushing
  <2> QED BY <2>2, <2>3
<1>14. CASE RootsDone
  BY <1>2, <1>14 DEF RootsDone
<1>15. CASE ScanTuple
  <2>1. CASE scan >= size(to)
    BY <1>3, <1>15, <2>1 DEF ScanTuple
  <2>2. CASE ~ scan >= size(to)
    BY <1>2, <1>15, <2>2 DEF ScanTuple
  <2> QED BY <2>1, <2>2
<1>16. CASE ScanField
  <2>1. pc = "fields"
    BY <1>16 DEF ScanField
  <2>2. ASSUME NEW copy \in gc_copy_tuple(heap[to][tuple + index + 1]),
               IF copy.stop # "no" THEN Stop(copy.stop)
               ELSE UNCHANGED <<from, roots, scan, tuple, want, pc, after>>
        PROVE  Pushing'
    <3>1. CASE copy.stop # "no"
      BY <1>3, <2>2, <3>1, CopyStops
    <3>2. CASE copy.stop = "no"
      BY <1>2, <2>1, <2>2, <3>2
    <3> QED BY <3>1, <3>2
  <2>3. \/ pc' = "scan" /\ UNCHANGED <<roots, want>>
        \/ UNCHANGED <<roots, want, pc>>
        \/ Stop("wild")
        \/ \E copy \in gc_copy_tuple(heap[to][tuple + index + 1]) :
             IF copy.stop # "no" THEN Stop(copy.stop)
             ELSE UNCHANGED <<from, roots, scan, tuple, want, pc, after>>
    BY <1>16 DEF ScanField
  <2>4. CASE pc' = "scan" /\ UNCHANGED <<roots, want>>
    BY <1>2, <2>4
  <2>5. CASE UNCHANGED <<roots, want, pc>>
    BY <1>2, <2>1, <2>5
  <2>6. CASE Stop("wild")
    BY <1>3, <2>6
  <2> QED BY <2>2, <2>3, <2>4, <2>5, <2>6
<1>17. CASE Swap
  <2>1. pc = "scan" /\ pc' = after /\ UNCHANGED <<roots, want>>
    BY <1>17 DEF Swap
  <2>2. after \in {"check", "grown"}
    BY <1>1, <2>1 DEF SpacesGrow, Quiet
  <2> QED BY <1>2, <2>1, <2>2
<1>18. CASE Mutator
  BY <1>5, <1>6, <1>7, <1>8, <1>18 DEF Mutator
<1>19. CASE Collector
  BY <1>9, <1>10, <1>11, <1>12, <1>13, <1>14, <1>15, <1>16, <1>17, <1>19 DEF Collector
<1> QED BY <1>18, <1>19 DEF Next

LEMMA MutatorSeen ==
    ASSUME Running, Mutator
    PROVE  Unseen \/ Heap!Next
<1>1. CASE \E n \in Sizes : tuple_new(n)
  <2>1. UNCHANGED <<heap, name, roots>>
    BY <1>1 DEF tuple_new
  <2> QED BY <2>1, StillUnseen
<1>2. CASE \E i \in DOMAIN roots, k \in 0 .. MaxTuple - 1 :
             \/ \E j \in DOMAIN roots : SetField(i, k, roots[j])
             \/ \E a \in Atoms : SetField(i, k, Atom(a))
             \/ tuple_get_tuple(i, k)
  <2>1. PICK i \in DOMAIN roots, k \in 0 .. MaxTuple - 1 :
             \/ \E j \in DOMAIN roots : SetField(i, k, roots[j])
             \/ \E a \in Atoms : SetField(i, k, Atom(a))
             \/ tuple_get_tuple(i, k)
    BY <1>2
  <2>2. /\ i \in DOMAIN AbsRoots /\ k \in DOMAIN AbsTuples[AbsRoots[i]]
        /\ \/ \E j \in DOMAIN AbsRoots : Heap!SetTuple(i, k, j)
           \/ \E a \in Atoms : Heap!SetAtom(i, k, a)
           \/ Heap!GetTuple(i, k)
    BY <2>1, SetSeen, GetSeen
  <2> QED BY <2>2 DEF Heap!Next, AbsTuples, AbsRoots
<1>3. CASE gc_pop_root
  BY <1>3, PopSeen DEF Heap!Next
<1>4. CASE CallGrow
  <2>1. UNCHANGED <<heap, name, roots>>
    BY <1>4 DEF CallGrow
  <2> QED BY <2>1, StillUnseen
<1> QED BY <1>1, <1>2, <1>3, <1>4 DEF Mutator

\* What the program sees depends on these variables and on no other.
Reaches(H, R) ==
    LET children(a) == {ResolvedIn(H, WordAt(H, a, k)[2]) :
                          k \in {k \in MaskOf(H, a) : WordAt(H, a, k)[1] = "tuple"}}
        within[n \in 0 .. Cardinality(Names)] ==
          IF n = 0 THEN {ResolvedIn(H, R[i][2]) : i \in DOMAIN R}
          ELSE within[n - 1] \cup UNION {children(a) : a \in within[n - 1]}
    IN within[Cardinality(Names)]

LEMMA SeenHere ==
    /\ AbsTuples = TuplesOf(heap, name, Reaches(heap, roots))
    /\ AbsRoots = RootsOf(heap, name, roots)
<1>1. Reached = Reaches(heap, roots)
  BY Zenon DEF Reached, Reaches, Children, Resolved, ResolvedIn, HeaderOf, FieldOf, WordAt, MaskOf, MaskAt
<1> QED BY <1>1, TuplesHere

LEMMA StutterUnseen ==
    ASSUME UNCHANGED <<heap, name, roots>>
    PROVE  Unseen
<1>1. (/\ AbsTuples = TuplesOf(heap, name, Reaches(heap, roots))
       /\ AbsRoots = RootsOf(heap, name, roots))'
  BY SeenHere, PTL
<1>2. /\ AbsTuples' = TuplesOf(heap', name', Reaches(heap', roots'))
      /\ AbsRoots' = RootsOf(heap', name', roots')
  BY <1>1
<1> QED BY <1>2, SeenHere DEF Unseen

LEMMA InitSeen == Init => Heap!Init
<1> SUFFICES ASSUME Init PROVE Heap!Init
  OBVIOUS
<1>1. GcInv /\ pc = "mutator" /\ roots = <<>>
  BY InitInv DEF Init
<1>2. Running /\ Quiet
  BY <1>1 DEF GcInv, Stopped, Quiet
<1>3. PICK P \in SUBSET Nat, L \in 0 .. free : InSight(P, L)
  BY <1>2, ProgramSees
<1>4. P = {}
  <2>1. Reached = At(from, P)
    BY <1>3 DEF InSight
  <2>2. PICK E : E = {}
    OBVIOUS
  <2>3. Graph(heap, name, roots, E)
    BY <1>1, <2>2 DEF Graph
  <2>4. Reached \subseteq E
    BY <2>3, GraphCovers
  <2>5. \A o \in P : <<from, o>> \in Reached
    BY <2>1 DEF At
  <2> QED BY <2>2, <2>4, <2>5
<1>5. AbsTuples = <<>>
  <2>1. PICK T : T = AbsTuples
    OBVIOUS
  <2>2. T = [m \in {name[from][o] : o \in P} |-> T[m]]
    BY <1>3, <2>1 DEF InSight, Pictures
  <2>3. {name[from][o] : o \in P} = {}
    BY <1>4
  <2>4. T = [m \in {} |-> T[m]]
    BY <2>2, <2>3
  <2>5. T = <<>>
    BY <2>4
  <2> QED BY <2>1, <2>5
<1>6. AbsRoots = <<>>
  <2>1. AbsRoots \in Seq(Names) /\ Len(AbsRoots) = 0
    BY <1>1, <1>3 DEF InSight, Pictures
  <2> QED BY <2>1
<1> QED BY <1>5, <1>6 DEF Heap!Init, AbsTuples, AbsRoots

(* To the program, tuples stay where they are and keep their fields: every  *)
(* allocation, with the collection and the growth that it leads to, and     *)
(* every access to a tuple (gc.c, tuple.c) is one step of a heap in which   *)
(* nothing moves, and every other step of the collector does not show.      *)
THEOREM CollectorIsInvisible == Spec => ImplementsHeap
<1>1. ASSUME GcInv, Pushing, [Next]_vars PROVE Pushing' /\ [Heap!Next]_(Heap!vars)
  <2>1. CASE UNCHANGED vars
    <3>1. UNCHANGED <<heap, name, roots, want, pc>>
      BY <2>1 DEF vars
    <3>2. Pushing'
      BY <1>1, <3>1 DEF Pushing
    <3>3. Unseen
      BY <3>1, StutterUnseen
    <3> QED BY <3>2, <3>3 DEF Unseen, Heap!vars, AbsTuples, AbsRoots
  <2>2. CASE Next
    <3>1. Running
      BY <1>1, <2>2, NothingRuns DEF GcInv
    <3>2. Pushing'
      BY <1>1, <2>2, <3>1, PushingStep
    <3>3. Unseen \/ Heap!Next
      <4>1. CASE Mutator
        BY <3>1, <4>1, MutatorSeen
      <4>2. CASE Collector /\ ~ (gc_allocate_tuple /\ gc_space_is_enough(want))
        BY <3>1, <4>2, CollectorUnseen
      <4>3. CASE gc_allocate_tuple /\ gc_space_is_enough(want)
        BY <1>1, <3>1, <4>3, NewSeen DEF Heap!Next
      <4> QED BY <2>2, <4>1, <4>2, <4>3 DEF Next
    <3>4. Unseen => UNCHANGED Heap!vars
      BY DEF Unseen, Heap!vars, AbsTuples, AbsRoots
    <3> QED BY <3>2, <3>3, <3>4
  <2> QED BY <1>1, <2>1, <2>2
<1>2. Init => Pushing
  BY DEF Init, Pushing
<1> QED BY <1>1, <1>2, InitSeen, GcInvariant, PTL DEF Spec, ImplementsHeap, Heap!Spec
=============================================================================
