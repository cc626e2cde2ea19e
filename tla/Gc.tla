--------------------------------- MODULE Gc ---------------------------------
(***************************************************************************)
(* The copying collector of src/gc/gc.c and the tuples of src/gc/tuple.c,  *)
(* with the part of a compiled program as the mutator.                     *)
(*                                                                         *)
(* The two spaces are arrays of words.  A word is a header, the address of *)
(* a tuple, or an atom, and stays in a space until something overwrites    *)
(* it: collection clears nothing, so the to-space holds the tuples of the  *)
(* collection before.  The mutator takes one step per call; the collector  *)
(* takes one step per tuple it copies or scans.  A failed assertion ends   *)
(* the program ("abort"), and so does an access outside a space ("wild"),  *)
(* after which the C program has no defined behaviour.                     *)
(*                                                                         *)
(* name is not in the code: it gives every tuple an identity that survives *)
(* its moves, for the comparison with TupleHeap.                           *)
(***************************************************************************)
EXTENDS Integers, Sequences, FiniteSets

CONSTANTS
    HeapSize,    \* gc_new(root_size, heap_size)
    RootSize,
    MaxHeap,     \* words; realloc fails beyond
    Sizes,       \* of the tuples that the mutator makes
    MaxTuple,    \* fields: 24, though tuple_init takes up to 50
    MaxHeader,   \* what a header can tell: 63 fields, in six bits
    Atoms,       \* that the mutator stores
    Names,
    None

\* tuple_init asserts 50, but from index 24 on the mask of tuple_set_tuple and
\* tuple_set_atom is not what the header format says (see shifted).
ASSUME SizesAssumption ==
    /\ HeapSize \in Nat \ {0} /\ RootSize \in Nat \ {0} /\ MaxHeap \in Nat
    /\ MaxTuple \in 0 .. 24 /\ Sizes \subseteq 1 .. MaxTuple
    /\ MaxHeader \in Nat /\ MaxTuple <= MaxHeader
    /\ Atoms \subseteq Nat

\* gc_new finds the memory it asks for, and there are names for as many tuples
\* as fit in a space.
ASSUME NamesAssumption ==
    /\ HeapSize <= MaxHeap
    /\ IsFiniteSet(Names) /\ MaxHeap <= 2 * Cardinality(Names) + 2

VARIABLES
    heap,    \* the words of space 0 and of space 1
    name,    \* the name of the tuple that starts at an offset of a space
    from,    \* which of the two is from_space
    roots,   \* root_space up to root_pointer
    free, scan,     \* free_pointer, scan_pointer: offsets
    tuple, index,   \* the locals of the loops of gc_copy
    want,    \* the size gc_allocate_tuple was asked for, 0 in gc_grow
    pc, after       \* where the collector is, and where gc_copy returns to

vars == <<heap, name, from, roots, free, scan, tuple, index, want, pc, after>>

to == 1 - from
size(space) == Cardinality(DOMAIN heap[space])

-----------------------------------------------------------------------------
(* tuple.c: words and headers *)

Atom(n) == <<"atom", n>>
Pointer(address) == <<"tuple", address>>
Nowhere == 2   \* instead of a space: a block that realloc has freed
Header(h) == <<"header", h>>

\* Of a header: bit 0 is forward, bits 1 to 6 are the size, and bit i + 7 is
\* the mask's for index i.
Headers == [size : 0 .. MaxHeader, mask : SUBSET (0 .. MaxHeader - 1),
            forward : BOOLEAN]

\* tuple_init
FreshHeader(n) == Header([size |-> n, mask |-> {}, forward |-> FALSE])

has_bit(n, bit) == (n \div 2 ^ bit) % 2 = 1

\* What tuple_size, tuple_is_tuple_index and tuple_is_forward make of a word.
\* An address is a multiple of eight, and its other bits can be any.  A shift
\* by 64 and more, from index 57 on, is undefined: any bit.
AsHeader(word) ==
    CASE word[1] = "header" -> {word[2]}
      [] word[1] = "atom" ->
           LET bits == {i \in 0 .. MaxHeader - 1 :
                          i < 57 /\ has_bit(word[2], i + 7)}
           IN {[size |-> (word[2] % 128) \div 2, mask |-> bits \cup beyond,
                forward |-> word[2] % 2 = 1] :
                 beyond \in SUBSET (57 .. MaxHeader - 1)}
      [] word[1] = "tuple" ->
           {h \in Headers : h.size % 4 = 0 /\ ~ h.forward}

\* 1 << (index + 7) is an int: x86-64 takes the count modulo 32, and the sign
\* of bit 31 is extended to the 64 bits.  Up to index 23 that is bit i + 7.
shifted(i) == (i + 7) % 32

mask_bits(bit) == IF bit = 31 THEN 24 .. 56 ELSE {bit - 7}

size_bit(bit) == <<1, 2, 4, 8, 16, 32>>[bit]

\* header | (1 << (index + 7))
with_bit(h, i) ==
    LET bit == shifted(i)
    IN IF bit = 0 THEN [h EXCEPT !.forward = TRUE]
       ELSE IF bit < 7
       THEN [h EXCEPT !.size = IF (@ \div size_bit(bit)) % 2 = 1 THEN @
                               ELSE @ + size_bit(bit)]
       ELSE [h EXCEPT !.mask = @ \cup mask_bits(bit)]

\* header & ~(1 << (index + 7))
without_bit(h, i) ==
    LET bit == shifted(i)
    IN IF bit = 0 THEN [h EXCEPT !.forward = FALSE]
       ELSE IF bit < 7
       THEN [h EXCEPT !.size = IF (@ \div size_bit(bit)) % 2 = 1
                               THEN @ - size_bit(bit) ELSE @]
       ELSE [h EXCEPT !.mask = @ \ mask_bits(bit)]

\* The heap after tuple_set_tuple and after tuple_set_atom.
stored(h, space, offset, i, word, header) ==
    [h EXCEPT ![space][offset] = Header(header),
              ![space][offset + i + 1] = word]

\* A slip: the field is stored and its bit in the mask is not.
tuple_set_tuple_unmasked(h, space, offset, i, word) ==
    stored(h, space, offset, i, word, h[space][offset][2])

tuple_set_tuple(h, space, offset, i, word) ==
    stored(h, space, offset, i, word, with_bit(h[space][offset][2], i))

tuple_set_atom(h, space, offset, i, word) ==
    stored(h, space, offset, i, word, without_bit(h[space][offset][2], i))

-----------------------------------------------------------------------------
(* gc.c *)

Init ==    \* gc_new
    /\ heap = [s \in {0, 1} |-> [o \in 0 .. HeapSize - 1 |-> Atom(0)]]
    /\ name = [s \in {0, 1} |-> [o \in 0 .. MaxHeap - 1 |-> None]]
    /\ from = 0
    /\ roots = <<>>
    /\ free = 0 /\ scan = 0
    /\ tuple = 0 /\ index = 0
    /\ want = 0
    /\ pc = "mutator" /\ after = "mutator"

\* A slip: the fields have to fit, and the header is not thought of.
gc_space_is_enough_headless(n) == free + n <= size(from)

gc_space_is_enough(n) == free + n + 1 < size(from)

in_from_space(word) ==
    word[1] = "tuple" /\ word[2][1] = from /\ word[2][2] < size(from)

Stop(reason) ==
    /\ pc' = reason
    /\ UNCHANGED <<heap, name, from, roots, free, scan, tuple, index, want,
                   after>>

\* The first lines of gc_copy.
BeginCopy(return) ==
    /\ scan' = 0 /\ free' = 0 /\ index' = 0
    /\ pc' = "roots" /\ after' = return
    /\ UNCHANGED <<name, from, roots, tuple>>

\* The heap after gc_grow_to_space: realloc keeps the words and
\* reallocate_pointers clears the rest.  If the block has moved, the addresses
\* that point into the old one lead nowhere.
grown(moved) ==
    LET dangling(word) ==
          IF moved /\ word[1] = "tuple" /\ word[2][1] = to
          THEN Pointer(<<Nowhere, word[2][2]>>) ELSE word
    IN [s \in {0, 1} |->
          [o \in 0 .. (IF s = to THEN 2 ELSE 1) * size(s) - 1 |->
             IF o < size(s) THEN dangling(heap[s][o]) ELSE Atom(0)]]

\* A slip: the copied tuple does not become a forward.
copied_unforwarded(o, h) ==
    [heap EXCEPT ![to] = [p \in DOMAIN heap[to] |->
       IF p = free THEN Header(h)
       ELSE IF p \in free .. free + h.size THEN heap[from][o + p - free]
       ELSE heap[to][p]]]

\* The heap after gc_copy_tuple has copied the n + 1 words at offset o.
copied(o, h) ==
    [heap EXCEPT
       ![to] = [p \in DOMAIN heap[to] |->
                  IF p = free THEN Header(h)
                  ELSE IF p \in free .. free + h.size
                  THEN heap[from][o + p - free]
                  ELSE heap[to][p]],
       ![from] = [heap[from] EXCEPT
                    ![o] = Header([h EXCEPT !.forward = TRUE]),
                    ![o + 1] = Pointer(<<to, free>>)]]

\* What gc_copy_tuple(word) does, for each header its word may be taken for:
\* it stops the program, or it returns a word.
gc_copy_tuple(word) ==
    LET o == word[2][2]
        stopped(reason) == [stop |-> reason]
        returned(h, n, f, w) ==
          [stop |-> "no", heap |-> h, name |-> n, free |-> f, word |-> w]
    IN IF ~ in_from_space(word) \/ free >= size(to) THEN {stopped("abort")}
       ELSE {IF \/ o + 1 >= size(from)
                \/ ~ h.forward /\ o + h.size >= size(from)
                \/ ~ h.forward /\ free + h.size >= size(to)
             THEN stopped("wild")
             ELSE IF h.forward
             THEN returned(heap, name, free, heap[from][o + 1])
             ELSE returned(copied(o, h),
                           [name EXCEPT ![to][free] = name[from][o]],
                           free + h.size + 1, Pointer(<<to, free>>)) :
             h \in AsHeader(heap[from][o])}

-----------------------------------------------------------------------------
(* What the roots reach, in the middle of a collection too: a tuple that   *)
(* has been copied is its copy.                                            *)

HeaderOf(a) == heap[a[1]][a[2]][2]

NameOf(a) == name[a[1]][a[2]]

Resolved(a) == IF HeaderOf(a).forward THEN heap[a[1]][a[2] + 1][2] ELSE a

FieldOf(a, k) == heap[a[1]][a[2] + k + 1]

Children(a) ==
    {Resolved(FieldOf(a, k)[2]) :
        k \in {k \in HeaderOf(a).mask : FieldOf(a, k)[1] = "tuple"}}

Reached ==
    LET within[n \in 0 .. Cardinality(Names)] ==
          IF n = 0 THEN {Resolved(roots[i][2]) : i \in DOMAIN roots}
          ELSE within[n - 1] \cup UNION {Children(a) : a \in within[n - 1]}
    IN within[Cardinality(Names)]

-----------------------------------------------------------------------------
(* The mutator.  What it holds across a call is on the root stack.         *)

tuple_new(n) ==
    /\ pc = "mutator"
    /\ Len(roots) < RootSize
    /\ want' = n
    /\ pc' = "allocate"
    /\ UNCHANGED <<heap, name, from, roots, free, scan, tuple, index, after>>

SetField(i, k, word) ==
    LET s == roots[i][2][1]
        o == roots[i][2][2]
    IN /\ pc = "mutator"
       /\ k < heap[s][o][2].size
       /\ heap' = IF word[1] = "tuple"
                  THEN tuple_set_tuple(heap, s, o, k, word)
                  ELSE tuple_set_atom(heap, s, o, k, word)
       /\ UNCHANGED <<name, from, roots, free, scan, tuple, index, want, pc,
                      after>>

tuple_get_tuple(i, k) ==
    LET s == roots[i][2][1]
        o == roots[i][2][2]
    IN /\ pc = "mutator"
       /\ Len(roots) < RootSize
       /\ k \in heap[s][o][2].mask
       /\ roots' = Append(roots, heap[s][o + k + 1])
       /\ UNCHANGED <<heap, name, from, free, scan, tuple, index, want, pc,
                      after>>

gc_pop_root ==
    /\ pc = "mutator"
    /\ roots # <<>>
    /\ roots' = SubSeq(roots, 1, Len(roots) - 1)
    /\ UNCHANGED <<heap, name, from, free, scan, tuple, index, want, pc,
                   after>>

-----------------------------------------------------------------------------
(* The collector *)

\* gc_allocate_tuple; the result is pushed on the root stack.  The name of
\* the new tuple is one that no tuple in reach of the roots has.
gc_allocate_tuple ==
    /\ pc = "allocate"
    /\ IF gc_space_is_enough(want)
       THEN /\ heap' = [heap EXCEPT ![from][free] = FreshHeader(want)]
            /\ name' = [name EXCEPT ![from][free] =
                          CHOOSE m \in Names : \A a \in Reached : NameOf(a) # m]
            /\ roots' = Append(roots, Pointer(<<from, free>>))
            /\ free' = free + want + 1
            /\ want' = 0
            /\ pc' = "mutator"
            /\ UNCHANGED <<from, scan, tuple, index, after>>
       ELSE BeginCopy("check") /\ UNCHANGED <<heap, want>>

\* A slip: gc_allocate_tuple tries again without a test after the collection.
CheckCopied_untested ==
    /\ pc = "check"
    /\ pc' = "allocate"
    /\ UNCHANGED <<heap, name, from, roots, free, scan, tuple, index, want,
                   after>>

\* Back from the first gc_copy of gc_allocate_tuple.
CheckCopied ==
    /\ pc = "check"
    /\ pc' = IF gc_space_is_enough(want) THEN "allocate" ELSE "grow"
    /\ UNCHANGED <<heap, name, from, roots, free, scan, tuple, index, want,
                   after>>

\* gc_grow called by the mutator
CallGrow ==
    /\ pc = "mutator"
    /\ pc' = "grow"
    /\ UNCHANGED <<heap, name, from, roots, free, scan, tuple, index, want,
                   after>>

\* gc_grow up to the call of gc_copy
gc_grow ==
    /\ pc = "grow"
    /\ IF 2 * size(to) > MaxHeap THEN Stop("exhausted")
       ELSE /\ \E moved \in BOOLEAN : heap' = grown(moved)
            /\ BeginCopy("grown")
            /\ UNCHANGED want

\* gc_grow after gc_copy, and the recursive call in gc_allocate_tuple
GrowOther ==
    /\ pc = "grown"
    /\ \E moved \in BOOLEAN : heap' = grown(moved)
    /\ pc' = IF want = 0 THEN "mutator" ELSE "allocate"
    /\ UNCHANGED <<name, from, roots, free, scan, tuple, index, want, after>>

CopyRoot ==
    /\ pc = "roots"
    /\ index < Len(roots)
    /\ \E copy \in gc_copy_tuple(roots[index + 1]) :
         IF copy.stop # "no" THEN Stop(copy.stop)
         ELSE /\ heap' = copy.heap /\ name' = copy.name /\ free' = copy.free
              /\ roots' = [roots EXCEPT ![index + 1] = copy.word]
              /\ index' = index + 1
              /\ UNCHANGED <<from, scan, tuple, want, pc, after>>

RootsDone ==
    /\ pc = "roots"
    /\ index = Len(roots)
    /\ pc' = "scan"
    /\ UNCHANGED <<heap, name, from, roots, free, scan, tuple, index, want,
                   after>>

\* while (self->scan_pointer <= self->free_pointer)
MoreToScan == scan <= free

ScanTuple ==
    /\ pc = "scan"
    /\ MoreToScan
    /\ IF scan >= size(to) THEN Stop("wild")
       ELSE \E h \in AsHeader(heap[to][scan]) :
              /\ heap' = [heap EXCEPT ![to][scan] = Header(h)]
              /\ tuple' = scan
              /\ scan' = scan + h.size + 1
              /\ index' = 0
              /\ pc' = "fields"
              /\ UNCHANGED <<name, from, roots, free, want, after>>

\* One turn of the loop over the fields of the scanned tuple.
ScanField ==
    LET h == heap[to][tuple][2]
    IN /\ pc = "fields"
       /\ IF index >= h.size
          THEN /\ pc' = "scan"
               /\ UNCHANGED <<heap, name, from, roots, free, scan, tuple, index,
                              want, after>>
          ELSE IF index \notin h.mask
          THEN /\ index' = index + 1
               /\ UNCHANGED <<heap, name, from, roots, free, scan, tuple, want,
                              pc, after>>
          ELSE IF tuple + index + 1 >= size(to) THEN Stop("wild")
          ELSE \E copy \in gc_copy_tuple(heap[to][tuple + index + 1]) :
                 IF copy.stop # "no" THEN Stop(copy.stop)
                 ELSE /\ heap' = tuple_set_tuple(copy.heap, to, tuple, index,
                                                 copy.word)
                      /\ name' = copy.name /\ free' = copy.free
                      /\ index' = index + 1
                      /\ UNCHANGED <<from, roots, scan, tuple, want, pc, after>>

\* The end of gc_copy: the spaces change roles.
Swap ==
    /\ pc = "scan"
    /\ ~ MoreToScan
    /\ from' = to
    /\ pc' = after
    /\ tuple' = 0 /\ index' = 0
    /\ name' = [name EXCEPT ![from] = [o \in 0 .. MaxHeap - 1 |-> None]]
    /\ UNCHANGED <<heap, roots, free, scan, want, after>>

-----------------------------------------------------------------------------

Mutator ==
    \/ \E n \in Sizes : tuple_new(n)
    \/ \E i \in DOMAIN roots, k \in 0 .. MaxTuple - 1 :
         \/ \E j \in DOMAIN roots : SetField(i, k, roots[j])
         \/ \E a \in Atoms : SetField(i, k, Atom(a))
         \/ tuple_get_tuple(i, k)
    \/ gc_pop_root
    \/ CallGrow

Collector ==
    \/ gc_allocate_tuple \/ CheckCopied \/ gc_grow \/ GrowOther
    \/ CopyRoot \/ RootsDone \/ ScanTuple \/ ScanField \/ Swap

Next == Mutator \/ Collector

Spec == Init /\ [][Next]_vars

\* The collector runs to the end of what it was called for.
FairSpec == Spec /\ WF_vars(Collector)

-----------------------------------------------------------------------------

Fields(a) ==
    [k \in 0 .. HeaderOf(a).size - 1 |->
       LET word == FieldOf(a, k) IN
       IF k \in HeaderOf(a).mask /\ word[1] = "tuple"
       THEN Pointer(NameOf(Resolved(word[2])))
       ELSE IF word \in {Atom(n) : n \in Atoms} THEN word
       ELSE <<"junk", "junk">>]

Heap == INSTANCE TupleHeap WITH
    tuples <- [m \in {NameOf(a) : a \in Reached} |->
                 Fields(CHOOSE a \in Reached : NameOf(a) = m)],
    roots <- [i \in DOMAIN roots |-> NameOf(Resolved(roots[i][2]))]

\* To the program, tuples stay where they are and keep their fields: every
\* allocation, with the collection and the growth it leads to, and every
\* access (gc_copy, gc_grow, gc_allocate_tuple, tuple.c) is a step of a heap
\* in which nothing moves.
ImplementsHeap == Heap!Spec

\* In the middle of a collection too, no tuple has two copies: the forward in
\* the header is set at the first visit and believed at the next
\* (gc.c:120-131).
SharingKept ==
    \A a, b \in Reached : NameOf(a) = NameOf(b) => a = b

\* Whenever the program runs, what it can reach is whole: each tuple is in the
\* from-space with all its fields, below free_pointer, where the next tuple goes,
\* and no two share a word; and free_pointer has not left the space
\* (gc_space_is_enough gc.c:66, the copies and the swap gc.c:135-172).
TuplesWhole ==
    pc = "mutator" =>
      /\ free <= size(from)
      /\ \A a \in Reached : a[1] = from /\ a[2] + HeaderOf(a).size < free
      /\ \A a, b \in Reached : a[2] < b[2] => a[2] + HeaderOf(a).size < b[2]

\* The assertion gc.c:117, that everything gc_copy_tuple is asked to copy is
\* in the from-space, and gc.c:118, that free_pointer is in the to-space.
NeverAborts == pc # "abort"

\* A call of the collector returns or stops the program: neither loop of
\* gc_copy goes on for ever, and gc_allocate_tuple does not collect for ever.
CollectionEnds ==
    pc # "mutator" ~> pc \in {"mutator", "abort", "wild", "exhausted"}
=============================================================================
