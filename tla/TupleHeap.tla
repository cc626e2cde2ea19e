------------------------------ MODULE TupleHeap ------------------------------
(***************************************************************************)
(* What a compiled program may rely on when it works with tuples: a heap   *)
(* in which tuples never move and are never lost while a root reaches      *)
(* them.  Collection, growth and addresses do not show.                    *)
(*                                                                         *)
(* A tuple has a name.  Only the tuples that the roots reach are kept, so  *)
(* the name of an unreachable tuple can be given to a new one.             *)
(***************************************************************************)
EXTENDS Naturals, Sequences, FiniteSets

CONSTANTS Names, Sizes, Atoms, RootSize

VARIABLES
    tuples,   \* what the fields of each reachable tuple hold
    roots     \* the names on the root stack

vars == <<tuples, roots>>

Atom(n) == <<"atom", n>>
Tuple(name) == <<"tuple", name>>
Junk == <<"junk", "junk">>   \* a field that was never set holds any word

Children(heap, name) ==
    {child \in DOMAIN heap :
        \E k \in DOMAIN heap[name] : heap[name][k] = Tuple(child)}

\* The names that stack reaches in heap.
Reachable(heap, stack) ==
    LET within[n \in 0 .. Cardinality(DOMAIN heap)] ==
          IF n = 0 THEN {stack[i] : i \in DOMAIN stack}
          ELSE within[n - 1]
                 \cup UNION {Children(heap, name) : name \in within[n - 1]}
    IN within[Cardinality(DOMAIN heap)]

Become(heap, stack) ==
    /\ roots' = stack
    /\ tuples' = [name \in Reachable(heap, stack) |-> heap[name]]

Init == tuples = <<>> /\ roots = <<>>

\* A new tuple is pushed on the root stack.
New(name, n) ==
    /\ Len(roots) < RootSize
    /\ name \notin DOMAIN tuples
    /\ \E fields \in [0 .. n - 1 -> {Atom(a) : a \in Atoms} \cup {Junk}] :
         Become([m \in DOMAIN tuples \cup {name} |->
                   IF m = name THEN fields ELSE tuples[m]],
                Append(roots, name))

SetField(i, k, word) ==
    /\ k \in DOMAIN tuples[roots[i]]
    /\ Become([tuples EXCEPT ![roots[i]][k] = word], roots)

SetTuple(i, k, j) == SetField(i, k, Tuple(roots[j]))

SetAtom(i, k, a) == SetField(i, k, Atom(a))

\* The tuple in field k of root i is pushed.
GetTuple(i, k) ==
    /\ Len(roots) < RootSize
    /\ k \in DOMAIN tuples[roots[i]]
    /\ \E name \in DOMAIN tuples :
         /\ tuples[roots[i]][k] = Tuple(name)
         /\ Become(tuples, Append(roots, name))

Pop ==
    /\ roots # <<>>
    /\ Become(tuples, SubSeq(roots, 1, Len(roots) - 1))

Next ==
    \/ \E name \in Names, n \in Sizes : New(name, n)
    \/ \E i \in DOMAIN roots : \E k \in DOMAIN tuples[roots[i]] :
         \/ \E j \in DOMAIN roots : SetTuple(i, k, j)
         \/ \E a \in Atoms : SetAtom(i, k, a)
         \/ GetTuple(i, k)
    \/ Pop

Spec == Init /\ [][Next]_vars
=============================================================================
