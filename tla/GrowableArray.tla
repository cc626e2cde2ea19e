----------------------------- MODULE GrowableArray -----------------------------
(***************************************************************************)
(* What array.h and stack.h promise: a sequence that may be set beyond its *)
(* end, that answers NULL there, and that a value can be tucked into.      *)
(***************************************************************************)
EXTENDS Integers, Sequences

CONSTANTS
    Values, NULL,
    Indexes   \* that are set and asked for

VARIABLES
    items,
    reply   \* of the last call: <<>>, or an index and what is there

vars == <<items, reply>>

Init == items = <<>> /\ reply = <<>>

\* What is at index i, which counts from 0.
At(i) == IF i < Len(items) THEN items[i + 1] ELSE NULL

\* The items with v at index i; those skipped are NULL.
With(i, v) ==
    [j \in 1 .. (IF i < Len(items) THEN Len(items) ELSE i + 1) |->
       IF j = i + 1 THEN v ELSE At(j - 1)]

Set(i, v) == items' = With(i, v) /\ reply' = <<>>

Pop ==
    /\ items # <<>>
    /\ items' = [j \in 1 .. Len(items) - 1 |-> items[j]]
    /\ reply' = <<Len(items) - 1, At(Len(items) - 1)>>

Ask(i) == UNCHANGED items /\ reply' = <<i, At(i)>>

\* v goes in under the n topmost items.
Tuck(n, v) ==
    /\ items' = [j \in 1 .. Len(items) + 1 |->
                   IF j <= Len(items) - n THEN items[j]
                   ELSE IF j = Len(items) - n + 1 THEN v ELSE items[j - 1]]
    /\ reply' = <<>>

\* Room is made for later.
Reserve == UNCHANGED items /\ reply' = <<>>

Purge == items' = <<>> /\ reply' = <<>>

Next ==
    \/ Reserve \/ Purge \/ Pop
    \/ \E i \in Indexes : (\E v \in Values : Set(i, v)) \/ Ask(i)
    \/ \E n \in 0 .. Len(items), v \in Values : Tuck(n, v)

Spec == Init /\ [][Next]_vars
=============================================================================
