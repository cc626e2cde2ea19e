------------------------------ MODULE Dictionary ------------------------------
(***************************************************************************)
(* What hash.h promises: a map from contents of keys to values, that knows *)
(* which key object stands for a content.                                  *)
(***************************************************************************)
EXTENDS Integers, FiniteSets

CONSTANTS
    Keys,          \* the key objects
    ContentOf(_),  \* what key_equal_fn compares
    Values, NULL

VARIABLES map, result

vars == <<map, result>>

\* What a call returns: a number, with 1 for true, or NULL; a value; an entry.
Answer(r) == <<"number", r>>
Value(v) == <<"value", v>>
Visited(pair) == <<"entry", pair.key, pair.value>>

Returns(r) == result' = Answer(r)

Init == map = <<>> /\ result = Answer(NULL)

With(c, pair) == [d \in DOMAIN map \cup {c} |-> IF d = c THEN pair ELSE map[d]]

Set(k, v) ==
    IF ContentOf(k) \in DOMAIN map THEN Returns(0) /\ UNCHANGED map
    ELSE Returns(1) /\ map' = With(ContentOf(k), [key |-> k, value |-> v])

\* "put will not update the key if the entry exists."
Put(k, v) ==
    LET c == ContentOf(k)
        key == IF c \in DOMAIN map THEN map[c].key ELSE k
    IN Returns(NULL) /\ map' = With(c, [key |-> key, value |-> v])

Get(k) ==
    /\ UNCHANGED map
    /\ IF ContentOf(k) \in DOMAIN map
       THEN result' = Value(map[ContentOf(k)].value) ELSE Returns(NULL)

Delete(k) ==
    /\ Returns(IF ContentOf(k) \in DOMAIN map THEN 1 ELSE 0)
    /\ map' = [d \in DOMAIN map \ {ContentOf(k)} |-> map[d]]

Purge == Returns(NULL) /\ map' = <<>>

\* A step of an iteration that returns an entry, or the end.
Visit ==
    /\ \/ Returns(NULL)
       \/ \E c \in DOMAIN map : result' = Visited(map[c])
    /\ UNCHANGED map

Length == Returns(Cardinality(DOMAIN map)) /\ UNCHANGED map

Next ==
    \/ Purge \/ Visit \/ Length
    \/ \E k \in Keys :
         \/ \E v \in Values : Set(k, v) \/ Put(k, v)
         \/ Get(k) \/ Delete(k)

Spec == Init /\ [][Next]_vars
=============================================================================
