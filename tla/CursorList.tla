------------------------------ MODULE CursorList ------------------------------
(***************************************************************************)
(* What a program may rely on when it uses list_t: a sequence with a       *)
(* cursor, at, that is 0 or a position, stays at its value while other     *)
(* values come and go, and becomes 0 when its value leaves.                *)
(***************************************************************************)
EXTENDS Integers, Sequences

CONSTANTS Values, Equal, NULL

VARIABLES items, at, result

vars == <<items, at, result>>

Init == items = <<>> /\ at = 0 /\ result = <<>>

ItemAt(i) == IF i \in DOMAIN items THEN items[i] ELSE NULL

Without(i) == SubSeq(items, 1, i - 1) \o SubSeq(items, i + 1, Len(items))

\* The first position of a value that is v or is equal to it, or 0.
PositionOf(v) ==
    LET matches == {i \in DOMAIN items : items[i] = v \/ <<items[i], v>> \in Equal}
    IN IF matches = {} THEN 0
       ELSE CHOOSE i \in matches : \A j \in matches : i <= j

PushBack(v) ==
    /\ UNCHANGED at /\ result' = <<NULL>>
    /\ items' = Append(items, v)

PushFront(v) ==
    /\ result' = <<NULL>>
    /\ items' = <<v>> \o items
    /\ at' = IF at = 0 THEN 0 ELSE at + 1

\* The value at position i leaves, if there is one; r is returned.
Leave(i, r) ==
    /\ result' = <<r>>
    /\ i \in DOMAIN items
    /\ items' = Without(i)
    /\ at' = CASE at = i -> 0 [] at > i -> at - 1 [] at < i -> at

PopBack == Leave(Len(items), ItemAt(Len(items)))

PopFront == Leave(1, ItemAt(1))

Remove(v) == Leave(PositionOf(v), TRUE)

Answer(r) == result' = <<r>> /\ UNCHANGED <<items, at>>

MoveTo(i) == at' = i /\ result' = <<ItemAt(i)>> /\ UNCHANGED items

Front == IF items = <<>> THEN 0 ELSE 1

\* A value that is not there leaves the cursor at the front.
Find(v) ==
    /\ result' = <<ItemAt(PositionOf(v))>>
    /\ UNCHANGED items
    /\ at' = IF PositionOf(v) = 0 THEN Front ELSE PositionOf(v)

\* Past either end the cursor is 0, and from 0 it goes on at the other one.
Forward == MoveTo(IF at = Len(items) THEN IF at = 0 THEN Front ELSE 0
                  ELSE at + 1)

Backward == MoveTo(IF at = 0 THEN Len(items) ELSE at - 1)

Clear == result' = <<NULL>> /\ at' = 0 /\ items' = <<>>

\* A copy walks the list with its cursor.
Copy(copy) == result' = copy /\ at' = 0 /\ UNCHANGED items

Next ==
    \/ Copy(items) \/ Copy([i \in DOMAIN items |-> items[Len(items) + 1 - i]])
    \/ \E v \in Values :
         PushBack(v) \/ PushFront(v) \/ Remove(v) \/ Find(v)
    \/ \E v \in Values : Answer(PositionOf(v) # 0)
    \/ PopBack \/ PopFront
    \/ MoveTo(Front) \/ MoveTo(Len(items)) \/ Forward \/ Backward
    \/ \E i \in 0 .. Len(items) : Answer(ItemAt(i + 1))
    \/ Answer(at = Len(items))
    \/ items = <<>> /\ Answer(NULL)
    \/ Clear

Spec == Init /\ [][Next]_vars
=============================================================================
