------------------------------ MODULE MCAllocator ------------------------------
(* An instance of Allocator for TLC. *)
EXTENDS Allocator

\* The values 1, 2, ... pushed in this order: with the values renamed it is any
\* other order.
InOrder == stack = [n \in 1 .. Cardinality(Values) |-> n] /\ Init

OneOrder == InOrder /\ [][Next]_vars /\ Fairness
=============================================================================
