------------------------------ MODULE Containers ------------------------------
(***************************************************************************)
(* What the containers under src/helpers/ hold: pointers to objects of the *)
(* program, and NULL.                                                      *)
(***************************************************************************)
EXTENDS Integers, Sequences, FiniteSets

CONSTANTS Values, NULL

ASSUME ContainersAssumption == NULL \notin Values
=============================================================================
