------------------------------- MODULE LangC -------------------------------
(***************************************************************************)
(* The language with explicit control: labelled sequences of statements    *)
(* (packages/compiler.x/src/langs/c).  Its expressions are the atoms of    *)
(* the source language and primitives of atoms.                            *)
(*                                                                         *)
(* The repository has no interpreter for it; run_seq is what the names of  *)
(* its constructors mean.                                                  *)
(***************************************************************************)
EXTENDS LangS

Assign(name, type, rhs) == [stmt |-> "assign", name |-> name, type |-> type, rhs |-> rhs]
Effect(rhs) == [stmt |-> "effect", rhs |-> rhs]

Cons(stmt, tail) == [seq |-> "cons", stmt |-> stmt, tail |-> tail]
Return(result) == [seq |-> "return", result |-> result]
Goto(label) == [seq |-> "goto", label |-> label]
Branch(condition, then, else) ==
    [seq |-> "branch", condition |-> condition, then |-> then, else |-> else]

(* A sequence that no case of the compiler makes. *)
NoSeq == [seq |-> "no-match"]

(* The statements of a sequence, in order. *)
RECURSIVE Stmts(_)
Stmts(seq) == IF seq.seq = "cons" THEN <<seq.stmt>> \o Stmts(seq.tail) ELSE <<>>

RECURSIVE SeqHasNoMatch(_)
SeqHasNoMatch(seq) ==
    CASE seq.seq = "cons" -> HasNoMatch(seq.stmt.rhs) \/ SeqHasNoMatch(seq.tail)
      [] seq.seq = "return" -> HasNoMatch(seq.result)
      [] OTHER -> seq = NoSeq

RECURSIVE run_seq(_, _, _, _)
run_seq(seqs, seq, env, world) ==
    CASE seq.seq = "cons" ->
           LET rhs == eval_exp(seq.stmt.rhs, env, world)
           IN  run_seq(seqs, seq.tail,
                       IF seq.stmt.stmt = "assign" THEN (seq.stmt.name :> rhs.value) @@ env ELSE env,
                       rhs.world)
      [] seq.seq = "return" -> eval_exp(seq.result, env, world)
      [] seq.seq = "goto" -> run_seq(seqs, seqs[seq.label], env, world)
      [] seq.seq = "branch" ->
           LET condition == eval_exp(seq.condition, env, world)
               label == IF condition.value.bool THEN seq.then ELSE seq.else
           IN  run_seq(seqs, seqs[label], env, condition.world)

run_c_mod(seqs, dice) == run_seq(seqs, seqs[<<"begin">>], <<>>, [dice |-> dice, out |-> <<>>])
=============================================================================
