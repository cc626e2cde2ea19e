--------------------------- MODULE ControlPasses ---------------------------
(***************************************************************************)
(* explicate-control and uncover-locals                                    *)
(* (packages/compiler.x/src/passes/030 and 031).                           *)
(*                                                                         *)
(* The code collects labelled sequences in a record that every function    *)
(* changes; here each operator takes the sequences so far and returns them *)
(* with the sequence it has made.                                          *)
(***************************************************************************)
EXTENDS LangC, FiniteSets

Made(seqs, seq) == [seqs |-> seqs, seq |-> seq]

(* Types are dropped. *)
exp_to_c_exp(exp) ==
    CASE exp.exp = "the" /\ IsAtom(exp.inner) -> exp.inner
      [] exp.exp = "the" /\ exp.inner.exp = "prim" ->
           Prim(exp.inner.op, [i \in DOMAIN exp.inner.args |-> exp.inner.args[i].inner])
      [] OTHER -> NoMatch

(* An equal sequence is not stored twice: its label is used again. *)
generate_label(seqs, name, seq) ==
    LET found == {l \in DOMAIN seqs : seqs[l] = seq}
        label == IF found = {} THEN <<"begin", name, Cardinality(DOMAIN seqs)>>
                 ELSE CHOOSE l \in found : TRUE
    IN  [seqs |-> (label :> seq) @@ seqs, label |-> label]

(* All but the last of a begin: each for its effect. *)
RECURSIVE explicate_begin(_, _)
explicate_begin(sequence, cont) ==
    IF sequence = <<>> THEN cont
    ELSE Cons(Effect(exp_to_c_exp(Head(sequence))), explicate_begin(Tail(sequence), cont))

RECURSIVE explicate_assign(_, _, _, _), explicate_if(_, _, _, _)
explicate_assign(seqs, name, rhs, cont) ==
    LET inner == rhs.inner
    IN  CASE inner.exp = "let" ->
               LET body == explicate_assign(seqs, name, inner.body, cont)
               IN  explicate_assign(body.seqs, inner.name, inner.rhs, body.seq)
          [] inner.exp = "begin" /\ inner.sequence = <<>> ->
               explicate_assign(seqs, name, The("void", VoidExp), cont)
          [] inner.exp = "begin" /\ inner.sequence # <<>> ->
               LET last == explicate_assign(seqs, name, Last(inner.sequence), cont)
               IN  Made(last.seqs, explicate_begin(Front(inner.sequence), last.seq))
          [] inner.exp = "if" ->
               LET body == generate_label(seqs, "let_body", cont)
                   then == explicate_assign(body.seqs, name, inner.then, Goto(body.label))
                   else == explicate_assign(then.seqs, name, inner.else, Goto(body.label))
               IN  explicate_if(else.seqs, inner.condition, then.seq, else.seq)
          [] OTHER -> Made(seqs, Cons(Assign(name, rhs.type, exp_to_c_exp(rhs)), cont))

(* A condition with the two sequences that come after it.  A variable is   *)
(* compared with #t in an expression without a type, for which there is no *)
(* case.  Both sequences are made before a constant drops one of them, so  *)
(* that a missing case in either stops the compiler.                       *)
explicate_if(seqs, condition, then_cont, else_cont) ==
    LET inner == condition.inner
    IN  CASE inner.exp = "bool" ->
               Made(seqs, IF SeqHasNoMatch(then_cont) \/ SeqHasNoMatch(else_cont) THEN NoSeq
                          ELSE IF inner.bool THEN then_cont ELSE else_cont)
          [] IsPrim(inner, {"not"}) ->
               explicate_if(seqs, inner.args[1], else_cont, then_cont)
          [] IsPrim(inner, CmpOps) ->
               LET then == generate_label(seqs, "then", then_cont)
                   else == generate_label(then.seqs, "else", else_cont)
               IN  Made(else.seqs, Branch(exp_to_c_exp(condition), then.label, else.label))
          [] inner.exp = "let" ->
               LET body == explicate_if(seqs, inner.body, then_cont, else_cont)
               IN  explicate_assign(body.seqs, inner.name, inner.rhs, body.seq)
          [] inner.exp = "begin" ->
               LET last == explicate_if(seqs, Last(inner.sequence), then_cont, else_cont)
               IN  Made(last.seqs, explicate_begin(Front(inner.sequence), last.seq))
          [] inner.exp = "if" ->
               LET then == generate_label(seqs, "then", then_cont)
                   else == generate_label(then.seqs, "else", else_cont)
                   inner_then == explicate_if(else.seqs, inner.then, Goto(then.label),
                                              Goto(else.label))
                   inner_else == explicate_if(inner_then.seqs, inner.else, Goto(then.label),
                                              Goto(else.label))
               IN  explicate_if(inner_else.seqs, inner.condition, inner_then.seq, inner_else.seq)
          [] OTHER -> Made(seqs, NoSeq)

RECURSIVE explicate_tail(_, _)
explicate_tail(seqs, exp) ==
    LET inner == exp.inner
    IN  CASE inner.exp = "let" ->
               LET body == explicate_tail(seqs, inner.body)
               IN  explicate_assign(body.seqs, inner.name, inner.rhs, body.seq)
          [] inner.exp = "begin" ->
               LET last == explicate_tail(seqs, Last(inner.sequence))
               IN  Made(last.seqs, explicate_begin(Front(inner.sequence), last.seq))
          [] inner.exp = "if" ->
               LET then == explicate_tail(seqs, inner.then)
                   else == explicate_tail(then.seqs, inner.else)
               IN  explicate_if(else.seqs, inner.condition, then.seq, else.seq)
          [] OTHER -> Made(seqs, Return(exp_to_c_exp(exp)))

explicate_control(body) ==
    LET made == explicate_tail(<<>>, body)
    IN  (<<"begin">> :> made.seq) @@ made.seqs

-----------------------------------------------------------------------------
(* 031: the variables that are assigned anywhere. *)

uncover_locals_seq(seq) ==
    LET stmts == Stmts(seq)
    IN  {stmts[i].name : i \in {j \in DOMAIN stmts : stmts[j].stmt = "assign"}}

uncover_locals(seqs) == UNION {uncover_locals_seq(seqs[l]) : l \in DOMAIN seqs}
=============================================================================
