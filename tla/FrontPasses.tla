---------------------------- MODULE FrontPasses ----------------------------
(***************************************************************************)
(* The passes from the source language to itself: shrink, uniquify,        *)
(* check-type and remove-complex-operands                                  *)
(* (packages/compiler.x/src/passes/005 to 020).                            *)
(***************************************************************************)
EXTENDS LangS, FiniteSets

-----------------------------------------------------------------------------
(* 005: and, or and the empty begin are made of smaller things.  What is   *)
(* under a type annotation is left alone.                                  *)

RECURSIVE shrink_exp(_)
shrink_exp(exp) ==
    CASE exp.exp = "if" ->
           If(shrink_exp(exp.condition), shrink_exp(exp.then), shrink_exp(exp.else))
      [] IsPrim(exp, {"and"}) ->
           If(shrink_exp(exp.args[1]), shrink_exp(exp.args[2]), BoolExp(FALSE))
      [] IsPrim(exp, {"or"}) ->
           If(shrink_exp(exp.args[1]), BoolExp(TRUE), shrink_exp(exp.args[2]))
      [] exp.exp = "prim" /\ exp.op \notin {"and", "or"} ->
           Prim(exp.op, [i \in DOMAIN exp.args |-> shrink_exp(exp.args[i])])
      [] exp.exp = "let" -> Let(exp.name, shrink_exp(exp.rhs), shrink_exp(exp.body))
      [] exp.exp = "begin" ->
           IF exp.sequence = <<>> THEN VoidExp
           ELSE Begin([i \in DOMAIN exp.sequence |-> shrink_exp(exp.sequence[i])])
      [] OTHER -> exp

-----------------------------------------------------------------------------
(* 010: a let gives its name the number of lets of that name around it.    *)

Lookup(name, table, default) == IF name \in DOMAIN table THEN table[name] ELSE default

count_name(name, name_counts) ==
    (name :> Lookup(name, name_counts, 0) + 1) @@ name_counts

generate_name_in_counts(name, name_counts) == Append(name, name_counts[name])

RECURSIVE uniquify_exp(_, _, _)
uniquify_exp(name_counts, name_table, exp) ==
    LET Same(part) == uniquify_exp(name_counts, name_table, part)
    IN  CASE exp.exp \in {"int", "bool", "void"} -> exp
          [] exp.exp = "var" -> VarExp(Lookup(exp.name, name_table, exp.name))
          [] exp.exp = "if" -> If(Same(exp.condition), Same(exp.then), Same(exp.else))
          [] exp.exp = "let" ->
               LET new_counts == count_name(exp.name, name_counts)
                   new_name == generate_name_in_counts(exp.name, new_counts)
                   new_table == (exp.name :> new_name) @@ name_table
               IN  Let(new_name, uniquify_exp(new_counts, name_table, exp.rhs),
                       uniquify_exp(new_counts, new_table, exp.body))
          [] exp.exp = "begin" ->
               Begin([i \in DOMAIN exp.sequence |-> Same(exp.sequence[i])])
          [] exp.exp = "prim" ->
               Prim(exp.op, [i \in DOMAIN exp.args |-> Same(exp.args[i])])
          [] OTHER -> NoMatch

(* The names that the lets of an expression bind. *)
RECURSIVE Binders(_)
Binders(exp) ==
    (IF exp.exp = "let" THEN {exp.name} ELSE {})
    \union UNION {Binders(part) : part \in PartSet(exp)}

(* No two lets bind the same name. *)
RECURSIVE NamesDiffer(_)
NamesDiffer(exp) ==
    LET parts == {<<i, Parts(exp)[i]>> : i \in DOMAIN Parts(exp)}
    IN  /\ \A p \in parts : NamesDiffer(p[2])
        /\ \A p, q \in parts : p[1] < q[1] => Binders(p[2]) \intersect Binders(q[2]) = {}
        /\ exp.exp = "let" => \A p \in parts : exp.name \notin Binders(p[2])

(* No let binds a name that freshen makes. *)
NoTemporary(exp) == \A name \in Binders(exp) : name[1] # "_"

-----------------------------------------------------------------------------
(* 020: operands become atoms.  A state is the count of temporaries; the   *)
(* operators return the new count, the entries (lets that go outside, in   *)
(* order) and the expression that is left.                                 *)

freshen(count) == <<"_", count + 1>>

Kept(count, entries, exp) == [count |-> count, entries |-> entries, exp |-> exp]

RECURSIVE prepend_lets(_, _, _)
prepend_lets(type, entries, exp) ==
    IF entries = <<>> THEN exp
    ELSE The(type, Let(Head(entries).name, Head(entries).rhs,
                       prepend_lets(type, Tail(entries), exp)))

RECURSIVE rco_exp(_, _), rco_atom(_, _), rco_exp_many(_, _, _), rco_atom_many(_, _, _)
(* list-map of rco-exp: the count runs through the list. *)
rco_exp_many(count, exps, done) ==
    IF exps = <<>> THEN Kept(count, <<>>, done)
    ELSE LET first == rco_exp(count, Head(exps))
         IN  rco_exp_many(first.count, Tail(exps), Append(done, first.exp))

rco_atom_many(count, exps, done) ==
    IF exps = <<>> THEN done
    ELSE LET first == rco_atom(count, Head(exps))
         IN  rco_atom_many(first.count, Tail(exps),
                           Kept(first.count, done.entries \o first.entries,
                                Append(done.exp, first.exp)))

rco_exp(count, exp) ==
    LET inner == exp.inner
        many == rco_exp_many(count, Parts(inner), <<>>)
        args == rco_atom_many(count, Parts(inner), Kept(count, <<>>, <<>>))
        With(new) == Kept(many.count, <<>>, The(exp.type, new))
    IN  CASE IsAtom(inner) -> Kept(count, <<>>, exp)
          [] inner.exp = "let" -> With(Let(inner.name, many.exp[1], many.exp[2]))
          [] inner.exp = "if" -> With(If(many.exp[1], many.exp[2], many.exp[3]))
          [] inner.exp = "begin" -> With(Begin(many.exp))
          [] inner.exp = "prim" ->
               Kept(args.count, <<>>,
                    prepend_lets(exp.type, args.entries,
                                 The(exp.type, Prim(inner.op, args.exp))))

rco_atom(count, exp) ==
    LET inner == exp.inner
        args == rco_atom_many(count, Parts(inner), Kept(count, <<>>, <<>>))
    IN  CASE IsAtom(inner) -> Kept(count, <<>>, exp)
          [] inner.exp = "let" ->
               LET rhs == rco_exp(count, inner.rhs)
                   body == rco_atom(rhs.count, inner.body)
               IN  Kept(body.count,
                        <<[name |-> inner.name, rhs |-> rhs.exp]>> \o body.entries, body.exp)
          [] inner.exp \in {"if", "begin"} ->
               (* the name is made before rco-exp makes those inside *)
               LET rhs == rco_exp(count + 1, exp)
               IN  Kept(rhs.count, <<[name |-> freshen(count), rhs |-> rhs.exp]>>,
                        The(exp.type, VarExp(freshen(count))))
          [] inner.exp = "prim" ->
               LET name == freshen(args.count)
                   entry == [name |-> name, rhs |-> The(exp.type, Prim(inner.op, args.exp))]
               IN  Kept(args.count + 1, Append(args.entries, entry), The(exp.type, VarExp(name)))

remove_complex_operands(body) == rco_exp(0, body).exp

IsTypedAtom(exp) == exp.exp = "the" /\ IsAtom(exp.inner)

(* typed-atom-operand-exp?: what remove-complex-operands claims to return. *)
RECURSIVE typed_atom_operand(_)
typed_atom_operand(exp) ==
    \A part \in PartSet(exp.inner) :
        IF exp.inner.exp = "prim" THEN IsTypedAtom(part) ELSE typed_atom_operand(part)
=============================================================================
