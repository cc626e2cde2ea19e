------------------------------- MODULE LangS -------------------------------
(***************************************************************************)
(* The source language of the compiler: its expressions, its type checker  *)
(* and its interpreter (langs/s, value and builtin of packages/compiler.x).*)
(*                                                                         *)
(* A name is a sequence: <<"x">> is the name x, and <<"x", 1>> the name    *)
(* that format-subscript makes of it.  The world of a program is what it   *)
(* has printed and the dice it has still to throw; the dice repeat.        *)
(***************************************************************************)
EXTENDS Integers, Sequences, TLC

VarExp(name) == [exp |-> "var", name |-> name]
IntExp(value) == [exp |-> "int", int |-> value]
BoolExp(value) == [exp |-> "bool", bool |-> value]
VoidExp == [exp |-> "void"]
If(condition, then, else) ==
    [exp |-> "if", condition |-> condition, then |-> then, else |-> else]
Prim(op, args) == [exp |-> "prim", op |-> op, args |-> args]
Let(name, rhs, body) == [exp |-> "let", name |-> name, rhs |-> rhs, body |-> body]
Begin(sequence) == [exp |-> "begin", sequence |-> sequence]
The(type, exp) == [exp |-> "the", type |-> type, inner |-> exp]

(* What stands where a match of the compiler finds no case. *)
NoMatch == [exp |-> "no-match", type |-> "none"]

IsAtom(exp) == exp.exp \in {"var", "int", "bool", "void"}
IsPrim(exp, ops) == exp.exp = "prim" /\ exp.op \in ops
CmpOps == {"eq?", "lt?", "gt?", "lteq?", "gteq?"}

Front(s) == SubSeq(s, 1, Len(s) - 1)
Last(s) == s[Len(s)]

(* The parts of an expression, in the order in which they are evaluated. *)
Parts(exp) ==
    CASE exp.exp = "if" -> <<exp.condition, exp.then, exp.else>>
      [] exp.exp = "prim" -> exp.args
      [] exp.exp = "let" -> <<exp.rhs, exp.body>>
      [] exp.exp = "begin" -> exp.sequence
      [] exp.exp = "the" -> <<exp.inner>>
      [] OTHER -> <<>>
PartSet(exp) == {Parts(exp)[i] : i \in DOMAIN Parts(exp)}

RECURSIVE HasNoMatch(_)
HasNoMatch(exp) == exp = NoMatch \/ \E part \in PartSet(exp) : HasNoMatch(part)

(* typed-exp?: every expression has its type on it. *)
RECURSIVE IsTyped(_)
IsTyped(exp) ==
    exp.exp = "the" /\ \A part \in PartSet(exp.inner) : IsTyped(part)

-----------------------------------------------------------------------------
(* The type checker. *)

operator_types(op) ==
    CASE op \in {"iadd", "isub", "imul"} -> <<<<"int", "int">>, "int">>
      [] op = "ineg" -> <<<<"int">>, "int">>
      [] op = "random-dice" -> <<<<>>, "int">>
      [] op \in {"and", "or"} -> <<<<"bool", "bool">>, "bool">>
      [] op = "not" -> <<<<"bool">>, "bool">>
      [] op \in CmpOps \ {"eq?"} -> <<<<"int", "int">>, "bool">>
      [] op = "print-int" -> <<<<"int">>, "void">>
      [] op = "newline" -> <<<<>>, "void">>

(* An expression of typed parts; the checker exits when a part has no type. *)
Typed(type, exp) ==
    IF \E i \in DOMAIN Parts(exp) : Parts(exp)[i] = NoMatch THEN NoMatch ELSE The(type, exp)

RECURSIVE infer_exp(_, _)
check_exp(context, exp, type) ==
    LET inferred == infer_exp(context, exp)
    IN  IF inferred.type = type THEN inferred ELSE NoMatch

infer_exp(context, exp) ==
    CASE exp.exp = "the" -> check_exp(context, exp.inner, exp.type)
      [] exp.exp = "var" -> The(context[exp.name], exp)
      [] exp.exp \in {"int", "bool", "void"} -> The(exp.exp, exp)
      [] exp.exp = "if" ->
           LET then == infer_exp(context, exp.then)
           IN  Typed(then.type, If(check_exp(context, exp.condition, "bool"), then,
                                   check_exp(context, exp.else, then.type)))
      [] IsPrim(exp, {"eq?"}) /\ Len(exp.args) = 2 ->
           LET lhs == infer_exp(context, exp.args[1])
           IN  Typed("bool", Prim("eq?", <<lhs, check_exp(context, exp.args[2], lhs.type)>>))
      [] exp.exp = "prim" ->
           LET args == [i \in DOMAIN exp.args |-> infer_exp(context, exp.args[i])]
               type == operator_types(exp.op)
           IN  IF [i \in DOMAIN args |-> args[i].type] = type[1]
                 THEN Typed(type[2], Prim(exp.op, args)) ELSE NoMatch
      [] exp.exp = "begin" ->
           LET sequence == [i \in DOMAIN exp.sequence |-> infer_exp(context, exp.sequence[i])]
           IN  Typed(IF sequence = <<>> THEN "void" ELSE Last(sequence).type, Begin(sequence))
      [] exp.exp = "let" ->
           LET rhs == infer_exp(context, exp.rhs)
               body == infer_exp((exp.name :> rhs.type) @@ context, exp.body)
           IN  Typed(body.type, Let(exp.name, rhs, body))

check_mod(body) == infer_exp(<<>>, body)

-----------------------------------------------------------------------------
(* The interpreter.  A value is [int |-> n], [bool |-> b] or [void |-> 0]. *)

AsInt(n, world) == [value |-> [int |-> n], world |-> world]
AsBool(b, world) == [value |-> [bool |-> b], world |-> world]

Rolled(world) == [world EXCEPT !.dice = Append(Tail(@), Head(@))]
Printed(item, world) == [world EXCEPT !.out = Append(@, item)]

operator_prims(op, args, world) ==
    CASE op = "iadd" -> AsInt(args[1].int + args[2].int, world)
      [] op = "isub" -> AsInt(args[1].int - args[2].int, world)
      [] op = "imul" -> AsInt(args[1].int * args[2].int, world)
      [] op = "ineg" -> AsInt(-args[1].int, world)
      [] op = "random-dice" -> AsInt(Head(world.dice), Rolled(world))
      [] op = "not" -> AsBool(~args[1].bool, world)
      [] op = "eq?" -> AsBool(args[1] = args[2], world)
      [] op = "lt?" -> AsBool(args[1].int < args[2].int, world)
      [] op = "gt?" -> AsBool(args[1].int > args[2].int, world)
      [] op = "lteq?" -> AsBool(args[1].int <= args[2].int, world)
      [] op = "gteq?" -> AsBool(args[1].int >= args[2].int, world)
      [] op = "print-int" ->
           [value |-> [void |-> 0], world |-> Printed(<<args[1].int>>, world)]
      [] op = "newline" -> [value |-> [void |-> 0], world |-> Printed(<<>>, world)]

(* An atom or a variable costs nothing and changes nothing. *)
AtomValue(atom, env) ==
    CASE atom.exp = "var" -> env[atom.name]
      [] atom.exp = "int" -> [int |-> atom.int]
      [] atom.exp = "bool" -> [bool |-> atom.bool]
      [] atom.exp = "void" -> [void |-> 0]

RECURSIVE eval_exp(_, _, _), EvalAll(_, _, _, _)
(* The values of a list of expressions, evaluated from left to right. *)
EvalAll(exps, env, world, values) ==
    IF exps = <<>> THEN [values |-> values, world |-> world]
    ELSE LET first == eval_exp(Head(exps), env, world)
         IN  EvalAll(Tail(exps), env, first.world, Append(values, first.value))

eval_exp(exp, env, world) ==
    CASE IsAtom(exp) -> [value |-> AtomValue(exp, env), world |-> world]
      [] exp.exp = "if" ->
           LET condition == eval_exp(exp.condition, env, world)
           IN  eval_exp(IF condition.value.bool THEN exp.then ELSE exp.else,
                        env, condition.world)
      [] IsPrim(exp, {"and", "or"}) ->
           LET first == eval_exp(exp.args[1], env, world)
           IN  IF first.value.bool = (exp.op = "or")
                 THEN AsBool(exp.op = "or", first.world)
                 ELSE eval_exp(exp.args[2], env, first.world)
      [] exp.exp = "prim" /\ exp.op \notin {"and", "or"} ->
           LET args == EvalAll(exp.args, env, world, <<>>)
           IN  operator_prims(exp.op, args.values, args.world)
      [] exp.exp = "let" ->
           LET rhs == eval_exp(exp.rhs, env, world)
           IN  eval_exp(exp.body, (exp.name :> rhs.value) @@ env, rhs.world)
      [] exp.exp = "begin" ->
           LET init == EvalAll(Front(exp.sequence), env, world, <<>>)
           IN  eval_exp(Last(exp.sequence), env, init.world)
      [] exp.exp = "the" -> eval_exp(exp.inner, env, world)

eval_mod(body, dice) == eval_exp(body, <<>>, [dice |-> dice, out |-> <<>>])
=============================================================================
