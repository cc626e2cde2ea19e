----------------------------- MODULE MCCompiler -----------------------------
(***************************************************************************)
(* Small programs for the compiler: every way to fill the holes of a few   *)
(* shapes, chosen so that operands nest, conditions branch in each         *)
(* position, names are bound twice, effects are ordered, and up to four    *)
(* variables are live at once while there are two registers.               *)
(***************************************************************************)
EXTENDS Compiler

X == VarExp(<<"x">>)
Y == VarExp(<<"y">>)
Z == VarExp(<<"z">>)
LetX(rhs, body) == Let(<<"x">>, rhs, body)
LetY(rhs, body) == Let(<<"y">>, rhs, body)
LetZ(rhs, body) == Let(<<"z">>, rhs, body)
Die == Prim("random-dice", <<>>)
Two(op, a, b) == Prim(op, <<a, b>>)
One(op, a) == Prim(op, <<a>>)
Say(a) == One("print-int", a)

(* Operands of every kind, where x is bound. *)
Operands == {
    IntExp(3), X, Die, One("ineg", X), Two("isub", Die, X),
    LetX(Two("iadd", X, IntExp(1)), One("ineg", X)),
    LetY(Die, Two("isub", Y, X)),
    If(Two("lt?", X, IntExp(3)), Die, One("ineg", X)),
    Begin(<<Say(X), Two("isub", X, Die)>>) }

Nested == {LetX(Die, Two("isub", a, b)) : a, b \in Operands}

Conditions == {
    Two("eq?", X, IntExp(2)), Two("lteq?", Die, Two("iadd", X, IntExp(1))),
    Two("and", Two("gt?", X, IntExp(1)), Two("lt?", Die, IntExp(4))),
    Two("or", Two("gteq?", Die, X), Two("eq?", Die, IntExp(5))),
    If(Two("lt?", X, Die), Two("lt?", Die, X), BoolExp(TRUE)),
    LetY(Die, Two("gt?", Y, X)),
    Begin(<<Say(IntExp(7)), Two("eq?", Two("lt?", X, IntExp(3)), BoolExp(TRUE))>>) }

(* A branch in each position. *)
Placed(exp) == {
    LetX(Die, exp), LetX(Die, LetY(exp, Two("isub", Y, X))),
    LetX(Die, Two("iadd", Die, exp)),
    LetX(Die, LetY(Die, Two("isub", LetZ(exp, Two("iadd", Z, Y)), X))),
    LetX(Die, Begin(<<Say(X), Prim("newline", <<>>), Two("iadd", X, exp)>>)) }

Branching ==
    UNION {Placed(If(c, t, X)) : c \in Conditions,
           t \in {IntExp(0), Begin(<<Say(IntExp(1)), One("ineg", X)>>)}}

(* Chains of lets, with what may be live to the end. *)
Rights == {IntExp(5), X, Two("iadd", X, IntExp(1)), Two("isub", IntExp(1), X), Die}
Chains == {
    LetX(Die, LetY(a, LetZ(b, Two("iadd", Two("isub", X, Y), Two("isub", Z, c))))) :
        a, b \in Rights, c \in {X, Die}}
    \union
    {LetX(a, LetX(Two("iadd", X, IntExp(2)), LetX(Two("isub", Die, X), Two("isub", X, b)))) :
        a \in {Die, IntExp(4)}, b \in {X, Die}}

(* Comparisons kept in variables, up to four of them live. *)
Comparisons ==
    {LetX(Die, LetY(Two("lt?", X, IntExp(3)),
          LetZ(Two(op, X, Die), If(Two("eq?", Y, Z), a, Two("iadd", X, Die))))) :
        op \in {"lteq?", "gt?", "eq?"}, a \in {X, Two("isub", Die, X)}}
    \union {LetX(Die, Two("lt?", X, Die)), LetX(Two("lt?", Die, IntExp(3)), X)}

(* What stops the compiler, and names like its own. *)
Odd == {
    BoolExp(TRUE), LetX(BoolExp(TRUE), X), If(LetX(Two("lt?", Die, IntExp(3)), X), Die, IntExp(1)),
    Two("imul", Die, IntExp(2)), One("not", Two("lt?", Die, IntExp(3))),
    If(One("not", BoolExp(FALSE)), Die, IntExp(1)),
    If(BoolExp(TRUE), Die, If(LetX(Two("lt?", Die, IntExp(3)), X), Die, IntExp(1))),
    If(One("not", Two("lt?", Die, IntExp(3))), Die, IntExp(1)),
    The("int", Die), Two("iadd", Die, BoolExp(TRUE)), Two("iadd", Die, Begin(<<>>)), If(Die, Die, Die),
    Two("eq?", Two("and", BoolExp(TRUE), BoolExp(FALSE)), BoolExp(TRUE)),
    Begin(<<If(Two("lt?", Die, IntExp(3)), Say(IntExp(1)), Prim("newline", <<>>)), IntExp(1)>>),
    Begin(<<Say(Die), IntExp(1)>>), Begin(<<Die, IntExp(2), Die>>),
    Let(<<"_">>, Die, Two("isub", Two("iadd", IntExp(1), IntExp(2)), VarExp(<<"_">>))),
    Two("iadd", LetX(IntExp(1), X), LetX(IntExp(2), X)) }

MCPrograms == Nested \union Branching \union Chains \union Comparisons \union Odd
MCDice == {<<1, 6, 2, 5>>, <<4, 3, 3, 2>>}
=============================================================================
