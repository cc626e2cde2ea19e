------------------------------- MODULE MCHelpers -------------------------------
(***************************************************************************)
(* Small instances of the helpers, side by side: subject tells which of    *)
(* them a behaviour is about, and the others stay as they begin.           *)
(***************************************************************************)
EXTENDS List, Hash, Deque, Stack, Sexp, Path, Text

CONSTANTS v1, v2, t1, t2

VARIABLE subject

MCEqual == {<<v1, v2>>}

\* Two objects with one content, and one that shares their chain in the first
\* table and the chain of the last one in the second table.
MCKeys == {<<0, 1>>, <<0, 2>>, <<6, 1>>, <<1, 1>>}
MCPrimes == <<3, 5>>

MCCalls ==
    [name : {"push_front"}, value : {v1}] \cup [name : {"push_back"}, value : {v2}]
      \cup [name : {"pop_front", "pop_back", "length", "is_empty"}]
      \cup [name : {"get"}, index : {1}]

UpTo(S, n) == UNION {[1 .. i -> S] : i \in 0 .. n}

\* No source has a token that string_is_double takes, such as 0X1, 1e1 or nan.
MCSources ==
    UpTo({"n", "0", " ", "\n", "(", ")", ";", "\"", "\\"}, 4)
      \cup UpTo({"t", "b", "f", "r", "\"", "\\"}, 4)
      \cup UpTo({"a", "\t", "\r", "\f", "VT", "\"", ";"}, 3)
      \cup UpTo({"-", "1", "2", "8"}, 4) \cup UpTo({"-", "0", "b", "1"}, 4)
      \cup UpTo({"0", "7", "x", "-"}, 5) \cup UpTo({"0", "7", "o", "-"}, 4)
      \cup {<<"0", "x">> \o digits : digits \in UpTo({"0", "X", "E", "3"}, 3)}

MCPathStrings == UpTo({"", ".", "..", "a", "b"}, 3) \ {<<>>}

-----------------------------------------------------------------------------

Init ==
    /\ subject \in {"list", "hash", "deque", "stack", "lexer", "path", "text"}
    /\ ListInit /\ HashInit /\ DequeInit /\ StackInit
    /\ LexerInit /\ PathInit /\ TextInit
    /\ subject # "hash" => ~ is_set
    /\ subject # "stack" => array.size = 1
    /\ subject # "path" => path.segments = <<>> /\ ~ path.is_absolute

Next ==
    \/ /\ subject = "list" /\ ListNext
       /\ UNCHANGED <<hash_vars, deque_vars, stack_vars, lexer, path, text_vars>>
    \/ /\ subject = "hash" /\ HashNext
       /\ UNCHANGED <<list_vars, deque_vars, stack_vars, lexer, path, text_vars>>
    \/ /\ subject = "deque" /\ DequeNext
       /\ UNCHANGED <<list_vars, hash_vars, stack_vars, lexer, path, text_vars>>
    \/ /\ subject = "stack" /\ StackNext
       /\ UNCHANGED <<list_vars, hash_vars, deque_vars, lexer, path, text_vars>>
    \/ /\ subject = "lexer" /\ LexerNext
       /\ UNCHANGED <<list_vars, hash_vars, deque_vars, stack_vars, path, text_vars>>
    \/ /\ subject = "path" /\ PathNext
       /\ UNCHANGED <<list_vars, hash_vars, deque_vars, stack_vars, lexer, text_vars>>
    \/ /\ subject = "text" /\ TextNext
       /\ UNCHANGED <<list_vars, hash_vars, deque_vars, stack_vars, lexer, path>>

vars == <<list_vars, hash_vars, deque_vars, stack_vars, lexer, path, text_vars, subject>>

Spec == Init /\ [][Next /\ UNCHANGED subject]_vars

\* Of the text alone.
TextOnlySpec == Init /\ subject = "text" /\ [][Next /\ UNCHANGED subject]_vars

\* Of a set alone.
SetOnlySpec ==
    Init /\ subject = "hash" /\ is_set = TRUE /\ [][Next /\ UNCHANGED subject]_vars
=============================================================================
