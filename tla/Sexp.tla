---------------------------------- MODULE Sexp ----------------------------------
(***************************************************************************)
(* sexp_t (src/helpers/sexp/sexp.c): the parser over the tokens of Lexer,  *)
(* and the printer.  A list is of kind "LIST" with its elements in list;   *)
(* an atom has the kind and string of its token.                           *)
(***************************************************************************)
EXTENDS Lexer

Atom(token) == [kind |-> token.kind, string |-> token.string, list |-> <<>>]
ListOf(sexps) == [kind |-> "LIST", string |-> <<>>, list |-> sexps]

RECURSIVE parse_list(_), list_sexp_print_close(_), list_sexp_print(_)

\* The elements up to a ")" or to the end, and the tokens that are left.  Tokens
\* are told by their string alone.  The end of a list need not be there.
parse_list(tokens) ==
    IF tokens = <<>> \/ Head(tokens).string = <<")">>
    THEN [list |-> <<>>, rest |-> tokens]
    ELSE LET inner == parse_list(Tail(tokens))
             opens == Head(tokens).string = <<"(">>
             sexp == IF opens THEN ListOf(inner.list) ELSE Atom(Head(tokens))
             after == IF ~ opens THEN Tail(tokens)
                      ELSE IF inner.rest = <<>> THEN <<>> ELSE Tail(inner.rest)
             others == parse_list(after)
         IN [list |-> <<sexp>> \o others.list, rest |-> others.rest]

RECURSIVE lexer_run(_)
lexer_run(self) ==
    IF self.phase # "run" THEN self
    ELSE lexer_run(IF is_finished(self) THEN postprocess_int(self) ELSE lexer_step(self))

\* The sexps in a string, or that an assertion has failed.
sexp_parse_list(string) ==
    LET parsed(run, result) ==
          [aborted |-> run.phase = "aborted" \/ result.rest # <<>>,
           list |-> result.list]
        run == lexer_run(lexer_init(string))
    IN parsed(run, parse_list(run.token_list))

\* A slip: nothing stands between the elements.
list_sexp_print_close(sexps) ==
    IF sexps = <<>> THEN <<>>
    ELSE LET s == Head(sexps)
         IN (CASE s.kind = "LIST" -> <<"(">> \o list_sexp_print_close(s.list) \o <<")">>
               [] s.kind = "STRING" -> <<"\"">> \o s.string \o <<"\"">>
               [] OTHER -> s.string)
            \o list_sexp_print_close(Tail(sexps))

\* sexp_print of the elements of a list, with a space between.
list_sexp_print(sexps) ==
    IF sexps = <<>> THEN <<>>
    ELSE LET s == Head(sexps)
         IN (CASE s.kind = "LIST" -> <<"(">> \o list_sexp_print(s.list) \o <<")">>
               [] s.kind = "STRING" -> <<"\"">> \o s.string \o <<"\"">>
               [] OTHER -> s.string)
            \o (IF Len(sexps) = 1 THEN <<>> ELSE <<" ">>)
            \o list_sexp_print(Tail(sexps))

sexp_print(sexp) == list_sexp_print(<<sexp>>)

-----------------------------------------------------------------------------

RECURSIVE Strings(_)

\* The strings in a sexp that sexp_print does not write as they are read.
Strings(sexps) ==
    IF sexps = <<>> THEN {}
    ELSE Strings(Head(sexps).list) \cup Strings(Tail(sexps))
           \cup (IF Head(sexps).kind = "STRING" THEN {Head(sexps).string} ELSE {})

NeedsEscape(string) == \E i \in DOMAIN string : string[i] \in {"\"", "\\"}

\* What sexp_print writes is read again as the same sexp, whatever was read,
\* unclosed lists and comments and strings with ends of lines included, unless
\* it has a string with a quote or a backslash in it (sexp.c:118-165: "TODO
\* handle \n and other \chars"); then something else is read or nothing.
PrintReads ==
    lexer.phase = "done" =>
      LET parsed == parse_list(lexer.token_list)
          same(sexp, again) == ~ again.aborted /\ again.list = <<sexp>>
      IN parsed.rest = <<>> =>
           \A i \in DOMAIN parsed.list :
             same(parsed.list[i], sexp_parse_list(sexp_print(parsed.list[i])))
               <=> ~ \E s \in Strings(<<parsed.list[i]>>) : NeedsEscape(s)
=============================================================================
