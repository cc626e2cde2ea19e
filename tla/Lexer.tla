--------------------------------- MODULE Lexer ---------------------------------
(***************************************************************************)
(* lexer_t as sexp_parse_list sets it up (src/helpers/lexer/lexer.c,       *)
(* src/helpers/sexp/sexp.c:89-107): comments from ";", the delimiters "("  *)
(* and ")", strings and integers.  A string is a sequence of characters;   *)
(* the index i of C is i + 1 here.                                         *)
(***************************************************************************)
EXTENDS Xint, FiniteSets

CONSTANT Sources   \* the strings that lexer_run is called with

\* Characters without a form of their own here: the end of a C string, \b and \v
Characters == {"NUL", "BS", "VT", "\n", "\t", "\f", "\r"} \cup STRING

\* A C string ends at its first NUL.
ASSUME LexerAssumption ==
    \A string \in Sources : /\ string \in Seq(Characters)
                            /\ \A i \in 1 .. Len(string) : string[i] # "NUL"

VARIABLE lexer     \* the struct; phase tells where lexer_run is

\* isspace
Spaces == {" ", "\n", "\t", "\r", "\f", "VT"}
Delimiters == {"(", ")"}

\* The characters that collect_string knows after a backslash, and what they
\* stand for.
Escapable == {"n", "t", "b", "f", "r", "0", "\"", "\\"}
Escaped(c) ==
    CASE c = "n" -> "\n" [] c = "t" -> "\t" [] c = "b" -> "BS" [] c = "f" -> "\f"
      [] c = "r" -> "\r" [] c = "0" -> "NUL" [] c \in {"\"", "\\"} -> c

Least(S) == CHOOSE i \in S : \A j \in S : i <= j

slice(string, start, end) == SubSeq(string, start + 1, end)

\* What string_copy takes of a buffer.
c_string(buffer) ==
    LET ends == {i \in DOMAIN buffer : buffer[i] = "NUL"}
    IN IF ends = {} THEN buffer ELSE SubSeq(buffer, 1, Least(ends) - 1)

\* lexer_init and the beginning of lexer_run
lexer_init(string) ==
    [string |-> string, cursor |-> 0, lineno |-> 1, column |-> 1,
     token_list |-> <<>>, phase |-> "run"]

current_char(self) ==
    IF self.cursor = Len(self.string) THEN "NUL" ELSE self.string[self.cursor + 1]

\* The first index from the cursor on of a character in C, or the length.
index_of(self, C) ==
    Least({i \in self.cursor .. Len(self.string) :
             i = Len(self.string) \/ self.string[i + 1] \in C})

\* A slip: the column goes on over the ends of lines.
forward_on(self, end) ==
    LET lines == {i \in self.cursor + 1 .. end : self.string[i] = "\n"}
    IN [self EXCEPT !.cursor = end,
                    !.lineno = @ + Cardinality(lines),
                    !.column = @ + end - self.cursor]

\* step, up to index end
forward(self, end) ==
    LET lines == {i \in self.cursor + 1 .. end : self.string[i] = "\n"}
        last == CHOOSE i \in lines : \A j \in lines : j <= i
    IN [self EXCEPT !.cursor = end,
                    !.lineno = @ + Cardinality(lines),
                    !.column = IF lines = {} THEN @ + end - self.cursor
                               ELSE end + 1 - last]

\* A token whose position is where the lexer is after it.
push_token(self, string, kind) ==
    LET token == [string |-> string, kind |-> kind,
                  start |-> self.cursor - Len(string), end |-> self.cursor,
                  lineno |-> self.lineno, column |-> self.column, int_value |-> 0]
    IN [self EXCEPT !.token_list = Append(@, token)]

abort(self) == [self EXCEPT !.phase = "aborted"]

ignore_space(self) ==
    LET blanks == {i \in self.cursor .. Len(self.string) :
                     i = Len(self.string) \/ self.string[i + 1] \notin Spaces}
    IN forward(self, Least(blanks))

ignore_comment(self) ==
    LET newline == index_of(self, {"\n"})
    IN forward(self, IF newline = Len(self.string) THEN newline ELSE newline + 1)

collect_delimiter(self) ==
    push_token(forward(self, self.cursor + 1), <<current_char(self)>>, "DELIMITER")

\* A turn of the loop of collect_string.  An assertion fails, and so there is no
\* way on, at the end of the string and at an escape that is not known.
collect_turn(string, reading) ==
    LET at == reading.cursor
        collect(c, cursor) == [reading EXCEPT !.cursor = cursor,
                                              !.buffer = Append(@, c)]
    IN IF reading.closed \/ at = Len(string) THEN reading
       ELSE IF string[at + 1] = "\"" THEN [reading EXCEPT !.closed = TRUE]
       ELSE IF string[at + 1] # "\\" THEN collect(string[at + 1], at + 1)
       ELSE IF at + 1 < Len(string) /\ string[at + 2] \in Escapable
            THEN collect(Escaped(string[at + 2]), at + 2)
       ELSE reading

\* No turn is made twice at one place.
collect_string(self) ==
    LET reading[n \in 0 .. Len(self.string)] ==
          IF n = 0 THEN [cursor |-> self.cursor + 1, buffer |-> <<>>, closed |-> FALSE]
          ELSE collect_turn(self.string, reading[n - 1])
        read == reading[Len(self.string)]
    IN IF ~ read.closed THEN abort(self)
       ELSE forward(push_token(forward(self, read.cursor),
                               c_string(read.buffer), "STRING"),
                    read.cursor + 1)

collect_generic(self) ==
    LET end == index_of(self, Spaces \cup Delimiters)
    IN push_token(forward(self, end), slice(self.string, self.cursor, end), "GENERIC")

lexer_step(self) ==
    LET c == current_char(self)
    IN CASE c \in Spaces -> ignore_space(self)
         [] c = ";" -> ignore_comment(self)
         [] c \in Delimiters -> collect_delimiter(self)
         [] c = "\"" -> collect_string(self)
         [] OTHER -> collect_generic(self)

\* postprocess_float, which looks at what is left of the generic tokens, is not
\* modelled: no source has a token like 1.0 or nan.
postprocess_int(self) ==
    LET processed(token) ==
          IF token.kind = "GENERIC" /\ string_is_xint(token.string)
          THEN [token EXCEPT !.kind = "INT",
                             !.int_value = string_parse_xint(token.string)]
          ELSE token
    IN [self EXCEPT !.phase = "done",
                    !.token_list = [i \in DOMAIN @ |-> processed(@[i])]]

-----------------------------------------------------------------------------
(* The program, which lets the lexer run over one string *)

LexerInit == lexer = [lexer_init(<<>>) EXCEPT !.phase = "made"]

LexerRun(string) == lexer.phase = "made" /\ lexer' = lexer_init(string)

is_finished(self) == self.cursor = Len(self.string)

LexerStep ==
    lexer.phase = "run" /\ ~ is_finished(lexer) /\ lexer' = lexer_step(lexer)

LexerFinish ==
    lexer.phase = "run" /\ is_finished(lexer) /\ lexer' = postprocess_int(lexer)

LexerNext ==
    (\E string \in Sources : LexerRun(string)) \/ LexerStep \/ LexerFinish

LexerSpec == LexerInit /\ [][LexerNext]_lexer

-----------------------------------------------------------------------------

code_lineno_of_index(string, index) ==
    1 + Cardinality({i \in 1 .. index : string[i] = "\n"})

\* Only spaces and comments, and nothing else.
Blank(string) ==
    \A i \in DOMAIN string :
      \/ string[i] \in Spaces
      \/ \E j \in 1 .. i : /\ string[j] = ";"
                           /\ \A k \in j .. i - 1 : string[k] # "\n"

\* What lies between a token and the one before, with its quotes.
Before(i) ==
    LET tokens == lexer.token_list
        last == IF i = 1 THEN 0
                ELSE tokens[i - 1].end
                       + (IF tokens[i - 1].kind = "STRING" THEN 1 ELSE 0)
    IN slice(lexer.string, last, tokens[i].start)

\* Whatever is read, the tokens lie in the source in order, next to each other
\* but for blanks and comments, each over the text it stands for, and its line
\* and column are those of its end, on which errors are reported
\* (lexer.c:68-263, code.c:14-26).  Only the start of a string with escapes is
\* not known: it is counted back from the end by the length that is left.
TokensTile ==
    \A i \in DOMAIN lexer.token_list :
      LET token == lexer.token_list[i]
          text == slice(lexer.string, token.start, token.end)
          before == Before(i)
      IN /\ token.lineno = code_lineno_of_index(lexer.string, token.end)
         /\ token.column =
              token.end + 1 - (CHOOSE n \in 0 .. token.end :
                                 /\ n = 0 \/ lexer.string[n] = "\n"
                                 /\ \A k \in n + 1 .. token.end :
                                      lexer.string[k] # "\n")
         /\ IF token.kind # "STRING" THEN text = token.string /\ Blank(before)
            ELSE /\ lexer.string[token.end + 1] = "\""
                 /\ \/ /\ text = token.string
                       /\ before # <<>> /\ before[Len(before)] = "\""
                       /\ Blank(SubSeq(before, 1, Len(before) - 1))
                    \/ \E k \in DOMAIN (before \o text) : (before \o text)[k] = "\\"

\* [sign] digits, [sign] 0x digits or [sign] 0o digits
Signs == {<<>>, <<"-">>, <<"+">>}
Forms == {[prefix |-> <<>>, base |-> 10], [prefix |-> <<"0", "x">>, base |-> 16],
          [prefix |-> <<"0", "o">>, base |-> 8]}

digits_of(string, sign, form) ==
    string_slice_from(string, Len(sign) + Len(form.prefix))

PlainInt(string, sign, form) ==
    /\ string_starts_with(string, sign \o form.prefix)
    /\ digits_of(string, sign, form) # <<>>
    /\ AllDigits(digits_of(string, sign, form), form.base)

Within(n) == IF n > IntMax THEN IntMax ELSE IF n < -IntMax THEN -IntMax ELSE n

\* Every token that is spelled as an integer is one and has its value, as far as
\* int64_t goes; the least int64_t is read as the next one, since the sign is put
\* on after strtol (string.c:264-269).  What else is taken for an integer has a
\* second sign or prefix behind its prefix, such as 0x-1, which strtol allows.
IntsAreRead ==
    lexer.phase = "done" =>
      \A i \in DOMAIN lexer.token_list :
        LET token == lexer.token_list[i]
        IN token.kind \in {"INT", "GENERIC"} =>
             /\ \A sign \in Signs, form \in Forms :
                  PlainInt(token.string, sign, form) =>
                    LET n == Denoted(digits_of(token.string, sign, form), form.base)
                    IN /\ token.kind = "INT"
                       /\ token.int_value = Within(IF sign = <<"-">> THEN -n ELSE n)
             /\ token.kind = "INT" =>
                  \/ \E sign \in Signs, form \in Forms : PlainInt(token.string, sign, form)
                  \/ \E k \in DOMAIN token.string :
                       k > 2 /\ token.string[k] \in {"-", "+", "x", "X"}
=============================================================================
