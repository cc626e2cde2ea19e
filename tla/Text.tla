---------------------------------- MODULE Text ----------------------------------
(***************************************************************************)
(* text_t, a sequence of code points (src/helpers/text/text.c), and the    *)
(* bytes it is read from and written to (src/helpers/utf8/utf8.c,          *)
(* utf8_iter.c).  Bytes are numbers below 256; a C string has no 0.        *)
(***************************************************************************)
EXTENDS Integers, Sequences, FiniteSets

CONSTANTS
    CodePoints,   \* that occur in strings
    TextBound     \* no text gets longer

ASSUME TextAssumption ==
    /\ \A c \in CodePoints : c \in Nat /\ 0 < c /\ c <= 1114111
    /\ TextBound \in Nat

VARIABLES
    text,         \* its code_points
    text_string   \* what text_to_string wrote last, or ""

text_vars == <<text, text_string>>

\* The number of bytes that a first byte announces; others end the program.
utf8_char_length(byte) ==
    CASE byte < 128 -> 1
      [] byte \div 32 = 6 -> 2
      [] byte \div 16 = 14 -> 3
      [] byte \div 8 = 30 -> 4

\* The code point at the beginning of a string; & with a mask of ones is %.
utf8_decode(string) ==
    LET byte_length == utf8_char_length(string[1])
        rest(i) == string[i] % 64
    IN IF byte_length = 1 THEN string[1]
       ELSE IF byte_length = 2 THEN (string[1] % 32) * 64 + rest(2)
       ELSE IF byte_length = 3
            THEN (string[1] % 16) * 4096 + rest(2) * 64 + rest(3)
       ELSE (string[1] % 8) * 262144 + rest(2) * 4096 + rest(3) * 64 + rest(4)

\* A slip: six bits are taken as five.
continuation_short(code_point, shift) == 128 + ((code_point \div shift) % 32)

\* pattern_r | ((uint8_t) (code_point >> n) << 2 >> 2), where shift is 2 ^ n:
\* the shifts are of an int, and so all eight bits are left.
continuation(code_point, shift) ==
    LET low == (code_point \div shift) % 256
    IN IF low < 128 THEN low + 128 ELSE low

\* utf8_encode_into; no code point is above 1114111.
utf8_encode(code_point) ==
    IF code_point <= 127 THEN <<code_point>>
    ELSE IF code_point <= 2047
         THEN <<192 + code_point \div 64, continuation(code_point, 1)>>
    ELSE IF code_point <= 65535
         THEN <<224 + code_point \div 4096, continuation(code_point, 64),
                continuation(code_point, 1)>>
    ELSE <<240 + code_point \div 262144, continuation(code_point, 4096),
           continuation(code_point, 64), continuation(code_point, 1)>>

\* A turn of the loop of text_from_string: utf8_iter_next moves the cursor over
\* the character that is read.
utf8_iter_turn(string, iter) ==
    IF iter.cursor >= Len(string) THEN iter
    ELSE [cursor |-> iter.cursor + utf8_char_length(string[iter.cursor + 1]),
          code_points |-> Append(iter.code_points,
                            utf8_decode(SubSeq(string, iter.cursor + 1, Len(string))))]

\* There are no more characters than bytes.
text_from_string(string) ==
    LET iter[n \in 0 .. Len(string)] ==
          IF n = 0 THEN [cursor |-> 0, code_points |-> <<>>]
          ELSE utf8_iter_turn(string, iter[n - 1])
    IN iter[Len(string)].code_points

\* What the first byte announces is what was written.
text_to_string(self) ==
    LET upto[i \in 0 .. Len(self)] ==
          IF i = 0 THEN <<>>
          ELSE upto[i - 1] \o SubSeq(utf8_encode(self[i]), 1,
                                 utf8_char_length(utf8_encode(self[i])[1]))
    IN upto[Len(self)]

\* end is not included.
text_slice(self, start, end) == SubSeq(self, start + 1, end)

-----------------------------------------------------------------------------
(* UTF-8 as https://en.wikipedia.org/wiki/UTF-8 has it, which utf8.c names *)

Utf8(code_point) ==
    LET rest(shift) == 128 + ((code_point \div shift) % 64)
    IN IF code_point <= 127 THEN <<code_point>>
       ELSE IF code_point <= 2047 THEN <<192 + code_point \div 64, rest(1)>>
       ELSE IF code_point <= 65535
            THEN <<224 + code_point \div 4096, rest(64), rest(1)>>
       ELSE <<240 + code_point \div 262144, rest(4096), rest(64), rest(1)>>

Utf8String(code_points) ==
    LET upto[i \in 0 .. Len(code_points)] ==
          IF i = 0 THEN <<>> ELSE upto[i - 1] \o Utf8(code_points[i])
    IN upto[Len(code_points)]

-----------------------------------------------------------------------------

TextInit == text = <<>> /\ text_string = <<>>

\* The program reads a string in UTF-8, or one that it has written.
TextFromString ==
    /\ \/ \E c \in CodePoints : text' = text_from_string(Utf8(c))
       \/ text' = text_from_string(text_string)
    /\ UNCHANGED text_string

TextAppend ==
    /\ \E c \in CodePoints : text' = text \o text_from_string(Utf8(c))
    /\ Len(text') <= TextBound
    /\ UNCHANGED text_string

TextSlice ==
    /\ \E end \in 0 .. Len(text) : \E start \in 0 .. end :
         text' = text_slice(text, start, end)
    /\ UNCHANGED text_string

TextToString == text_string' = text_to_string(text) /\ UNCHANGED text

TextNext == TextFromString \/ TextAppend \/ TextSlice \/ TextToString

TextSpec == TextInit /\ [][TextNext]_text_vars

-----------------------------------------------------------------------------

\* Whatever text is read, appended, sliced, written and read again, reading it
\* as UTF-8 gives its code points, and so does reading what text_to_string
\* writes, at every boundary between the lengths of characters (utf8.c:5-129).
TextRoundTrip ==
    /\ \A i \in DOMAIN text : text[i] \in CodePoints
    /\ text_from_string(Utf8String(text)) = text
    /\ text_from_string(text_to_string(text)) = text

\* What is written is the string that was read: "utf8_encode(utf8_decode(s))" is
\* s (test_utf8.c).
WritesUtf8 == text_to_string(text) = Utf8String(text)
=============================================================================
