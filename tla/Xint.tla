---------------------------------- MODULE Xint ----------------------------------
(***************************************************************************)
(* Which strings are integers and which (src/helpers/string/string.c:      *)
(* 56-75, 223-301).  Strings are sequences of characters without spaces.   *)
(***************************************************************************)
EXTENDS Integers, Sequences

CONSTANT IntMax   \* the largest int64_t; the least is -IntMax - 1

ASSUME XintAssumption == IntMax \in Nat

\* The digits of strtol, by their value.
digits_of_value ==
    [v \in 0 .. 15 |->
       << {"0"}, {"1"}, {"2"}, {"3"}, {"4"}, {"5"}, {"6"}, {"7"}, {"8"}, {"9"}, {"a", "A"},
          {"b", "B"}, {"c", "C"}, {"d", "D"}, {"e", "E"}, {"f", "F"} >>[v + 1]]

digit_value ==
    [c \in UNION {digits_of_value[v] : v \in 0 .. 15} |->
       CHOOSE v \in 0 .. 15 : c \in digits_of_value[v]]

is_digit(c, base) == c \in DOMAIN digit_value /\ digit_value[c] < base

string_starts_with(target, prefix) ==
    Len(prefix) <= Len(target) /\ SubSeq(target, 1, Len(prefix)) = prefix

string_slice_from(self, start) == SubSeq(self, start + 1, Len(self))

is_signed(self) == string_starts_with(self, <<"-">>) \/ string_starts_with(self, <<"+">>)

\* The number that digits stand for in a base.
Denoted(digits, base) ==
    LET upto[i \in 0 .. Len(digits)] ==
          IF i = 0 THEN 0 ELSE upto[i - 1] * base + digit_value[digits[i]]
    IN upto[Len(digits)]

AllDigits(self, base) == \A i \in DOMAIN self : is_digit(self[i], base)

\* strtol of the C library, which also takes a sign and, for base 16, a prefix,
\* reads as many digits as there are, and stops at the ends of its range.
digits_start(self, base) ==
    LET sign == IF is_signed(self) THEN 1 ELSE 0
    IN IF /\ base = 16 /\ Len(self) > sign + 2
          /\ SubSeq(self, sign + 1, sign + 2) \in {<<"0", "x">>, <<"0", "X">>}
          /\ is_digit(self[sign + 3], 16)
       THEN sign + 2 ELSE sign

digits_end(self, start, base) ==
    CHOOSE n \in start .. Len(self) :
      /\ AllDigits(SubSeq(self, start + 1, n), base)
      /\ n < Len(self) => ~ is_digit(self[n + 1], base)

in_range(negative, value) ==
    IF negative THEN (IF value > IntMax THEN -IntMax - 1 ELSE -value)
    ELSE IF value > IntMax THEN IntMax ELSE value

digits_read(self, start, end, base) ==
    [end |-> IF end = start THEN 0 ELSE end,
     value |-> in_range(string_starts_with(self, <<"-">>),
                        Denoted(SubSeq(self, start + 1, end), base))]

strtol(self, base) ==
    LET start == digits_start(self, base)
    IN digits_read(self, start, digits_end(self, start, base), base)

string_is_int_of_base(self, base) ==
    self # <<>> /\ strtol(self, base).end = Len(self)

string_parse_int(self, base) == strtol(self, base).value

unsigned(self) == IF is_signed(self) THEN string_slice_from(self, 1) ELSE self

\* A slip: the prefix of an octal number is not taken off.
based_octal(self) ==
    CASE string_starts_with(self, <<"0", "x">>) ->
           [digits |-> string_slice_from(self, 2), base |-> 16]
      [] string_starts_with(self, <<"0", "o">>) -> [digits |-> self, base |-> 8]
      [] OTHER -> [digits |-> self, base |-> 10]

\* What is left of a string without a sign behind its prefix, and the base.
based(self) ==
    CASE string_starts_with(self, <<"0", "x">>) ->
           [digits |-> string_slice_from(self, 2), base |-> 16]
      [] string_starts_with(self, <<"0", "o">>) ->
           [digits |-> string_slice_from(self, 2), base |-> 8]
      [] OTHER -> [digits |-> self, base |-> 10]

\* A second sign is refused; behind a prefix strtol looks for itself.
string_is_xint(self) ==
    LET form == based(unsigned(self))
    IN /\ ~ is_signed(unsigned(self))
       /\ string_is_int_of_base(form.digits, form.base)

\* string_parse_xint knows one prefix more.
parse_form(self) ==
    IF string_starts_with(self, <<"0", "b">>)
    THEN [digits |-> string_slice_from(self, 2), base |-> 2]
    ELSE based(self)

\* -result of an int64_t, as the processor has it: the least one has no opposite.
negated(result) == IF result = -IntMax - 1 THEN result ELSE -result

\* For a string that is an xint, which has one sign at most before any prefix.
string_parse_xint(self) ==
    LET form == parse_form(unsigned(self))
        value == string_parse_int(form.digits, form.base)
    IN IF string_starts_with(self, <<"-">>) THEN negated(value) ELSE value
=============================================================================
