--------------------------------- MODULE Text --------------------------------
(***************************************************************************)
(* rst::Format() and rst::StrCat().  A string is a sequence of characters; *)
(* a stretch of text that nothing looks into counts as one character.      *)
(***************************************************************************)
EXTENDS Integers, Sequences, SequencesExt

LeftBrace == "{"
RightBrace == "}"

Digit == <<"0", "1", "2", "3", "4", "5", "6", "7", "8", "9">>

\* std::to_chars()
IntToString(n) ==
  LET digits[i \in Nat] ==
        (IF i < 10 THEN <<>> ELSE digits[i \div 10]) \o <<Digit[(i % 10) + 1]>>
  IN  IF n < 0 THEN <<"-">> \o digits[-n] ELSE digits[n]

\* view() of an Arg made of an argument of each type.
Arg(kind, x) ==
  CASE kind = "bool" -> IF x THEN <<"true">> ELSE <<"false">>
    [] kind = "char" -> <<x>>
    [] kind = "int" -> IntToString(x)
    [] kind = "string" -> x

StrCat(values) == FlattenSeq(values)

\* new_size: every {} makes way for its argument.  The subtraction may not
\* wrap around.
Room(format, values) == Len(format) + Len(FlattenSeq(values)) - 2 * Len(values)

At(format, i) == IF i \in DOMAIN format THEN format[i] ELSE "end"

\* What is written from the i-th character of the format on, when arg_idx
\* arguments have been used; nothing when an assertion fails on the way.
FormatFrom(format, values) ==
  LET from[i \in 1..Len(format) + 2] ==
        [idx \in 0..Len(values) + 1 |->
          LET after(text, j, used) == {text \o rest : rest \in from[j][used]}
              c == At(format, i)
              next == At(format, i + 1)
          IN CASE i > Len(format) -> IF idx = Len(values) THEN {<<>>} ELSE {}
               [] c = LeftBrace /\ next = RightBrace ->
                    IF idx < Len(values) THEN after(values[idx + 1], i + 2, idx + 1) ELSE {}
               [] c \in {LeftBrace, RightBrace} /\ next = c -> after(<<c>>, i + 2, idx)
               [] /\ c \in {LeftBrace, RightBrace} /\ next # c
                  /\ ~(c = LeftBrace /\ next = RightBrace) -> {}
               [] OTHER -> after(<<c>>, i + 1, idx)]
  IN  from

\* format_size is the length of the string literal, which may go on behind the
\* '\0' that ends the string.
LengthIsStrlen(format) == \A i \in DOMAIN format : format[i] # "NUL"

\* Mutant: the arguments are not counted in the end.
FormatOfFewer(format, values) ==
  IF LengthIsStrlen(format)
  THEN UNION {FormatFrom(format, SubSeq(values, 1, n))[1][0] : n \in 0..Len(values)}
  ELSE {}

\* FormatAndReturnString(): the output, or nothing when an assertion fails.
Format(format, values) ==
  IF LengthIsStrlen(format) /\ Room(format, values) >= 0
  THEN FormatFrom(format, values)[1][0] ELSE {}
=============================================================================
