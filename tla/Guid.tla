--------------------------------- MODULE Guid --------------------------------
(***************************************************************************)
(* rst::Guid.  A uint64_t is the sequence of its 16 hexadecimal digits, a  *)
(* string the sequence of its characters.                                  *)
(***************************************************************************)
EXTENDS Integers, Sequences

LowerHex == <<"0", "1", "2", "3", "4", "5", "6", "7", "8", "9", "a", "b", "c", "d", "e", "f">>

UpperHex == <<"0", "1", "2", "3", "4", "5", "6", "7", "8", "9", "A", "B", "C", "D", "E", "F">>

\* The characters c with IsLowerHexDigit(c) and with IsHexDigit(c).
LowerHexDigits == {LowerHex[n] : n \in 1..16}

HexDigits == LowerHexDigits \cup {UpperHex[n] : n \in 1..16}

kGuidLength == 36

\* Where the dashes are; the code counts from 0.
Dashes == {9, 14, 19, 24}

\* Guid(): the two numbers that were drawn, with version 4 and the variant 10 in
\* binary put in.
Guid(drawn) == <<[drawn[1] EXCEPT ![13] = 4], [drawn[2] EXCEPT ![1] = 8 + (@ % 4)]>>

\* sprintf() with "%08x-%04x-%04x-%04x-%012llx"
GuidInternal(bytes) ==
  LET hex(i, first, last) == [n \in 1..last - first + 1 |-> LowerHex[bytes[i][first + n - 1] + 1]]
  IN  hex(1, 1, 8) \o <<"-">> \o hex(1, 9, 12) \o <<"-">> \o hex(1, 13, 16)
        \o <<"-">> \o hex(2, 1, 4) \o <<"-">> \o hex(2, 5, 16)

\* What AsStringView() views, too.
AsString(guid) == GuidInternal(guid)

IsValidGuidInternal(guid, digits) ==
  /\ Len(guid) = kGuidLength
  /\ \A i \in DOMAIN guid : IF i \in Dashes THEN guid[i] = "-" ELSE guid[i] \in digits

IsValid(guid) == IsValidGuidInternal(guid, HexDigits)

IsValidOutputString(guid) == IsValidGuidInternal(guid, LowerHexDigits)

-----------------------------------------------------------------------------

\* What a caller relies on, "xxxxxxxx-xxxx-4xxx-yxxx-xxxxxxxxxxxx, where y is one
\* of [8, 9, A, B]", in lower case; the same in upper case is valid, but is no
\* output, and with a digit less or without a dash it is neither.
FormattedAsVersion4(drawn) ==
  LET guid == AsString(Guid(drawn))
      upper == [i \in DOMAIN guid |-> IF i \in Dashes THEN "-"
                  ELSE UpperHex[CHOOSE n \in 1..16 : LowerHex[n] = guid[i]]]
  IN  /\ IsValid(guid) /\ IsValidOutputString(guid)
      /\ guid[15] = "4" /\ guid[20] \in {"8", "9", "a", "b"}
      /\ IsValid(upper) /\ (IsValidOutputString(upper) <=> upper = guid)
      /\ ~IsValid(Tail(guid))
      /\ \A i \in Dashes : ~IsValid([guid EXCEPT ![i] = "0"])

\* The version and the variant are all that is lost of what was drawn: no two
\* guids are the same unless the numbers differ there only.
SameOnlyByVersion(drawn, other) ==
  AsString(Guid(drawn)) = AsString(Guid(other)) <=>
    \A i \in 1..16 : /\ i # 13 => drawn[1][i] = other[1][i]
                     /\ IF i = 1 THEN drawn[2][1] % 4 = other[2][1] % 4
                        ELSE drawn[2][i] = other[2][i]
=============================================================================
