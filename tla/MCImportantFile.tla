--------------------------- MODULE MCImportantFile ---------------------------
(***************************************************************************)
(* ImportantFile for TLC.  The sizes make ReadFile()'s loop take one pass, *)
(* or three, also when the size it goes by is another file's.  The names   *)
(* of temporary files come from guids: there are three draws, two of which *)
(* differ in the bits of the version alone.                                *)
(***************************************************************************)
EXTENDS ImportantFile, Guid

CONSTANTS empty, large

MCSize == [d \in Data |-> IF d = empty THEN 0 ELSE 4]

Digits(digit) == [i \in 1..16 |-> digit]

Draws == {<<Digits(0), Digits(0)>>, <<[Digits(0) EXCEPT ![13] = 11], Digits(0)>>,
          <<Digits(15), Digits(10)>>}

\* Each digit of one number with any value, beside digits that are not alike.
SampleDraws ==
  LET rising == [i \in 1..16 |-> i - 1]
  IN  UNION {{<<[rising EXCEPT ![i] = n], rising>>, <<rising, [rising EXCEPT ![i] = n]>>} :
               i \in 1..16, n \in 0..15}

\* Guids are formatted as version 4 and lose nothing else of what was drawn.
ASSUME GuidAssumption ==
  /\ \A drawn \in SampleDraws \cup Draws : FormattedAsVersion4(drawn)
  /\ \A drawn, other \in Draws \cup {d \in SampleDraws : d[1][16] = 15 /\ d[2][1] % 5 = 0} :
        SameOnlyByVersion(drawn, other)

MCDest == <<"file">>

\* StrCat({filename.native(), Guid().AsStringView().value(), ".tmp"})
MCTemps == {<<"file">> \o AsString(Guid(drawn)) \o <<".tmp">> : drawn \in Draws}
=============================================================================
