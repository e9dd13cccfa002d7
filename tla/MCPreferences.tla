---------------------------- MODULE MCPreferences ----------------------------
(***************************************************************************)
(* Preferences for TLC.                                                    *)
(***************************************************************************)
EXTENDS StoredValues

a == 1
b == 2
c == 3

MCIntMin == -3

\* Nothing, not even a type.
MCnullptr == <<>>

\* Siblings, paths above and below each other, two of them two levels apart.
MCPaths == {<<a>>, <<a, b>>, <<a, c>>, <<a, b, c>>}

Of(kind, x) == [kind |-> kind, x |-> x]

\* Numbers of which two and two are equal within an epsilon and the outer two
\* are not, ints and none, an array and an object with something in it.
MCSettable == {Of("Bool", TRUE), Of("Int", 1), Of("Double", 6),
               Of("Array", <<String(1), Number(6)>>),
               Of("Object", [k \in {b} |-> Number(4)]),
               Of("Object", [k \in {} |-> nullptr])}

MCContents == {Bool(TRUE), Bool(FALSE), String(1)}
  \cup {Number(n) : n \in {4, 6, 8}}
  \cup {Array(<<String(1), Number(6)>>), Array(<<>>)}
  \cup {Object([k \in {b} |-> Number(4)]), Object([k \in {} |-> nullptr])}

MCDefaults == {Of("Bool", FALSE), Of("Int", 2), Of("Array", <<>>),
               Of("Object", [k \in {} |-> nullptr])}
=============================================================================
