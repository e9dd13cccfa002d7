----------------------------- MODULE StoredValues ----------------------------
(***************************************************************************)
(* The comparisons and clones of the values that a program has in its      *)
(* preferences.                                                            *)
(***************************************************************************)
EXTENDS Preferences, ValueTree

Held == {values} \cup {Read(p) : p \in Registered}

\* operator< orders the values of a program strictly and weakly, as a sort or a
\* std::set needs it, and values neither of which is less are equal.  Equal
\* values are never less where no two numbers lie within an epsilon.  A clone
\* is the same in all its members, and equal.
OrderIsStrictWeak ==
  LET numbers == {v.number_ : v \in {w \in UNION {Parts(h) : h \in Held} :
                                        w.type = "kNumber"}}
      apart == \A m, n \in numbers : m < n => n - m >= Epsilon
  IN \A x, y \in Held :
       /\ ~(Less(x, y) /\ Less(y, x))
       /\ Less(x, y) => \A z \in Held : Less(x, z) \/ Less(z, y)
       /\ ~Less(x, y) /\ ~Less(y, x) => Equal(x, y)
       /\ apart /\ Less(x, y) => ~Equal(x, y)
       /\ Clone(x) = x /\ Equal(Clone(x), x)
=============================================================================
