------------------------------ MODULE ValueTree -------------------------------
(***************************************************************************)
(* What rst::Value does with a whole tree of values: clones and            *)
(* comparisons, which call themselves for the values inside.               *)
(***************************************************************************)
EXTENDS Value

RECURSIVE Clone(_)
Clone(value) ==
  CASE value.type = "kNull" -> Default("kNull")
    [] value.type = "kBool" -> Bool(value.bool_)
    [] value.type = "kNumber" -> Number(value.number_)
    [] value.type = "kString" -> String(value.string_)
    [] value.type = "kArray" ->
         Array([i \in DOMAIN value.array_ |-> Clone(value.array_[i])])
    [] value.type = "kObject" ->
         Object([k \in DOMAIN value.object_ |-> Clone(value.object_[k])])

-----------------------------------------------------------------------------
(* Comparisons *)

RECURSIVE Equal(_, _)
Equal(lhs, rhs) ==
  /\ lhs.type = rhs.type
  /\ CASE lhs.type = "kNull" -> TRUE
       [] lhs.type = "kNumber" ->
            /\ lhs.number_ - rhs.number_ < Epsilon
            /\ rhs.number_ - lhs.number_ < Epsilon
       [] lhs.type = "kArray" ->
            /\ Len(lhs.array_) = Len(rhs.array_)
            /\ \A i \in DOMAIN lhs.array_ : Equal(lhs.array_[i], rhs.array_[i])
       [] lhs.type = "kObject" ->
            /\ DOMAIN lhs.object_ = DOMAIN rhs.object_
            /\ \A k \in DOMAIN lhs.object_ : Equal(lhs.object_[k], rhs.object_[k])
       [] OTHER -> lhs = rhs

\* The elements of a map, in order.
Entries(object) ==
  LET keys == SetToSortSeq(DOMAIN object, LAMBDA k, l : k < l)
  IN  [i \in DOMAIN keys |-> [key |-> keys[i], value |-> object[keys[i]]]]

\* std::lexicographical_compare(), given the places where s is less than t and
\* those where t is less than s.
LexicographicLess(less, greater, s, t) ==
  IF less \cup greater = {} THEN Len(s) < Len(t) ELSE Min(less \cup greater) \in less

\* Mutant: numbers that are equal are not less, as in operator==.
NumberLessByEpsilon(m, n) == n - m >= Epsilon

NumberLess(m, n) == m < n

RECURSIVE Less(_, _)
Less(lhs, rhs) ==
  IF lhs.type # rhs.type
  THEN \E i, j \in DOMAIN Types : i < j /\ Types[i] = lhs.type /\ Types[j] = rhs.type
  ELSE CASE lhs.type = "kNull" -> FALSE
         [] lhs.type = "kBool" -> ~lhs.bool_ /\ rhs.bool_
         [] lhs.type = "kNumber" -> NumberLess(lhs.number_, rhs.number_)
         [] lhs.type = "kString" -> lhs.string_ < rhs.string_
         [] lhs.type = "kArray" ->
              LET s == lhs.array_
                  t == rhs.array_
                  both == DOMAIN s \cap DOMAIN t
              IN  LexicographicLess({i \in both : Less(s[i], t[i])},
                                    {i \in both : Less(t[i], s[i])}, s, t)
         [] lhs.type = "kObject" ->
              LET s == Entries(lhs.object_)
                  t == Entries(rhs.object_)
                  both == DOMAIN s \cap DOMAIN t
                  less(x, y) ==
                    x.key < y.key \/ (x.key = y.key /\ Less(x.value, y.value))
              IN  LexicographicLess({i \in both : less(s[i], t[i])},
                                    {i \in both : less(t[i], s[i])}, s, t)
=============================================================================
