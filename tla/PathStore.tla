------------------------------ MODULE PathStore ------------------------------
(***************************************************************************)
(* What a store of values at dotted paths promises, without any tree: what *)
(* is found at each path after a value has been stored at one of them.     *)
(***************************************************************************)
EXTENDS Sequences, SequencesExt

CONSTANTS Paths,          \* the paths at which something may be found
          Values,         \* what may be stored
          Inside(_, _),   \* what a value contains at a path, <<>> for itself
          AnObject,       \* what is found where there is an object
          Nothing         \* what is found where there is no value

VARIABLES found,          \* Paths -> what is found there
          stored          \* what was last stored at each path

Init ==
  /\ found = [p \in Paths |-> Nothing]
  /\ stored = [p \in {} |-> Nothing]

\* Below `path' there is what `value' contains, above it there are objects,
\* and everything else remains.
Store(path, value) ==
  /\ stored' = [p \in DOMAIN stored \cup {path} |->
                  IF p = path THEN value ELSE stored[p]]
  /\ found' = [p \in Paths |->
                 IF IsPrefix(path, p)
                   THEN Inside(value, SubSeq(p, Len(path) + 1, Len(p)))
                 ELSE IF IsPrefix(p, path) THEN AnObject
                 ELSE found[p]]

Next == \E p \in Paths, v \in Values : Store(p, v)

Spec == Init /\ [][Next]_<<found, stored>>
=============================================================================
