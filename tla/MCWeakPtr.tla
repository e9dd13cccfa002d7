------------------------------ MODULE MCWeakPtr ------------------------------
(***************************************************************************)
(* WeakPtr for TLC: an owner and a Nullable of each kind, so that values   *)
(* pass between them in every direction, and fewer addresses than objects. *)
(***************************************************************************)
EXTENDS WeakPtr, TLC

MCKind == [u |-> "unique", o |-> "unique", v |-> "unique",
           s |-> "shared", t |-> "shared", n |-> "raw"]

MCSymmetry == Permutations(Addresses) \cup Permutations(WeakPtrs)
=============================================================================
