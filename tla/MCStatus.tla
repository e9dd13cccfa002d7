------------------------------ MODULE MCStatus -------------------------------
(***************************************************************************)
(* Status for TLC.                                                         *)
(***************************************************************************)
EXTENDS Status, TLC

Symmetry == Permutations(Statuses) \cup Permutations(StatusOrs) \cup Permutations(Errors)
=============================================================================
