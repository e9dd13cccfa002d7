--------------------------- MODULE MCApplyTaskSync ---------------------------
(***************************************************************************)
(* ApplyTaskSync for TLC with three iterations.                            *)
(***************************************************************************)
EXTENDS ApplyTaskSync

MCThreads == Runs \cup {Caller}
=============================================================================
