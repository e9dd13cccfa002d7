------------------------------ MODULE MCBarrier ------------------------------
(***************************************************************************)
(* Barrier for TLC: four threads, every way to hand out the calls.         *)
(***************************************************************************)
EXTENDS Barrier
=============================================================================
