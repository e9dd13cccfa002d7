---------------------------- MODULE MCOneShotTimer ----------------------------
(***************************************************************************)
(* OneShotTimer for TLC: a few calls of Start(), so that callbacks of      *)
(* replaced tasks are still queued, and bodies that start and fire again.  *)
(***************************************************************************)
EXTENDS OneShotTimer
=============================================================================
