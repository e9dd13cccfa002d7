---------------------------- MODULE MCPolledTimer ----------------------------
(***************************************************************************)
(* PolledTimer for TLC: three calls of Start(), so that callbacks of       *)
(* replaced tasks are still queued, and a task, with two iterations, that  *)
(* another thread or the polling one posts.                                *)
(***************************************************************************)
EXTENDS PolledTimer

MCTasks == Ids \cup {MaxStarts + 1}

MCIterations == [t \in MCTasks |-> IF t \in Ids THEN 0 ELSE 1]
=============================================================================
