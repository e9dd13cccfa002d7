------------------------- MODULE MCDelayedTaskRunner -------------------------
(***************************************************************************)
(* Instances of DelayedTaskRunner for TLC: two or three worker ids and one *)
(* client; task `a' is posted with two iterations, `b' and `c' with one.   *)
(***************************************************************************)
EXTENDS DelayedTaskRunner

MCTasks == {"a", "b", "c"}

MCIterations == [t \in MCTasks |-> IF t = "a" THEN 1 ELSE 0]
=============================================================================
