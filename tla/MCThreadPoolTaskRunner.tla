------------------------ MODULE MCThreadPoolTaskRunner ------------------------
(***************************************************************************)
(* ThreadPoolTaskRunner for TLC: a client and the bodies of tasks post two *)
(* tasks with a delay, which may fall due together or in either order, and *)
(* one without.  One of the two and the one without are to run twice.      *)
(***************************************************************************)
EXTENDS ThreadPoolTaskRunner

MCTasks == {"a", "b", "c"}

MCIterations == [t \in MCTasks |-> IF t \in {"a", "c"} THEN 1 ELSE 0]

MCDelay == [t \in Delayed |-> IF t = "a" THEN 2 ELSE 1]
=============================================================================
