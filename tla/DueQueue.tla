------------------------------- MODULE DueQueue -------------------------------
(***************************************************************************)
(* What rst::TaskRunner promises to those who post tasks with a delay: a   *)
(* task is run when the delay has passed, as often as it was posted for,   *)
(* and after every task that was posted before it and is due no later.     *)
(* How a runner comes to know what is due, and who runs it, is left open,  *)
(* as is the order of tasks of which the one posted later is due earlier:  *)
(* a runner may be late.                                                   *)
(***************************************************************************)
EXTENDS Integers, Sequences

CONSTANTS Tasks,       \* the tasks posted with a delay, each by one call
          Iterations,  \* Tasks -> Nat, the `iterations' each is posted with
          MaxTime      \* bound: the last reading of the clock

VARIABLES clock,
          pushed,      \* [task, timePoint] in the order of the calls
          runs,        \* how often each task has been run
          closed       \* the runner is being destroyed

vars == <<clock, pushed, runs, closed>>

Push == [task : Tasks, timePoint : 0..MaxTime]

HasRun(t) == runs[t] = Iterations[t] + 1

Init ==
  /\ clock = 0
  /\ pushed = <<>>
  /\ runs = [t \in Tasks |-> 0]
  /\ closed = FALSE

\* The clock may have moved on since it was read for the call.
Post ==
  /\ ~closed
  /\ \E p \in Push :
        /\ \A i \in DOMAIN pushed : pushed[i].task # p.task
        /\ pushed' = Append(pushed, p)
  /\ UNCHANGED <<clock, runs, closed>>

IsNext(i) ==
  /\ pushed[i].timePoint <= clock
  /\ ~HasRun(pushed[i].task)
  /\ \A j \in 1..(i - 1) :
        pushed[j].timePoint <= pushed[i].timePoint => HasRun(pushed[j].task)

Run(t) ==
  /\ ~closed
  /\ \E i \in DOMAIN pushed : pushed[i].task = t /\ IsNext(i)
  /\ runs' = [runs EXCEPT ![t] = @ + 1]
  /\ UNCHANGED <<clock, pushed, closed>>

Tick ==
  /\ clock' = clock + 1
  /\ UNCHANGED <<pushed, runs, closed>>

Close ==
  /\ ~closed
  /\ closed' = TRUE
  /\ UNCHANGED <<clock, pushed, runs>>

Next ==
  \/ Post
  \/ \E t \in Tasks : Run(t)
  \/ Tick
  \/ Close

Spec == Init /\ [][Next]_vars
=============================================================================
