------------------------------ MODULE TaskQueue ------------------------------
(***************************************************************************)
(* What rst::TaskRunner promises to those who post tasks to it: a task     *)
(* posted with `iterations' is started `iterations + 1' times, tasks start *)
(* in the order they were enqueued, and once the runner is being destroyed *)
(* nothing is started any more.  Who runs the tasks is left open.          *)
(***************************************************************************)
EXTENDS Integers, Sequences, Functions

CONSTANTS Tasks,       \* the tasks ever posted, each one a single Post* call
          Iterations,  \* Tasks -> Nat, the `iterations' it is posted with
          MaxBatch     \* bound: tasks enqueued at once

VARIABLES posted,      \* the tasks posted so far, in the order they were enqueued
          runs,        \* how often each task has been started
          finished,    \* how often each task has returned
          closed       \* the destructor of the runner has begun

vars == <<posted, runs, finished, closed>>

AllRuns(t) == Iterations[t] + 1

Unposted == Tasks \ Range(posted)

\* The posted tasks before t have all been started as often as asked.
IsNext(t) == \E i \in DOMAIN posted :
                /\ posted[i] = t
                /\ runs[t] < AllRuns(t)
                /\ \A j \in 1..(i - 1) : runs[posted[j]] = AllRuns(posted[j])

Init ==
  /\ posted = <<>>
  /\ runs = [t \in Tasks |-> 0]
  /\ finished = [t \in Tasks |-> 0]
  /\ closed = FALSE

Post ==
  /\ \E n \in 1..MaxBatch : \E batch \in [1..n -> Unposted] :
        IsInjective(batch) /\ posted' = posted \o batch
  /\ UNCHANGED <<runs, finished, closed>>

Start(t) ==
  /\ ~closed
  /\ IsNext(t)
  /\ runs' = [runs EXCEPT ![t] = @ + 1]
  /\ UNCHANGED <<posted, finished, closed>>

Finish(t) ==
  /\ finished[t] < runs[t]
  /\ finished' = [finished EXCEPT ![t] = @ + 1]
  /\ UNCHANGED <<posted, runs, closed>>

Close ==
  /\ ~closed
  /\ closed' = TRUE
  /\ UNCHANGED <<posted, runs, finished>>

Next ==
  \/ Post
  \/ \E t \in Tasks : Start(t) \/ Finish(t)
  \/ Close

Spec == Init /\ [][Next]_vars

\* A runner that is not being destroyed gets round to every task it was given.
FairSpec ==
  Spec /\ \A t \in Tasks : WF_vars(Start(t)) /\ WF_vars(Finish(t))
=============================================================================
