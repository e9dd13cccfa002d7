----------------------------- MODULE OneShotTimer -----------------------------
(***************************************************************************)
(* rst::OneShotTimer on a task runner that delivers the posted callbacks,  *)
(* each once and in any order, on the thread that owns the timer.  A task  *)
(* is named by the task_id_ of the Start() that set it.  The body of a     *)
(* task may call the timer again, so that the calls in progress form a     *)
(* stack.                                                                  *)
(*                                                                         *)
(* A caller keeps the timer alive during FireNow(); the body of a task run *)
(* by the task runner may destroy it.                                      *)
(***************************************************************************)
EXTENDS Integers, Sequences

CONSTANT MaxStarts    \* bound: calls of Start()

VARIABLES
  task,       \* task_, EmptyTask when empty
  taskId,     \* task_id_
  isRunning,  \* is_running_
  alive,      \* the WeakPtrs to the timer are valid
  callbacks,  \* ids bound into the callbacks that wait in the task runner
  bodies,     \* the task bodies in progress, innermost first
  runs        \* history: how often each task was run

vars == <<task, taskId, isRunning, alive, callbacks, bodies, runs>>

Ids == 1..MaxStarts
EmptyTask == 0

FromFireNow == 0    \* in place of the id of a callback

\* Who has run a task body, a callback or FireNow(), and which task it is.
Body == [by : Ids \cup {FromFireNow}, task : Ids]

InFireNow == \E i \in DOMAIN bodies : bodies[i].by = FromFireNow

Init ==
  /\ task = EmptyTask
  /\ taskId = 0
  /\ isRunning = FALSE
  /\ alive = TRUE
  /\ callbacks = {}
  /\ bodies = <<>>
  /\ runs = [k \in Ids |-> 0]

-----------------------------------------------------------------------------

\* Mutant: a timer that is already running posts no new callback.
StartOncePosted ==
  /\ alive
  /\ taskId < MaxStarts
  /\ task' = taskId + 1
  /\ isRunning' = TRUE
  /\ taskId' = taskId + 1
  /\ callbacks' = callbacks \cup (IF isRunning THEN {} ELSE {taskId + 1})
  /\ UNCHANGED <<alive, bodies, runs>>

Start ==
  /\ alive
  /\ taskId < MaxStarts
  /\ task' = taskId + 1
  /\ isRunning' = TRUE
  /\ taskId' = taskId + 1
  /\ callbacks' = callbacks \cup {taskId + 1}
  /\ UNCHANGED <<alive, bodies, runs>>

\* Mutant: one of the two conditions is missing.
IsCurrentForAnyId(id) == isRunning

\* RunTask(id) gets past its early return.
IsCurrent(id) == isRunning /\ id = taskId

\* RunTask() from there to the call of the task.
RunTask(by) ==
  /\ task' = EmptyTask
  /\ isRunning' = FALSE
  /\ bodies' = <<[by |-> by, task |-> task]>> \o bodies
  /\ runs' = [runs EXCEPT ![task] = @ + 1]

\* Mutant: the callback is bound to `this' and not to AsWeakPtr().
RunCallbackOfThis(id) ==
  /\ id \in callbacks
  /\ bodies = <<>>
  /\ callbacks' = callbacks \ {id}
  /\ \/ IsCurrent(id) /\ RunTask(id)
     \/ ~IsCurrent(id) /\ UNCHANGED <<task, isRunning, bodies, runs>>
  /\ UNCHANGED <<taskId, alive>>

\* The task runner calls what Bind() made for a Start(): RunTask(id), unless
\* the timer has been destroyed.
RunCallback(id) ==
  /\ id \in callbacks
  /\ bodies = <<>>
  /\ callbacks' = callbacks \ {id}
  /\ \/ alive /\ IsCurrent(id) /\ RunTask(id)
     \/ ~(alive /\ IsCurrent(id)) /\ UNCHANGED <<task, isRunning, bodies, runs>>
  /\ UNCHANGED <<taskId, alive>>

FireNow ==
  /\ alive
  /\ isRunning
  /\ RunTask(FromFireNow)
  /\ UNCHANGED <<taskId, alive, callbacks>>

\* The task body returns, and with it RunTask() and the caller of it.
Return ==
  /\ bodies # <<>>
  /\ bodies' = Tail(bodies)
  /\ isRunning' = (isRunning /\ Head(bodies).by # FromFireNow)
  /\ UNCHANGED <<task, taskId, alive, callbacks, runs>>

Destroy ==
  /\ alive
  /\ ~InFireNow
  /\ alive' = FALSE
  /\ UNCHANGED <<task, taskId, isRunning, callbacks, bodies, runs>>

Next ==
  \/ Start
  \/ FireNow
  \/ Return
  \/ Destroy
  \/ \E id \in Ids : RunCallback(id)

Spec == Init /\ [][Next]_vars

\* The task runner gets round to every callback and task bodies return.
FairSpec ==
  /\ Spec
  /\ WF_vars(Return)
  /\ \A id \in Ids : WF_vars(RunCallback(id))

-----------------------------------------------------------------------------

TypeInv ==
  /\ task \in Ids \cup {EmptyTask}
  /\ taskId \in 0..MaxStarts
  /\ isRunning \in BOOLEAN
  /\ alive \in BOOLEAN
  /\ callbacks \subseteq Ids
  /\ bodies \in Seq(Body)
  /\ runs \in [Ids -> Nat]

\* While IsRunning() returns true the last task is to come: it has not been run,
\* task_ still holds it (the DCHECK in RunTask()) and its callback is queued.
RunningIsPending ==
  alive /\ isRunning =>
    /\ task = taskId
    /\ taskId \in callbacks
    /\ runs[taskId] = 0

\* A stale callback of an earlier Start() never runs the task of a later one
\* before its time, and no task runs twice, be it fired, restarted or both.
NeverEarlyNorTwice ==
  /\ \A i \in DOMAIN bodies : bodies[i].by \in {FromFireNow, bodies[i].task}
  /\ \A k \in Ids : runs[k] <= 1

\* What was replaced by a later Start() or cancelled by the destructor does not
\* run: "you do not get called when your object has gone out of scope".
OnlyTheLastRuns ==
  [][\A k \in Ids : runs'[k] # runs[k] => k = taskId /\ alive]_vars

Settled(k) == runs[k] = 1 \/ taskId > k \/ ~alive

\* A running timer calls its task, unless it is replaced or destroyed first.
\* Only timers that run outside of a FireNow() are promised this.
RunningTimerFires ==
  \A k \in Ids : isRunning /\ taskId = k /\ ~InFireNow ~> Settled(k)

\* "Starts the timer to run the |task| at the given |delay| from now", with no
\* exception for a Start() in the body of a task that FireNow() runs.
StartedTaskRuns ==
  \A k \in Ids : isRunning /\ taskId = k ~> Settled(k)
=============================================================================
