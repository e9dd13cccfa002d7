-------------------------- MODULE PollingTaskRunner --------------------------
(***************************************************************************)
(* rst::PollingTaskRunner: threads post tasks with a delay, and one thread *)
(* calls RunPendingTasks() again and again.  A call moves the tasks that   *)
(* are due out of the queue, under the mutex, and runs them without it, so *)
(* that others, and the tasks themselves, may post meanwhile.              *)
(*                                                                         *)
(* A task does not call RunPendingTasks() again (the DCHECK there).        *)
(***************************************************************************)
EXTENDS DelayedItems, Functions

CONSTANTS
  Clients,     \* threads that post
  Poller,      \* the thread that calls RunPendingTasks()
  Tasks,       \* the tasks they post, each by one call
  NoTask,
  Iterations,  \* Tasks -> Nat: the iterations a task is posted with
  MaxDelay,    \* bound: the longest delay
  MaxTime      \* bound: the last reading of the clock

ASSUME PollingAssumption ==
  /\ Poller \notin Clients
  /\ NoTask \notin Tasks
  /\ Iterations \in [Tasks -> Nat]
  /\ {MaxDelay, MaxTime} \subseteq Nat

VARIABLES
  clock,       \* what time_function_() returns
  queue,       \* queue_
  taskId,      \* task_id_
  pending,     \* the tasks of pending_tasks_, from the one that is running
  iteration,   \* i in the loop over its iterations
  inPoll,      \* a call of RunPendingTasks() is in progress
  postPc,      \* where each thread is in PostDelayedTaskWithIterations()
  call,        \* the task and future_time_point of its call
  pushed,      \* history: [task, timePoint] in the order of insertion
  runs,        \* history: how often each task has returned
  atStart      \* history: the tasks that were due when the last poll began

postVars == <<postPc, call>>
pollVars == <<pending, iteration, inPoll>>
vars == <<clock, queue, taskId, pollVars, postVars, pushed, runs, atStart>>

Posters == Clients \cup {Poller}

NoCall == [task |-> NoTask, timePoint |-> 0]

Push == [task : Tasks, timePoint : 0..MaxTime]

\* Items move to pending_tasks_ without the time and the id, which the model
\* keeps to know what they were.
Item == [task : Tasks, timePoint : 0..MaxTime, taskId : Nat]

TasksOf(items) == {x.task : x \in items}

Init ==
  /\ clock = 0
  /\ queue = {}
  /\ taskId = 0
  /\ pending = <<>>
  /\ iteration = 0
  /\ inPoll = FALSE
  /\ postPc = [p \in Posters |-> "idle"]
  /\ call = [p \in Posters |-> NoCall]
  /\ pushed = <<>>
  /\ runs = [t \in Tasks |-> 0]
  /\ atStart = {}

-----------------------------------------------------------------------------
(* PostDelayedTaskWithIterations() *)

Unpushed == Tasks \ (TasksOf(Range(pushed)) \cup TasksOf(Range(call)))

ReadClock(p, t) ==
  /\ postPc[p] = "idle"
  /\ t \in Unpushed
  /\ \E delay \in 0..MaxDelay :
        /\ clock + delay <= MaxTime
        /\ call' = [call EXCEPT ![p] = [task |-> t, timePoint |-> clock + delay]]
  /\ postPc' = [postPc EXCEPT ![p] = "insert"]
  /\ UNCHANGED <<clock, queue, taskId, pollVars, pushed, runs, atStart>>

\* Mutant: RunPendingTasks() keeps the mutex while it runs the tasks.
InsertBetweenPolls(p) ==
  /\ postPc[p] = "insert" /\ ~inPoll
  /\ queue' = queue \cup {[task |-> call[p].task,
                           timePoint |-> call[p].timePoint,
                           taskId |-> taskId]}
  /\ taskId' = taskId + 1
  /\ pushed' = Append(pushed, call[p])
  /\ call' = [call EXCEPT ![p] = NoCall]
  /\ postPc' = [postPc EXCEPT ![p] = "idle"]
  /\ UNCHANGED <<clock, pollVars, runs, atStart>>

Insert(p) ==
  /\ postPc[p] = "insert"
  /\ queue' = queue \cup {[task |-> call[p].task,
                           timePoint |-> call[p].timePoint,
                           taskId |-> taskId]}
  /\ taskId' = taskId + 1
  /\ pushed' = Append(pushed, call[p])
  /\ call' = [call EXCEPT ![p] = NoCall]
  /\ postPc' = [postPc EXCEPT ![p] = "idle"]
  /\ UNCHANGED <<clock, pollVars, runs, atStart>>

-----------------------------------------------------------------------------
(* RunPendingTasks() *)

\* The critical section.  The clock is read with the mutex held.
StartPoll ==
  /\ ~inPoll /\ postPc[Poller] = "idle"
  /\ pending = <<>>
  /\ LET due == Due(queue, clock)
     IN  /\ pending' \in PopOrders(due)
         /\ queue' = queue \ due
  /\ iteration' = 0
  /\ inPoll' = TRUE
  /\ atStart' = {pushed[i].task : i \in {j \in DOMAIN pushed :
                                            pushed[j].timePoint <= clock}}
  /\ UNCHANGED <<clock, taskId, postVars, pushed, runs>>

\* task.task() returns; its body is not posting any more.
RunTask ==
  /\ inPoll /\ pending # <<>>
  /\ postPc[Poller] = "idle"
  /\ LET t == Head(pending).task
     IN  /\ runs' = [runs EXCEPT ![t] = @ + 1]
         /\ \/ iteration < Iterations[t]
               /\ iteration' = iteration + 1 /\ UNCHANGED pending
            \/ iteration = Iterations[t]
               /\ iteration' = 0 /\ pending' = Tail(pending)
  /\ UNCHANGED <<clock, queue, taskId, inPoll, postVars, pushed, atStart>>

EndPoll ==
  /\ inPoll /\ pending = <<>>
  /\ inPoll' = FALSE
  /\ UNCHANGED <<clock, queue, taskId, pending, iteration, postVars, pushed,
                 runs, atStart>>

-----------------------------------------------------------------------------

Tick ==
  /\ clock < MaxTime
  /\ clock' = clock + 1
  /\ UNCHANGED <<queue, taskId, pollVars, postVars, pushed, runs, atStart>>

Next ==
  \/ \E p \in Posters : Insert(p) \/ \E t \in Tasks : ReadClock(p, t)
  \/ StartPoll
  \/ RunTask
  \/ EndPoll
  \/ Tick

Spec == Init /\ [][Next]_vars

-----------------------------------------------------------------------------

TypeInv ==
  /\ clock \in 0..MaxTime
  /\ queue \subseteq Item
  /\ taskId \in Nat
  /\ pending \in Seq(Item)
  /\ iteration \in Nat
  /\ inPoll \in BOOLEAN
  /\ postPc \in [Posters -> {"idle", "insert"}]
  /\ call \in [Posters -> Push \cup {NoCall}]
  /\ pushed \in Seq(Push)
  /\ runs \in [Tasks -> Nat]
  /\ atStart \subseteq Tasks

AllRuns(t) == Iterations[t] + 1

\* RunPendingTasks() "runs all pending tasks in interval (-inf,
\* time_function_()]": when a call is over exactly the tasks that were due when
\* it had the mutex have run, as often as asked.  What a task has posted in the
\* meantime waits for the next call, even without a delay.
PollRunsExactlyWhatIsDue ==
  ~inPoll =>
    \A t \in Tasks : runs[t] = IF t \in atStart THEN AllRuns(t) ELSE 0

DueTasks == INSTANCE DueQueue WITH closed <- FALSE

\* Poll after poll, the tasks are run when they are due, and of those that are
\* due no later than another each that was posted before it, be it in the same
\* poll or in an earlier one.
ImplementsDueQueue == DueTasks!Spec

\* A call of RunPendingTasks() returns, although its tasks may post others.
PollReturns == inPoll ~> ~inPoll
=============================================================================
