-------------------------- MODULE DelayedTaskRunner --------------------------
(***************************************************************************)
(* ThreadPoolTaskRunner::DelayedTaskRunner: a queue of tasks served by up  *)
(* to MaxThreads worker threads that are created on demand, wait on a      *)
(* condition variable for keep_alive_time_ and leave when it expires.      *)
(*                                                                         *)
(* Every block of the code that holds thread_mutex_ is one action: nothing *)
(* it reads or writes is touched without the mutex.  A notify_one() after  *)
(* the unlock is an action of its own.  A thread in a wait is `waiting'    *)
(* while it is parked on thread_cv_ and `woken' or `timedOut' from then    *)
(* until it has the mutex again.                                           *)
(***************************************************************************)
EXTENDS Integers, Sequences, FiniteSets, Functions

CONSTANTS
  Workers,           \* thread ids of the pool (an id is free again once erased)
  Clients,           \* threads outside the pool that post tasks
  Dtor,              \* the thread that destroys the runner
  MaxThreads,        \* max_threads_num_
  Tasks,             \* the tasks posted in a run, each by one call
  Iterations,        \* Tasks -> Nat: the iterations a task is posted with
  MaxBatch,          \* bound: tasks in one call of PushTasks()
  NoTask,            \* an empty std::function
  KeepAliveExpires   \* FALSE: no worker idles for keep_alive_time_ in the run

ASSUME ThreadsAssumption ==
  /\ IsFiniteSet(Workers)
  /\ Workers \cap Clients = {}
  /\ Dtor \notin Workers \cup Clients

\* The constructor's DCHECK, and enough ids for every thread of the map.
MaxThreadsAssumption ==
  /\ MaxThreads \in Nat \ {0}
  /\ MaxThreads <= Cardinality(Workers)

ASSUME PoolAssumption == MaxThreadsAssumption

ASSUME TasksAssumption ==
  /\ Iterations \in [Tasks -> Nat]
  /\ NoTask \notin Tasks
  /\ MaxBatch \in Nat \ {0}
  /\ KeepAliveExpires \in BOOLEAN

VARIABLES
  tasks,             \* tasks_: sequence of [task, iterations]
  threadMap,         \* thread_id_to_thread_map_
  waitingThreadsNum, \* waiting_threads_num_
  shouldExit,        \* should_exit_
  pc,                \* where each thread is
  task,              \* the local `task' of each worker
  posted,            \* history: tasks in the order they entered tasks_
  runs,              \* history: how often each task was started
  finished           \* history: how often each task returned

vars == <<tasks, threadMap, waitingThreadsNum, shouldExit, pc, task,
          posted, runs, finished>>

Threads == Workers \cup Clients \cup {Dtor}

WorkerPc == {"none", "loop", "waiting", "woken", "timedOut", "leaving",
             "notifyMore", "running", "notifyPushed"}
ClientPc == {"idle", "notifyPushed"}
DtorPc   == {"idle", "waiting", "woken", "destroyed"}

Item == [task : Tasks, iterations : Nat]

-----------------------------------------------------------------------------

Unposted == Tasks \ Range(posted)

\* thread_cv_.notify_one() in a state where the threads are at p: one of the
\* threads parked on the condition variable is released, whichever it is.
NotifyOne(p) ==
  LET parked == {th \in DOMAIN p : p[th] = "waiting"}
  IN  IF parked = {} THEN {p}
      ELSE {[p EXCEPT ![th] = "woken"] : th \in parked}

\* The single runs that a batch of tasks asks for: tasks_num is their number.
SingleRuns(batch) == UNION {{t} \X (0..Iterations[t]) : t \in Range(batch)}

Lesser(m, n) == IF m <= n THEN m ELSE n

\* Mutant: the size of the map is not taken into account.
ThreadsToCreateUnbounded(batch) ==
  LET wanted == Cardinality(SingleRuns(batch))
  IN  wanted - Lesser(wanted, waitingThreadsNum)

\* threads_num_to_create of PushTask() and PushTasks().
ThreadsToCreate(batch) ==
  LET wanted == Lesser(Cardinality(SingleRuns(batch)),
                       MaxThreads - Cardinality(threadMap))
  IN  wanted - Lesser(wanted, waitingThreadsNum)

\* The new workers of a push; each of them starts in WaitAndRunTasks().
NewWorkers(batch) ==
  {new \in SUBSET (Workers \ threadMap) :
      Cardinality(new) = ThreadsToCreate(batch)}

-----------------------------------------------------------------------------

Init ==
  /\ tasks = <<>>
  /\ threadMap = {}
  /\ waitingThreadsNum = 0
  /\ shouldExit = FALSE
  /\ pc = [th \in Threads |-> IF th \in Workers THEN "none" ELSE "idle"]
  /\ task = [w \in Workers |-> NoTask]
  /\ posted = <<>>
  /\ runs = [t \in Tasks |-> 0]
  /\ finished = [t \in Tasks |-> 0]

\* The critical section of PushTasks() (PushTask() is a batch of one).
Enqueue(p, batch) ==
  /\ tasks' = tasks \o [i \in DOMAIN batch |->
                  [task |-> batch[i], iterations |-> Iterations[batch[i]]]]
  /\ \E new \in NewWorkers(batch) :
        /\ threadMap' = threadMap \cup new
        /\ pc' = [th \in Threads |->
                    IF th = p THEN "notifyPushed"
                    ELSE IF th \in new THEN "loop" ELSE pc[th]]
  /\ posted' = posted \o batch
  /\ UNCHANGED <<waitingThreadsNum, shouldExit, task, runs, finished>>

\* A client posts before the runner is being destroyed; the body of a task
\* may post at any time while it runs, also during the destruction.
MayPost(p) ==
  \/ p \in Clients /\ pc[p] = "idle" /\ pc[Dtor] = "idle"
  \/ p \in Workers /\ pc[p] = "running"

PushTasks(p) ==
  /\ MayPost(p)
  /\ \E n \in 1..MaxBatch : \E batch \in [1..n -> Unposted] :
        IsInjective(batch) /\ Enqueue(p, batch)

\* Mutant: the notify_one() is missing.
NotifyPushedSilent(p) ==
  /\ pc[p] = "notifyPushed"
  /\ pc' = [pc EXCEPT ![p] = IF p \in Workers THEN "running" ELSE "idle"]
  /\ UNCHANGED <<tasks, threadMap, waitingThreadsNum, shouldExit, task,
                 posted, runs, finished>>

\* The notify_one() of PushTasks(), after the mutex is released.
NotifyPushed(p) ==
  /\ pc[p] = "notifyPushed"
  /\ pc' \in NotifyOne([pc EXCEPT ![p] = IF p \in Workers THEN "running"
                                                          ELSE "idle"])
  /\ UNCHANGED <<tasks, threadMap, waitingThreadsNum, shouldExit, task,
                 posted, runs, finished>>

-----------------------------------------------------------------------------
(* WaitAndRunTasks().  A worker that holds the mutex at the head of the    *)
(* loop comes from the top of it or out of the wait, in which case the     *)
(* deferred waiting_threads_num_-- has just run.                           *)

AtLoopHead(w) == pc[w] \in {"loop", "woken"}

WaitingAfterWake(w) == waitingThreadsNum - (IF pc[w] = "woken" THEN 1 ELSE 0)

WaitForTask(w) ==
  /\ AtLoopHead(w)
  /\ tasks = <<>> /\ ~shouldExit
  /\ waitingThreadsNum' = WaitingAfterWake(w) + 1
  /\ pc' = [pc EXCEPT ![w] = "waiting"]
  /\ UNCHANGED <<tasks, threadMap, shouldExit, task, posted, runs, finished>>

\* Mutant: the item is popped one iteration early.
AfterTakeOffByOne(q) ==
  IF Head(q).iterations <= 1
  THEN Tail(q)
  ELSE [q EXCEPT ![1].iterations = @ - 1]

\* The front item is popped with its last iteration.
AfterTake(q) ==
  IF Head(q).iterations = 0
  THEN Tail(q)
  ELSE [q EXCEPT ![1].iterations = @ - 1]

TakeTask(w) ==
  /\ AtLoopHead(w)
  /\ tasks # <<>> /\ ~shouldExit
  /\ waitingThreadsNum' = WaitingAfterWake(w)
  /\ tasks' = AfterTake(tasks)
  /\ task' = [task EXCEPT ![w] = Head(tasks).task]
  /\ runs' = [runs EXCEPT ![Head(tasks).task] = @ + 1]
  /\ pc' = [pc EXCEPT ![w] = IF tasks' # <<>> THEN "notifyMore" ELSE "running"]
  /\ UNCHANGED <<threadMap, shouldExit, posted, finished>>

ReturnOnExit(w) ==
  /\ AtLoopHead(w)
  /\ shouldExit
  /\ waitingThreadsNum' = WaitingAfterWake(w)
  /\ pc' = [pc EXCEPT ![w] = "leaving"]
  /\ UNCHANGED <<tasks, threadMap, shouldExit, task, posted, runs, finished>>

\* Mutant: the baton is dropped.
NotifyMoreSilent(w) ==
  /\ pc[w] = "notifyMore"
  /\ pc' = [pc EXCEPT ![w] = "running"]
  /\ UNCHANGED <<tasks, threadMap, waitingThreadsNum, shouldExit, task,
                 posted, runs, finished>>

\* had_items: pass the baton to another waiting worker.
NotifyMore(w) ==
  /\ pc[w] = "notifyMore"
  /\ pc' \in NotifyOne([pc EXCEPT ![w] = "running"])
  /\ UNCHANGED <<tasks, threadMap, waitingThreadsNum, shouldExit, task,
                 posted, runs, finished>>

FinishTask(w) ==
  /\ pc[w] = "running"
  /\ finished' = [finished EXCEPT ![task[w]] = @ + 1]
  /\ task' = [task EXCEPT ![w] = NoTask]
  /\ pc' = [pc EXCEPT ![w] = "loop"]
  /\ UNCHANGED <<tasks, threadMap, waitingThreadsNum, shouldExit, posted, runs>>

\* keep_alive_time_ passes while the worker is parked.
KeepAliveTimeout(w) ==
  /\ KeepAliveExpires
  /\ pc[w] = "waiting"
  /\ pc' = [pc EXCEPT ![w] = "timedOut"]
  /\ UNCHANGED <<tasks, threadMap, waitingThreadsNum, shouldExit, task,
                 posted, runs, finished>>

\* wait_for() has the mutex again and returns cv_status::timeout, which it may
\* also do for a worker that was notified but got the mutex too late.  The
\* worker returns without another look at tasks_.
ReturnOnTimeout(w) ==
  /\ \/ pc[w] = "timedOut"
     \/ pc[w] = "woken" /\ KeepAliveExpires
  /\ waitingThreadsNum' = waitingThreadsNum - 1
  /\ pc' = [pc EXCEPT ![w] = "leaving"]
  /\ UNCHANGED <<tasks, threadMap, shouldExit, task, posted, runs, finished>>

\* The deferred block of WaitAndRunTasks(), under the mutex again.
Leave(w) ==
  /\ pc[w] = "leaving"
  /\ threadMap' = threadMap \ {w}
  /\ pc' \in NotifyOne([pc EXCEPT ![w] = "none"])
  /\ UNCHANGED <<tasks, waitingThreadsNum, shouldExit, task, posted, runs,
                 finished>>

\* The wait functions of a condition variable may return for no reason.
SpuriousWakeup(th) ==
  /\ pc[th] = "waiting"
  /\ pc' = [pc EXCEPT ![th] = "woken"]
  /\ UNCHANGED <<tasks, threadMap, waitingThreadsNum, shouldExit, task,
                 posted, runs, finished>>

-----------------------------------------------------------------------------
(* ~DelayedTaskRunner().  It waits on the condition variable of the        *)
(* workers until the last one has left the map.                            *)

\* Mutant: the notify_one() in the loop is missing.
DtorLoopSilent ==
  \/ threadMap = {} /\ pc' = [pc EXCEPT ![Dtor] = "destroyed"]
  \/ threadMap # {} /\ pc' = [pc EXCEPT ![Dtor] = "waiting"]

\* One turn of the loop: either no thread is left or it notifies and waits.
DtorLoop ==
  \/ threadMap = {} /\ pc' = [pc EXCEPT ![Dtor] = "destroyed"]
  \/ /\ threadMap # {}
     /\ \E p \in NotifyOne(pc) : pc' = [p EXCEPT ![Dtor] = "waiting"]

\* The owner destroys the runner when no client is inside a call of it.
Destroy ==
  /\ pc[Dtor] = "idle"
  /\ \A c \in Clients : pc[c] = "idle"
  /\ shouldExit' = TRUE
  /\ DtorLoop
  /\ UNCHANGED <<tasks, threadMap, waitingThreadsNum, task, posted, runs,
                 finished>>

\* Mutant: `if' in place of `while' around the destructor's wait.
DtorContinueOnce ==
  /\ pc[Dtor] = "woken"
  /\ pc' = [pc EXCEPT ![Dtor] = "destroyed"]
  /\ UNCHANGED <<tasks, threadMap, waitingThreadsNum, shouldExit, task, posted,
                 runs, finished>>

DtorContinue ==
  /\ pc[Dtor] = "woken"
  /\ DtorLoop
  /\ UNCHANGED <<tasks, threadMap, waitingThreadsNum, shouldExit, task, posted,
                 runs, finished>>

-----------------------------------------------------------------------------

\* What a worker does whenever it is scheduled.
WorkerStep(w) ==
  \/ WaitForTask(w)
  \/ TakeTask(w)
  \/ ReturnOnExit(w)
  \/ NotifyMore(w)
  \/ FinishTask(w)
  \/ ReturnOnTimeout(w)
  \/ Leave(w)
  \/ NotifyPushed(w)

Next ==
  \/ \E w \in Workers : WorkerStep(w) \/ KeepAliveTimeout(w)
  \/ \E c \in Clients : NotifyPushed(c)
  \/ \E p \in Workers \cup Clients : PushTasks(p)
  \/ \E th \in Workers \cup {Dtor} : SpuriousWakeup(th)
  \/ Destroy
  \/ DtorContinue

Spec == Init /\ [][Next]_vars

\* Threads that can take a step are scheduled, the mutex is handed to everyone
\* who asks for it, and tasks return.  Nobody has to post, to destroy the
\* runner, to time out or to wake up spuriously.
FairSpec ==
  /\ Spec
  /\ \A w \in Workers : WF_vars(WorkerStep(w))
  /\ \A c \in Clients : WF_vars(NotifyPushed(c))
  /\ WF_vars(DtorContinue)

-----------------------------------------------------------------------------

\* Type invariant: the state of DelayedTaskRunner and its threads.
TypeInv ==
  /\ tasks \in Seq(Item)
  /\ threadMap \subseteq Workers
  /\ waitingThreadsNum \in Nat
  /\ shouldExit \in BOOLEAN
  /\ pc \in [Threads -> WorkerPc \cup ClientPc \cup DtorPc]
  /\ \A w \in Workers : pc[w] \in WorkerPc
  /\ \A c \in Clients : pc[c] \in ClientPc
  /\ pc[Dtor] \in DtorPc
  /\ task \in [Workers -> Tasks \cup {NoTask}]
  /\ posted \in Seq(Tasks)
  /\ runs \in [Tasks -> Nat]
  /\ finished \in [Tasks -> Nat]

\* "Up to |max_threads_num| threads" exist at a time, the threads of the map
\* are exactly those inside WaitAndRunTasks(), so that the find() in the
\* deferred block succeeds, and waiting_threads_num_ counts the threads
\* between the two ends of the wait: the arithmetic of PushTask() relies on it.
ThreadAccounting ==
  /\ Cardinality(threadMap) <= MaxThreads
  /\ threadMap = {w \in Workers : pc[w] # "none"}
  /\ waitingThreadsNum =
        Cardinality({w \in Workers : pc[w] \in {"waiting", "woken", "timedOut"}})

\* Tasks start in the order they were enqueued, and each as often as it was
\* posted for: ApplyTaskSync()'s DCHECK(i < iterations) relies on it.
StartedInOrder ==
  \A j \in DOMAIN posted :
    /\ runs[posted[j]] <= Iterations[posted[j]] + 1
    /\ runs[posted[j]] > 0 =>
         \A i \in 1..(j - 1) : runs[posted[i]] = Iterations[posted[i]] + 1

\* What has been started and has not returned is in the hands of a worker.
RunningAccounted ==
  \A t \in Tasks :
    runs[t] - finished[t] = Cardinality({w \in Workers : task[w] = t})

\* No lost wakeup: while there is a task in the queue a worker is about to take
\* it, and no worker stays parked while all others are busy in the bodies of
\* tasks, unless a notify_one() that will release one is still to come.
QueueServed ==
  tasks # <<>> /\ ~shouldExit =>
    \/ \E w \in Workers : pc[w] \in {"loop", "woken"}
    \/ /\ \E w \in Workers : pc[w] = "waiting"
       /\ \E th \in Workers \cup Clients : pc[th] \in {"notifyMore", "notifyPushed"}
    \/ /\ \A w \in Workers : pc[w] # "waiting"
       /\ \E w \in Workers : pc[w] \in {"running", "notifyMore", "notifyPushed"}

\* When the destructor has returned no thread is left that could touch the
\* runner, not even one that a running task has created meanwhile.
NobodyLeftBehind ==
  pc[Dtor] = "destroyed" => \A w \in Workers : pc[w] = "none"

\* Tasks are started only while the runner is not being destroyed.
NothingStartsOnExit == [][shouldExit => runs' = runs]_vars

\* "Posts the given |task| to be run": a posted task is started as often as
\* asked unless the runner is destroyed first.
PostedTasksRun ==
  \A t \in Tasks :
    t \in Range(posted) ~> (runs[t] = Iterations[t] + 1 \/ shouldExit)

\* The destructor returns, whatever the workers were doing when it began.
DestructorReturns == shouldExit ~> pc[Dtor] = "destroyed"

\* The pool is a task queue that is closed by its destructor.
Queue == INSTANCE TaskQueue WITH closed <- shouldExit
ImplementsTaskQueue == Queue!Spec
ImplementsFairTaskQueue == Queue!FairSpec
=============================================================================
