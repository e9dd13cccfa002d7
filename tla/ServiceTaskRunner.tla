-------------------------- MODULE ServiceTaskRunner --------------------------
(***************************************************************************)
(* ThreadPoolTaskRunner::ServiceTaskRunner: tasks posted with a delay wait *)
(* in a priority queue until its thread hands them, in batches, to the     *)
(* DelayedTaskRunner.  The thread sleeps until the front item is due, and  *)
(* a push wakes it.                                                        *)
(*                                                                         *)
(* PushTask() reads the clock before it takes the mutex and notifies after *)
(* it has released it, so that a call is three actions.  `iterations' is   *)
(* only carried along with the task and is left out.                       *)
(***************************************************************************)
EXTENDS DelayedItems, Functions

CONSTANTS
  Clients,   \* threads that post
  Tasks,     \* the tasks they post, each by one call
  NoTask,
  Delay,     \* Tasks -> the delay a task is posted with
  MaxTime    \* bound: the last reading of the clock

\* Assumed by the module that composes this one with the pool.
ServiceAssumption ==
  /\ NoTask \notin Tasks
  /\ Delay \in [Tasks -> Nat \ {0}]
  /\ MaxTime \in Nat

VARIABLES
  clock,       \* what time_function_() returns
  delayed,     \* delayed_tasks_
  taskId,      \* task_id_
  shouldExit,  \* should_exit_
  clientPc,    \* where each client is in PushTask()
  call,        \* the task and future_time_point of its call
  servicePc,   \* where the thread is in WaitAndScheduleTasks()
  deadline,    \* until when it waits
  batch,       \* its local `tasks'
  dtorPc,      \* where the destructor is
  pushed       \* history: [task, timePoint] in the order of insertion

clientVars == <<clientPc, call>>
serviceVars == <<servicePc, deadline, batch>>
vars == <<clock, delayed, taskId, shouldExit, clientVars, serviceVars, dtorPc,
          pushed>>

Forever == -1    \* the deadline of a wait() without one

NoCall == [task |-> NoTask, timePoint |-> 0]

Push == [task : Tasks, timePoint : 0..MaxTime]
Item == [task : Tasks, timePoint : 0..MaxTime, taskId : Nat]

Init ==
  /\ clock = 0
  /\ delayed = {}
  /\ taskId = 0
  /\ shouldExit = FALSE
  /\ clientPc = [c \in Clients |-> "idle"]
  /\ call = [c \in Clients |-> NoCall]
  /\ servicePc = "loop"
  /\ deadline = Forever
  /\ batch = <<>>
  /\ dtorPc = "idle"
  /\ pushed = <<>>

-----------------------------------------------------------------------------
(* PushTask() *)

Unpushed == Tasks \ ({pushed[i].task : i \in DOMAIN pushed}
                       \cup {call[c].task : c \in Clients})

ReadClock(c) ==
  /\ clientPc[c] = "idle" /\ dtorPc = "idle"
  /\ \E t \in Unpushed :
        /\ clock + Delay[t] <= MaxTime
        /\ call' = [call EXCEPT ![c] = [task |-> t, timePoint |-> clock + Delay[t]]]
  /\ clientPc' = [clientPc EXCEPT ![c] = "insert"]
  /\ UNCHANGED <<clock, delayed, taskId, shouldExit, serviceVars, dtorPc, pushed>>

Insert(c) ==
  /\ clientPc[c] = "insert"
  /\ delayed' = delayed \cup {[task |-> call[c].task,
                               timePoint |-> call[c].timePoint,
                               taskId |-> taskId]}
  /\ taskId' = taskId + 1
  /\ pushed' = Append(pushed, call[c])
  /\ call' = [call EXCEPT ![c] = NoCall]
  /\ clientPc' = [clientPc EXCEPT ![c] = "notify"]
  /\ UNCHANGED <<clock, shouldExit, serviceVars, dtorPc>>

\* thread_cv_.notify_one(): nobody but the service thread waits on it.
NotifyOne == servicePc' = IF servicePc = "waiting" THEN "woken" ELSE servicePc

\* Mutant: the notify_one() of PushTask() is missing.
NotifySilent(c) ==
  /\ clientPc[c] = "notify"
  /\ clientPc' = [clientPc EXCEPT ![c] = "idle"]
  /\ UNCHANGED <<clock, delayed, taskId, shouldExit, call, serviceVars, dtorPc,
                 pushed>>

\* Mutant: the thread is notified of the first item in the queue only.
NotifyOfFirst(c) ==
  /\ clientPc[c] = "notify"
  /\ clientPc' = [clientPc EXCEPT ![c] = "idle"]
  /\ IF Cardinality(delayed) = 1 THEN NotifyOne ELSE UNCHANGED servicePc
  /\ UNCHANGED <<clock, delayed, taskId, shouldExit, call, deadline, batch, dtorPc,
                 pushed>>

Notify(c) ==
  /\ clientPc[c] = "notify"
  /\ clientPc' = [clientPc EXCEPT ![c] = "idle"]
  /\ NotifyOne
  /\ UNCHANGED <<clock, delayed, taskId, shouldExit, call, deadline, batch, dtorPc,
                 pushed>>

-----------------------------------------------------------------------------
(* WaitAndScheduleTasks(): one action per stretch with the mutex. *)

\* Move what is due to the local vector.
Collect ==
  LET due == Due(delayed, clock)
  IN  /\ \E q \in PopOrders(due) : batch' = [i \in DOMAIN q |-> q[i].task]
      /\ delayed' = delayed \ due
      /\ servicePc' = IF due = {} THEN "loop" ELSE "pushing"
      /\ UNCHANGED deadline

WaitUntil(time) ==
  /\ servicePc' = "waiting"
  /\ deadline' = time
  /\ UNCHANGED <<delayed, batch>>

Exit ==
  /\ servicePc \in {"loop", "woken"}
  /\ shouldExit
  /\ servicePc' = "exited"
  /\ UNCHANGED <<clock, delayed, taskId, shouldExit, clientVars, deadline, batch,
                 dtorPc, pushed>>

\* The first part of a turn: the thread waits unless the front item is due.
Turn ==
  /\ servicePc = "loop" /\ ~shouldExit
  /\ \/ delayed = {} /\ WaitUntil(Forever)
     \/ /\ delayed # {} /\ clock < Front(delayed).timePoint
        /\ WaitUntil(Front(delayed).timePoint)
     \/ delayed # {} /\ clock >= Front(delayed).timePoint /\ Collect
  /\ UNCHANGED <<clock, taskId, shouldExit, clientVars, dtorPc, pushed>>

\* The second part, after a wait.  There is no loop around the wait.
AfterWait ==
  /\ servicePc = "woken" /\ ~shouldExit
  /\ \/ delayed # {} /\ Collect
     \/ delayed = {} /\ servicePc' = "loop" /\ UNCHANGED <<delayed, deadline, batch>>
  /\ UNCHANGED <<clock, taskId, shouldExit, clientVars, dtorPc, pushed>>

\* delayed_task_runner_.PushTasks(&tasks), without the mutex: `batch' is what
\* the pool is given.
PushTasks ==
  /\ servicePc = "pushing"
  /\ batch' = <<>>
  /\ servicePc' = "loop"
  /\ UNCHANGED <<clock, delayed, taskId, shouldExit, clientVars, deadline, dtorPc,
                 pushed>>

WaitEnds ==
  /\ servicePc = "waiting"
  /\ deadline # Forever /\ clock >= deadline
  /\ servicePc' = "woken"
  /\ UNCHANGED <<clock, delayed, taskId, shouldExit, clientVars, deadline, batch,
                 dtorPc, pushed>>

SpuriousWakeup ==
  /\ servicePc = "waiting"
  /\ servicePc' = "woken"
  /\ UNCHANGED <<clock, delayed, taskId, shouldExit, clientVars, deadline, batch,
                 dtorPc, pushed>>

-----------------------------------------------------------------------------
(* ~ServiceTaskRunner() *)

\* The owner destroys the runner when no client is inside a call of it.
Destroy ==
  /\ dtorPc = "idle"
  /\ \A c \in Clients : clientPc[c] = "idle"
  /\ shouldExit' = TRUE
  /\ dtorPc' = "notify"
  /\ UNCHANGED <<clock, delayed, taskId, clientVars, serviceVars, pushed>>

\* Mutant: the destructor does not notify.
NotifyExitSilent ==
  /\ dtorPc = "notify"
  /\ dtorPc' = "join"
  /\ UNCHANGED <<clock, delayed, taskId, shouldExit, clientVars, serviceVars, pushed>>

NotifyExit ==
  /\ dtorPc = "notify"
  /\ NotifyOne
  /\ dtorPc' = "join"
  /\ UNCHANGED <<clock, delayed, taskId, shouldExit, clientVars, deadline, batch,
                 pushed>>

Join ==
  /\ dtorPc = "join" /\ servicePc = "exited"
  /\ dtorPc' = "destroyed"
  /\ UNCHANGED <<clock, delayed, taskId, shouldExit, clientVars, serviceVars, pushed>>

-----------------------------------------------------------------------------

Tick ==
  /\ clock < MaxTime
  /\ clock' = clock + 1
  /\ UNCHANGED <<delayed, taskId, shouldExit, clientVars, serviceVars, dtorPc,
                 pushed>>

ServiceStep == Exit \/ Turn \/ AfterWait \/ PushTasks \/ WaitEnds
DtorStep == NotifyExit \/ Join

Next ==
  \/ \E c \in Clients : ReadClock(c) \/ Insert(c) \/ Notify(c)
  \/ ServiceStep
  \/ SpuriousWakeup
  \/ Destroy
  \/ DtorStep
  \/ Tick

Spec == Init /\ [][Next]_vars

-----------------------------------------------------------------------------

TypeInv ==
  /\ clock \in 0..MaxTime
  /\ delayed \subseteq Item
  /\ taskId \in Nat
  /\ shouldExit \in BOOLEAN
  /\ clientPc \in [Clients -> {"idle", "insert", "notify"}]
  /\ call \in [Clients -> Push \cup {NoCall}]
  /\ servicePc \in {"loop", "waiting", "woken", "pushing", "exited"}
  /\ deadline \in 0..MaxTime \cup {Forever}
  /\ batch \in Seq(Tasks)
  /\ dtorPc \in {"idle", "notify", "join", "destroyed"}
  /\ pushed \in Seq(Push)
=============================================================================
