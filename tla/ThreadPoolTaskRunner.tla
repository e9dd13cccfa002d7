------------------------- MODULE ThreadPoolTaskRunner -------------------------
(***************************************************************************)
(* rst::ThreadPoolTaskRunner: a DelayedTaskRunner, the pool, that runs all *)
(* tasks and, in front of it, a ServiceTaskRunner for those that are       *)
(* posted with a delay.  The service thread is one more client of the      *)
(* pool, and the workers, in the bodies of tasks, post to both.            *)
(*                                                                         *)
(* The service is destroyed before the pool, while tasks still run.  Such  *)
(* a task may post without a delay; what it must not do is to post with    *)
(* one.                                                                    *)
(***************************************************************************)
EXTENDS DelayedTaskRunner

CONSTANTS
  Service,   \* the service thread, a client of the pool
  Delayed,   \* the tasks posted with a delay
  Delay,     \* Delayed -> the delay a task is posted with
  MaxTime    \* bound: the last reading of the clock

VARIABLES clock, delayed, taskId, serviceExit, clientPc, call, servicePc, deadline,
          batch, dtorPc, pushed   \* the service, see ServiceTaskRunner

schedVars == <<clock, delayed, taskId, serviceExit, clientPc, call, servicePc,
               deadline, batch, dtorPc, pushed>>

Posters == (Clients \ {Service}) \cup Workers

Sched == INSTANCE ServiceTaskRunner WITH
  Clients <- Posters, Tasks <- Delayed, shouldExit <- serviceExit

\* The service may hand over all of its tasks at once.
ASSUME ThreadPoolAssumption ==
  /\ Service \in Clients
  /\ Delayed \subseteq Tasks /\ IsFiniteSet(Delayed)
  /\ Cardinality(Delayed) <= MaxBatch

ASSUME SchedAssumption == Sched!ServiceAssumption

Immediate == Tasks \ Delayed

PoolInit == Init /\ Sched!Init

\* A thread is in one call at a time, and a worker in none but in a body.
Outside(p) == clientPc[p] = "idle" /\ pc[p] = IF p \in Workers THEN "running" ELSE "idle"

-----------------------------------------------------------------------------
(* PostDelayedTaskWithIterations() *)

PostNow(p, t) ==
  /\ Outside(p) /\ MayPost(p)
  /\ p \notin Workers => dtorPc = "idle"
  /\ t \in Immediate \ Range(posted)
  /\ Enqueue(p, <<t>>)
  /\ UNCHANGED schedVars

PostLater(p) ==
  /\ Outside(p)
  /\ Sched!ReadClock(p)
  /\ UNCHANGED vars

-----------------------------------------------------------------------------

\* The service thread hands its batch over and goes on when it has notified.
ServiceTurn ==
  /\ pc[Service] = "idle"
  /\ \/ (Sched!Exit \/ Sched!Turn \/ Sched!AfterWait \/ Sched!WaitEnds) /\ UNCHANGED vars
     \/ Sched!PushTasks /\ Enqueue(Service, batch)

NotifyPool(c) == NotifyPushed(c) /\ UNCHANGED schedVars

WorkerTurn(w) == clientPc[w] = "idle" /\ WorkerStep(w) /\ UNCHANGED schedVars

\* A wait of the pool ends although nobody has notified.
WaitTurn(th) ==
  /\ \/ SpuriousWakeup(th)
     \/ th \in Workers /\ KeepAliveTimeout(th)
  /\ UNCHANGED schedVars

\* ~ThreadPoolTaskRunner(): service_task_runner_ goes first.
DestroyService ==
  /\ \A c \in Clients \ {Service} : pc[c] = "idle"
  /\ Sched!Destroy
  /\ UNCHANGED vars

\* Mutant: the members are declared, and destroyed, the other way round.
DestroyPoolFirst ==
  /\ dtorPc = "notify"
  /\ Destroy
  /\ UNCHANGED schedVars

DestroyPool ==
  /\ dtorPc = "destroyed"
  /\ Destroy
  /\ UNCHANGED schedVars

DestructorTurn ==
  \/ Sched!DtorStep /\ UNCHANGED vars
  \/ DestroyPool
  \/ DtorContinue /\ UNCHANGED schedVars

ClientStep(p) == (Sched!Insert(p) \/ Sched!Notify(p)) /\ UNCHANGED vars

PoolNext ==
  \/ \E p \in Posters : PostLater(p) \/ ClientStep(p)
  \/ \E p \in Posters, t \in Immediate : PostNow(p, t)
  \/ \E c \in Clients : NotifyPool(c)
  \/ \E w \in Workers : WorkerTurn(w)
  \/ ServiceTurn
  \/ (Sched!SpuriousWakeup \/ Sched!Tick) /\ UNCHANGED vars
  \/ \E th \in Workers \cup {Dtor} : WaitTurn(th)
  \/ DestroyService
  \/ DestructorTurn

poolVars == <<vars, schedVars>>

PoolSpec == PoolInit /\ [][PoolNext]_poolVars

\* What the FairSpec of both parts assume: time passes, threads that can take
\* a step are scheduled and tasks return.
FairPoolSpec ==
  /\ PoolSpec
  /\ WF_clock(Sched!Tick /\ UNCHANGED vars)
  /\ WF_poolVars(ServiceTurn)
  /\ WF_poolVars(NotifyPool(Service))
  /\ WF_poolVars(DestructorTurn)
  /\ \A p \in Posters : WF_poolVars(ClientStep(p))
  /\ \A c \in Clients \ {Service} : WF_poolVars(NotifyPool(c))
  /\ \A w \in Workers : WF_poolVars(WorkerTurn(w))

-----------------------------------------------------------------------------

\* The pool is not destroyed, nor is the service, while anybody may call it:
\* the destructor of the service has joined its thread, with the batch that it
\* was handing over, before that of the pool begins.
NobodyCallsWhatIsDestroyed ==
  /\ dtorPc # "idle" => \A p \in Posters : clientPc[p] = "idle"
  /\ pc[Dtor] # "idle" => servicePc = "exited" /\ \A c \in Clients : pc[c] = "idle"

\* The service thread never sleeps past the time when a task in its heap is due,
\* one that was pushed while it slept included, nor on when it should exit, unless
\* a notify_one() that will wake it is still to come.
NobodyOversleeps ==
  servicePc = "waiting" =>
    /\ \A item \in delayed :
         \/ deadline # Sched!Forever /\ deadline <= item.timePoint
         \/ \E p \in Posters : clientPc[p] = "notify"
    /\ serviceExit => dtorPc = "notify"

\* A task posted with a delay is started only when that has passed, and a task
\* that is due before another, and was inserted before it, no later than that.
NeverStartedEarly ==
  \A i \in DOMAIN pushed :
    /\ runs[pushed[i].task] > 0 => pushed[i].timePoint <= clock
    /\ \A j \in 1..(i - 1) :
         /\ pushed[j].timePoint <= pushed[i].timePoint
         /\ runs[pushed[i].task] > 0
         => runs[pushed[j].task] = Iterations[pushed[j].task] + 1

Due == INSTANCE DueQueue WITH
  Tasks <- Delayed,
  Iterations <- [t \in Delayed |-> Iterations[t]],
  runs <- [t \in Delayed |-> runs[t]],
  closed <- shouldExit

\* To those who post with a delay both parts together are one queue, in which
\* a task is run when it is due and after those that were due and posted before.
ImplementsDueQueue == Due!Spec

\* With delay or without, a task that was posted is started as often as it
\* should be, unless the runner is destroyed.
EveryPostedTaskRuns ==
  \A t \in Tasks :
    (t \in Range(posted) \/ \E i \in DOMAIN pushed : pushed[i].task = t)
      ~> (runs[t] = Iterations[t] + 1 \/ serviceExit)

\* The destructor of the whole returns.
RunnerIsDestroyed == serviceExit ~> pc[Dtor] = "destroyed"
=============================================================================
