---------------------------- MODULE ApplyTaskSync ----------------------------
(***************************************************************************)
(* TaskRunner::ApplyTaskSync(): one caller posts a task with N - 1 further *)
(* iterations to a runner and blocks on a barrier that every run of the    *)
(* task counts down.  The runner is any TaskQueue and the barrier is       *)
(* Barrier, used by the runs and the caller; what is added is the shared   *)
(* AppliedItem: the index that each run draws and the references that keep *)
(* the item alive.                                                         *)
(***************************************************************************)
EXTENDS Barrier, Sequences

CONSTANTS N,        \* the `iterations' argument
          Caller,   \* the thread inside ApplyTaskSync()
          Apply     \* the task it posts

ASSUME ApplyAssumption ==
  /\ N \in Nat \ {0}
  /\ Caller \notin 1..N
  /\ Threads = 1..N \cup {Caller}

Runs == 1..N        \* the runs of the task, in the order they start

Indices == 0..(N - 1)

VARIABLES   \* those of Barrier, and
  posted, runs, finished, closed,  \* the runner, see TaskQueue
  callerPc,    \* the caller: before, inside or after the call
  runPc,       \* the lambda of each run
  nextIndex,   \* AppliedItem::i
  index,       \* the local `i' of each run
  invoked,     \* history: returns of task(i), by index
  refs         \* shared_ptrs to the AppliedItem

runnerVars == <<posted, runs, finished, closed>>
barrierVars == <<counter, call, pc>>
itemVars == <<nextIndex, index, invoked>>
applyVars == <<runnerVars, barrierVars, itemVars, callerPc, runPc, refs>>

Runner == INSTANCE TaskQueue WITH
  Tasks <- {Apply}, Iterations <- [t \in {Apply} |-> N - 1],
  MaxBatch <- 1

\* The caller waits at the barrier, the runs count it down.
ApplyInit ==
  /\ Runner!Init
  /\ call = [t \in Threads |-> IF t = Caller THEN "Wait" ELSE "CountDown"]
  /\ Init
  /\ callerPc = "before"
  /\ runPc = [r \in Runs |-> "queued"]
  /\ nextIndex = 0
  /\ index = [r \in Runs |-> N]
  /\ invoked = [i \in Indices |-> 0]
  /\ refs = 0

-----------------------------------------------------------------------------

\* Mutant: the lambda captures the item by reference.
PostTaskByReference ==
  /\ callerPc = "before"
  /\ Runner!Post
  /\ callerPc' = "inside"
  /\ refs' = 1
  /\ UNCHANGED <<barrierVars, itemVars, runPc>>

\* make_shared() and the post: the caller and the queued function each own a
\* reference.
PostTask ==
  /\ callerPc = "before"
  /\ Runner!Post
  /\ callerPc' = "inside"
  /\ refs' = 2
  /\ UNCHANGED <<barrierVars, itemVars, runPc>>

\* The runner copies the function for a run; the last run gets the queue's own.
StartRun(r) ==
  /\ r = runs[Apply] + 1
  /\ Runner!Start(Apply)
  /\ runPc' = [runPc EXCEPT ![r] = "started"]
  /\ refs' = IF r = N THEN refs ELSE refs + 1
  /\ UNCHANGED <<barrierVars, itemVars, callerPc>>

\* Mutant: the increment is lost.
FetchIndexLosing(r) ==
  /\ runPc[r] = "started"
  /\ index' = [index EXCEPT ![r] = nextIndex]
  /\ runPc' = [runPc EXCEPT ![r] = "indexed"]
  /\ UNCHANGED <<runnerVars, barrierVars, nextIndex, invoked, callerPc, refs>>

\* item->i.fetch_add(1)
FetchIndex(r) ==
  /\ runPc[r] = "started"
  /\ index' = [index EXCEPT ![r] = nextIndex]
  /\ nextIndex' = nextIndex + 1
  /\ runPc' = [runPc EXCEPT ![r] = "indexed"]
  /\ UNCHANGED <<runnerVars, barrierVars, invoked, callerPc, refs>>

\* item->task(i) returns.  The DCHECK has made sure that i < iterations.
InvokeTask(r) ==
  /\ runPc[r] = "indexed"
  /\ index[r] < N
  /\ invoked' = [invoked EXCEPT ![index[r]] = @ + 1]
  /\ runPc' = [runPc EXCEPT ![r] = "invoked"]
  /\ UNCHANGED <<runnerVars, barrierVars, nextIndex, index, callerPc, refs>>

\* item->barrier.CountDown(), its critical section and its notify_one().
CountDownInRun(r) ==
  /\ runPc[r] = "invoked"
  /\ CountDown(r)
  /\ runPc' = [runPc EXCEPT ![r] = "counted"]
  /\ UNCHANGED <<runnerVars, itemVars, callerPc, refs>>

NotifyCaller(r) ==
  /\ runPc[r] = "counted"
  /\ Notify(r)
  /\ UNCHANGED <<runnerVars, itemVars, callerPc, runPc, refs>>

\* The lambda returns and the worker drops its copy of the function.
FinishRun(r) ==
  /\ runPc[r] = "counted" /\ pc[r] = "left"
  /\ Runner!Finish(Apply)
  /\ runPc' = [runPc EXCEPT ![r] = "done"]
  /\ refs' = refs - 1
  /\ UNCHANGED <<barrierVars, itemVars, callerPc>>

\* item->barrier.Wait()
WaitForRuns ==
  /\ callerPc = "inside"
  /\ Wait(Caller) \/ WakeUp(Caller) \/ Notify(Caller)
  /\ UNCHANGED <<runnerVars, itemVars, callerPc, runPc, refs>>

CallerWakeup ==
  /\ callerPc = "inside"
  /\ SpuriousWakeup(Caller)
  /\ UNCHANGED <<runnerVars, itemVars, callerPc, runPc, refs>>

Return ==
  /\ callerPc = "inside" /\ pc[Caller] = "left"
  /\ callerPc' = "after"
  /\ refs' = refs - 1
  /\ UNCHANGED <<runnerVars, barrierVars, itemVars, runPc>>

\* The owner destroys the runner only when no call of it is in progress.
DestroyRunner ==
  /\ callerPc = "after"
  /\ Runner!Close
  /\ UNCHANGED <<barrierVars, itemVars, callerPc, runPc, refs>>

RunStep(r) ==
  \/ StartRun(r)
  \/ FetchIndex(r)
  \/ InvokeTask(r)
  \/ CountDownInRun(r)
  \/ NotifyCaller(r)
  \/ FinishRun(r)

CallerStep == WaitForRuns \/ Return

ApplyNext ==
  \/ PostTask
  \/ CallerStep
  \/ CallerWakeup
  \/ \E r \in Runs : RunStep(r)
  \/ DestroyRunner

\* The runner gets round to the task (TaskQueue's FairSpec) and every thread
\* inside the call is scheduled.
ApplySpec ==
  /\ ApplyInit /\ [][ApplyNext]_applyVars
  /\ WF_applyVars(CallerStep)
  /\ \A r \in Runs : WF_applyVars(RunStep(r))

-----------------------------------------------------------------------------

ApplyTypeInv ==
  /\ callerPc \in {"before", "inside", "after"}
  /\ runPc \in [Runs -> {"queued", "started", "indexed", "invoked", "counted", "done"}]
  /\ nextIndex \in 0..N
  /\ index \in [Runs -> 0..N]
  /\ invoked \in [Indices -> 0..N]
  /\ refs \in 0..(N + 1)
  /\ counter \in 0..N

\* "waits for all |iterations| to complete before returning", and every index
\* has been passed to exactly one invocation by then.
AllInvokedBeforeReturn ==
  callerPc = "after" => \A i \in Indices : invoked[i] = 1

\* The DCHECKs on the way: an index below `iterations' for each run, no other
\* run with the same one, and a counter that is not exhausted yet.
RunsDoNotCollide ==
  \A r \in Runs :
    /\ runPc[r] \in {"indexed", "invoked", "counted", "done"} =>
         index[r] < N /\ \A q \in Runs \ {r} : index[q] # index[r]
    /\ runPc[r] \in {"started", "indexed", "invoked"} => counter > 0

\* The AppliedItem with its barrier and its task is alive while any thread may
\* still touch it, the notify_one() after the last countdown included, and the
\* barrier it holds has reached zero when it is destroyed.
ItemOutlivesItsUsers ==
  callerPc # "before" /\ refs = 0 =>
    /\ callerPc = "after"
    /\ \A r \in Runs : runPc[r] = "done"
    /\ counter = 0

\* A call of ApplyTaskSync() returns.
CallReturns == callerPc = "inside" ~> callerPc = "after"
=============================================================================
