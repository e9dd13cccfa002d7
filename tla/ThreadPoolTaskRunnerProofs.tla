---------------------- MODULE ThreadPoolTaskRunnerProofs ----------------------
(***************************************************************************)
(* Theorems about DelayedTaskRunner, for any number of workers, clients    *)
(* and tasks, and about ThreadPoolTaskRunner, which is the same pool with  *)
(* the service thread among its clients.                                   *)
(*                                                                         *)
(* The properties TLC checks of the pool are not inductive: the strength   *)
(* comes from ThreadState (who is in the map, who counts as waiting, which *)
(* worker holds a task) and QueueState (how tasks_ relates to what was     *)
(* posted and started).  What is proved of Spec uses nothing of the        *)
(* service.                                                                *)
(*                                                                         *)
(* ThreadPoolTaskRunner calls the pool only as DelayedTaskRunner demands   *)
(* of those who call it (StepOfPool), so that all that is proved of the    *)
(* pool holds behind the service, too; and the service, in turn, is called *)
(* as ServiceTaskRunner demands.  What is proved besides follows a task on *)
(* its way: from the call that posts it to the heap, from there to the     *)
(* local vector of the service thread, and to the queue of the pool.       *)
(***************************************************************************)
EXTENDS ThreadPoolTaskRunner, FiniteSetTheorems, SequenceTheorems,
        WellFoundedInduction, TLAPS

Active == {"notifyMore", "running", "notifyPushed"}

InWait(p) == {w \in Workers : p[w] \in {"waiting", "woken", "timedOut"}}

\* Where the threads are agrees with the map, the counter and the locals.
ThreadState ==
  /\ Cardinality(threadMap) <= MaxThreads
  /\ threadMap = {w \in Workers : pc[w] # "none"}
  /\ waitingThreadsNum = Cardinality(InWait(pc))
  /\ \A w \in Workers : pc[w] \in Active <=> task[w] # NoTask

\* The part of TypeInv about the places of the threads.
PcTypes(p) ==
  /\ p \in [Threads -> WorkerPc \cup ClientPc \cup DtorPc]
  /\ \A w \in Workers : p[w] \in WorkerPc
  /\ \A c \in Clients : p[c] \in ClientPc
  /\ p[Dtor] \in DtorPc

\* From p to q the threads of S stay where they are or are released.
OthersWokenOnly(p, q, S) ==
  \A th \in S : q[th] = p[th] \/ (p[th] = "waiting" /\ q[th] = "woken")

-----------------------------------------------------------------------------
(* Lemmas about the operators of the model.                                *)

\* A notify_one() takes threads out of the wait and moves nobody else.
LEMMA NotifyOneMoves ==
  ASSUME NEW p, PcTypes(p), NEW q \in NotifyOne(p)
  PROVE  /\ PcTypes(q)
         /\ OthersWokenOnly(p, q, Threads)
         /\ (\E th \in Threads : p[th] = "waiting")
              => \E th \in Threads : p[th] = "waiting" /\ q[th] = "woken"
<1> DEFINE parked == {th \in DOMAIN p : p[th] = "waiting"}
<1>1. DOMAIN p = Threads
  BY DEF PcTypes
<1>2. CASE parked = {}
  BY <1>1, <1>2 DEF NotifyOne, OthersWokenOnly
<1>3. CASE parked # {}
  <2>1. PICK th \in parked : q = [p EXCEPT ![th] = "woken"]
    BY <1>3 DEF NotifyOne
  <2>2. PcTypes(q)
    BY <1>1, <2>1, ThreadsAssumption
       DEF PcTypes, Threads, WorkerPc, ClientPc, DtorPc
  <2> QED  BY <1>1, <2>1, <2>2 DEF OthersWokenOnly, PcTypes
<1> QED  BY <1>2, <1>3

\* One thread moves to x and, if the step ends in a notify_one(), others wake.
LEMMA ThreadMoves ==
  ASSUME NEW p, PcTypes(p), NEW th \in Threads, NEW x,
         th \in Workers => x \in WorkerPc,
         th \in Clients => x \in ClientPc,
         th = Dtor => x \in DtorPc,
         NEW q, \/ q = [p EXCEPT ![th] = x]
                \/ x # "waiting" /\ q \in NotifyOne([p EXCEPT ![th] = x])
  PROVE  /\ PcTypes(q)
         /\ q[th] = x
         /\ OthersWokenOnly(p, q, Threads \ {th})
<1> DEFINE m == [p EXCEPT ![th] = x]
<1>1. PcTypes(m) /\ m[th] = x
  BY ThreadsAssumption DEF PcTypes, Threads, WorkerPc, ClientPc, DtorPc
<1>2. OthersWokenOnly(p, m, Threads \ {th})
  BY DEF OthersWokenOnly, PcTypes
<1>3. CASE q = m
  BY <1>1, <1>2, <1>3
<1>4. CASE x # "waiting" /\ q \in NotifyOne(m)
  <2> HIDE DEF m
  <2>1. PcTypes(q) /\ OthersWokenOnly(m, q, Threads)
    BY <1>1, <1>4, NotifyOneMoves
  <2> QED  BY <1>1, <1>2, <1>4, <2>1 DEF OthersWokenOnly
<1> QED  BY <1>3, <1>4

\* The single runs of a batch can be counted, and there is at least one.
LEMMA SingleRunsCount ==
  ASSUME NEW n \in Nat \ {0}, NEW group \in [1..n -> Tasks]
  PROVE  Cardinality(SingleRuns(group)) \in Nat \ {0}
<1> DEFINE f == [t \in Range(group) |-> {t} \X (0..Iterations[t])]
           S == {{t} \X (0..Iterations[t]) : t \in Range(group)}
<1>1. IsFiniteSet(Range(group))
  <2>1. IsFiniteSet(1..n)
    BY FS_Interval
  <2>2. group \in Surjection(1..n, Range(group))
    BY DEF Surjection, Range
  <2> QED  BY <2>1, <2>2, FS_Surjection
<1>2. IsFiniteSet(S)
  <2>1. f \in Surjection(Range(group), S)
    BY DEF Surjection
  <2> QED  BY <1>1, <2>1, FS_Surjection
<1>3. ASSUME NEW T \in S PROVE IsFiniteSet(T)
  <2>1. PICK t \in Range(group) : T = {t} \X (0..Iterations[t])
    OBVIOUS
  <2>2. t \in Tasks
    BY DEF Range
  <2>3. IsFiniteSet(0..Iterations[t])
    BY <2>2, FS_Interval, TasksAssumption
  <2> QED  BY <2>1, <2>3, FS_Singleton, FS_Product
<1>4. IsFiniteSet(SingleRuns(group))
  BY <1>2, <1>3, FS_UNION DEF SingleRuns
<1>5. <<group[1], 0>> \in SingleRuns(group)
  <2>1. group[1] \in Range(group) /\ group[1] \in Tasks
    BY DEF Range
  <2>2. <<group[1], 0>> \in {group[1]} \X (0..Iterations[group[1]])
    BY <2>1, TasksAssumption
  <2> QED  BY <2>1, <2>2 DEF SingleRuns
<1> QED  BY <1>4, <1>5, FS_CardinalityType, FS_EmptySet

\* A push creates no more threads than the pool has room for, and none only if
\* the pool is full or a waiting thread is counted on.
LEMMA ThreadsToCreateBounds ==
  ASSUME TypeInv, ThreadState,
         NEW n \in Nat \ {0}, NEW group \in [1..n -> Tasks]
  PROVE  /\ ThreadsToCreate(group) \in 0..(MaxThreads - Cardinality(threadMap))
         /\ ThreadsToCreate(group) = 0 =>
              Cardinality(threadMap) = MaxThreads \/ waitingThreadsNum > 0
<1>1. Cardinality(threadMap) \in 0..MaxThreads
  BY FS_Subset, FS_CardinalityType, ThreadsAssumption
     DEF TypeInv, ThreadState
<1>2. MaxThreads \in Nat /\ waitingThreadsNum \in Nat
  BY PoolAssumption DEF MaxThreadsAssumption, TypeInv
<1> QED
  BY <1>1, <1>2, SingleRunsCount DEF ThreadsToCreate, Lesser

\* waiting_threads_num_ follows the one worker that enters or leaves the wait.
LEMMA WaitCount ==
  ASSUME NEW p, NEW q, NEW w \in Workers,
         \A v \in Workers \ {w} : v \in InWait(p) <=> v \in InWait(q)
  PROVE  /\ Cardinality(InWait(p)) \in Nat
         /\ w \in InWait(p) => Cardinality(InWait(p)) > 0
         /\ (w \in InWait(p) <=> w \in InWait(q))
               => Cardinality(InWait(q)) = Cardinality(InWait(p))
         /\ w \in InWait(p) /\ w \notin InWait(q)
               => Cardinality(InWait(q)) = Cardinality(InWait(p)) - 1
         /\ w \notin InWait(p) /\ w \in InWait(q)
               => Cardinality(InWait(q)) = Cardinality(InWait(p)) + 1
<1>1. InWait(p) \subseteq Workers /\ InWait(q) \subseteq Workers
  BY DEF InWait
<1>2. IsFiniteSet(InWait(p)) /\ Cardinality(InWait(p)) \in Nat
  BY <1>1, ThreadsAssumption, FS_Subset, FS_CardinalityType
<1>3. w \in InWait(p) => Cardinality(InWait(p)) > 0
  BY <1>2, FS_EmptySet
<1>4. CASE w \in InWait(p) <=> w \in InWait(q)
  <2>1. InWait(p) = InWait(q)
    BY <1>1, <1>4
  <2> QED  BY <1>2, <1>3, <1>4, <2>1
<1>5. CASE w \in InWait(p) /\ w \notin InWait(q)
  <2>1. InWait(q) = InWait(p) \ {w}
    BY <1>1, <1>5
  <2> QED  BY <1>2, <1>3, <1>5, <2>1, FS_RemoveElement
<1>6. CASE w \notin InWait(p) /\ w \in InWait(q)
  <2>1. InWait(q) = InWait(p) \cup {w}
    BY <1>1, <1>6
  <2> QED  BY <1>2, <1>3, <1>6, <2>1, FS_AddElement
<1> QED  BY <1>4, <1>5, <1>6

\* The queue after the front task has been taken once.
LEMMA AfterTakeProperties ==
  ASSUME NEW q \in Seq(Item), q # <<>>
  PROVE  /\ AfterTake(q) \in Seq(Item)
         /\ Head(q) = q[1] /\ q[1] \in Item /\ Len(q) \in Nat \ {0}
         /\ q[1].iterations = 0 =>
              /\ Len(AfterTake(q)) = Len(q) - 1
              /\ \A i \in 1..(Len(q) - 1) : AfterTake(q)[i] = q[i + 1]
         /\ q[1].iterations # 0 =>
              /\ Len(AfterTake(q)) = Len(q)
              /\ AfterTake(q)[1] = [task |-> q[1].task,
                                    iterations |-> q[1].iterations - 1]
              /\ \A i \in 2..Len(q) : AfterTake(q)[i] = q[i]
<1>1. Head(q) = q[1] /\ q[1] \in Item /\ Len(q) \in Nat \ {0}
  BY EmptySeq, ElementOfSeq
<1>2. CASE q[1].iterations = 0
  <2>1. AfterTake(q) = Tail(q)
    BY <1>1, <1>2 DEF AfterTake
  <2> QED  BY <1>1, <1>2, <2>1, HeadTailProperties
<1>3. CASE q[1].iterations # 0
  <2> DEFINE e == [task |-> q[1].task, iterations |-> q[1].iterations - 1]
  <2>1. e \in Item
    BY <1>1, <1>3 DEF Item
  <2>2. [q[1] EXCEPT !.iterations = @ - 1] = e
    BY <1>1 DEF Item
  <2>3. AfterTake(q) = [q EXCEPT ![1] = e]
    BY <1>1, <1>3, <2>2 DEF AfterTake
  <2>4. 1 \in 1..Len(q)
    BY <1>1
  <2> HIDE DEF e
  <2>5. /\ [q EXCEPT ![1] = e] \in Seq(Item)
        /\ Len([q EXCEPT ![1] = e]) = Len(q)
        /\ \A j \in 1..Len(q) : [q EXCEPT ![1] = e][j] = IF j = 1 THEN e ELSE q[j]
    BY <2>1, <2>4, ExceptSeq
  <2>6. AfterTake(q)[1] = e /\ \A i \in 2..Len(q) : AfterTake(q)[i] = q[i]
    BY <2>3, <2>4, <2>5, <1>1
  <2> QED  BY <1>1, <1>3, <2>3, <2>5, <2>6 DEF e
<1> QED  BY <1>2, <1>3

-----------------------------------------------------------------------------
(* Type correctness.                                                       *)

LEMMA TypeInit == Init => TypeInv /\ ThreadState
<1> SUFFICES ASSUME Init PROVE TypeInv /\ ThreadState
  OBVIOUS
<1>1. TypeInv
  <2>1. tasks \in Seq(Item) /\ posted \in Seq(Tasks)
    BY EmptySeq DEF Init
  <2>2. /\ pc \in [Threads -> WorkerPc \cup ClientPc \cup DtorPc]
        /\ \A w \in Workers : pc[w] \in WorkerPc
        /\ \A c \in Clients : pc[c] \in ClientPc
        /\ pc[Dtor] \in DtorPc
    BY ThreadsAssumption DEF Init, Threads, WorkerPc, ClientPc, DtorPc
  <2> QED  BY <2>1, <2>2 DEF Init, TypeInv
<1>2. threadMap = {w \in Workers : pc[w] # "none"} /\ InWait(pc) = {}
  BY DEF Init, Threads, InWait
<1>3. Cardinality(threadMap) <= MaxThreads
  BY FS_EmptySet, PoolAssumption DEF Init, MaxThreadsAssumption
<1>4. \A w \in Workers : pc[w] \in Active <=> task[w] # NoTask
  BY DEF Init, Threads, Active
<1> QED  BY <1>1, <1>2, <1>3, <1>4, FS_EmptySet DEF ThreadState, Init


\* ThreadMoves for a worker, in the form the steps below use.
LEMMA WorkerMoves ==
  ASSUME TypeInv, NEW w \in Workers, NEW x \in WorkerPc,
         \/ pc' = [pc EXCEPT ![w] = x]
         \/ x # "waiting" /\ pc' \in NotifyOne([pc EXCEPT ![w] = x])
  PROVE  /\ PcTypes(pc')
         /\ pc'[w] = x
         /\ OthersWokenOnly(pc, pc', Threads \ {w})
<1>1. w \in Threads /\ w \notin Clients /\ w # Dtor
  BY ThreadsAssumption DEF Threads
<1>2. PcTypes(pc)
  BY DEF TypeInv, PcTypes
<1> QED  BY <1>1, <1>2, ThreadMoves

\* A step of worker w that leaves the map alone.
LEMMA WorkerThreadState ==
  ASSUME TypeInv, ThreadState, NEW w \in Workers,
         OthersWokenOnly(pc, pc', Threads \ {w}),
         threadMap' = threadMap, pc[w] # "none", pc'[w] # "none",
         waitingThreadsNum' = waitingThreadsNum
             + (IF w \in InWait(pc') THEN 1 ELSE 0)
             - (IF w \in InWait(pc) THEN 1 ELSE 0),
         \A v \in Workers \ {w} : task'[v] = task[v],
         pc'[w] \in Active <=> task'[w] # NoTask
  PROVE  ThreadState' /\ waitingThreadsNum' \in Nat
<1>1. \A v \in Workers \ {w} :
         /\ v \in InWait(pc) <=> v \in InWait(pc')
         /\ pc[v] = "none" <=> pc'[v] = "none"
         /\ pc[v] \in Active <=> pc'[v] \in Active
  BY DEF OthersWokenOnly, InWait, Active, Threads
<1>2. threadMap' = {v \in Workers : pc'[v] # "none"}
  BY <1>1 DEF ThreadState
<1>3. /\ waitingThreadsNum' = Cardinality(InWait(pc'))
      /\ waitingThreadsNum' \in Nat
  BY <1>1, WaitCount DEF ThreadState
<1> QED  BY <1>1, <1>2, <1>3 DEF ThreadState, InWait

\* A step that does not move a worker except to wake it.
LEMMA OtherThreadState ==
  ASSUME TypeInv, ThreadState, OthersWokenOnly(pc, pc', Workers),
         UNCHANGED <<threadMap, waitingThreadsNum, task>>
  PROVE  ThreadState'
<1>1. InWait(pc') = InWait(pc)
  BY DEF OthersWokenOnly, InWait
<1>2. \A v \in Workers : /\ pc[v] = "none" <=> pc'[v] = "none"
                         /\ pc[v] \in Active <=> pc'[v] \in Active
  BY DEF OthersWokenOnly, Active
<1>3. threadMap' = {v \in Workers : pc'[v] # "none"}
  BY <1>2 DEF ThreadState
<1> QED  BY <1>1, <1>2, <1>3 DEF ThreadState, InWait

\* The items that PushTasks() appends to the queue.
Items(group) == [i \in DOMAIN group |->
                   [task |-> group[i], iterations |-> Iterations[group[i]]]]

LEMMA BatchIsSeq ==
  ASSUME NEW n \in Nat \ {0}, NEW group \in [1..n -> Unposted]
  PROVE  /\ group \in [1..n -> Tasks]
         /\ group \in Seq(Tasks) /\ Len(group) = n
         /\ Items(group) \in Seq(Item) /\ Len(Items(group)) = n
         /\ \A i \in 1..n : Items(group)[i] =
               [task |-> group[i], iterations |-> Iterations[group[i]]]
<1>1. group \in [1..n -> Tasks]
  BY DEF Unposted
<1>2. group \in Seq(Tasks) /\ Len(group) = n
  BY <1>1
<1>3. Items(group) \in [1..n -> Item]
  BY <1>1, TasksAssumption DEF Items, Item
<1>4. Items(group) \in Seq(Item) /\ Len(Items(group)) = n
  BY <1>3
<1> QED  BY <1>1, <1>2, <1>4 DEF Items

\* What a push does to the map and to the places of the threads.
LEMMA PushThreads ==
  ASSUME TypeInv, ThreadState, NEW p \in Workers \cup Clients, MayPost(p),
         NEW n \in Nat \ {0}, NEW group \in [1..n -> Unposted],
         NEW new \in NewWorkers(group),
         threadMap' = threadMap \cup new,
         pc' = [th \in Threads |-> IF th = p THEN "notifyPushed"
                                   ELSE IF th \in new THEN "loop" ELSE pc[th]],
         UNCHANGED <<waitingThreadsNum, task>>
  PROVE  /\ PcTypes(pc')
         /\ ThreadState'
         /\ new = {} => Cardinality(threadMap) = MaxThreads \/ waitingThreadsNum > 0
<1>1. /\ new \subseteq Workers \ threadMap
      /\ Cardinality(new) = ThreadsToCreate(group)
  BY DEF NewWorkers
<1>2. /\ Cardinality(new) \in 0..(MaxThreads - Cardinality(threadMap))
      /\ Cardinality(new) = 0 =>
           Cardinality(threadMap) = MaxThreads \/ waitingThreadsNum > 0
  BY <1>1, BatchIsSeq, ThreadsToCreateBounds
<1>3. /\ IsFiniteSet(new) /\ IsFiniteSet(threadMap)
      /\ Cardinality(threadMap) \in Nat /\ Cardinality(new) \in Nat
  BY <1>1, ThreadsAssumption, FS_Subset, FS_CardinalityType DEF TypeInv
<1>4. Cardinality(threadMap') <= MaxThreads
  <2>1. Cardinality(threadMap \cap new) = 0
    <3>1. threadMap \cap new = {}
      BY <1>1
    <3> QED  BY <3>1, FS_EmptySet
  <2>2. Cardinality(threadMap \cup new) =
            Cardinality(threadMap) + Cardinality(new) - Cardinality(threadMap \cap new)
    BY <1>3, FS_Union
  <2> QED  BY <1>2, <1>3, <2>1, <2>2, PoolAssumption DEF MaxThreadsAssumption
<1>5. \A w \in new : pc[w] = "none" /\ w # p
  BY <1>1 DEF ThreadState, MayPost, TypeInv, ClientPc
<1>6. PcTypes(pc')
  BY <1>1, ThreadsAssumption
     DEF TypeInv, PcTypes, Threads, WorkerPc, ClientPc, DtorPc
<1>7. threadMap' = {w \in Workers : pc'[w] # "none"}
  <2>1. threadMap = {w \in Workers : pc[w] # "none"}
    BY DEF ThreadState
  <2>2. p \in Workers => pc[p] = "running"
    BY ThreadsAssumption DEF MayPost
  <2> QED  BY <1>1, <2>1, <2>2 DEF Threads
<1>8. InWait(pc') = InWait(pc)
  BY <1>5, ThreadsAssumption DEF InWait, Threads, MayPost
<1>9. \A w \in Workers : pc'[w] \in Active <=> pc[w] \in Active
  BY <1>5, ThreadsAssumption DEF Active, Threads, MayPost
<1>10. new = {} => Cardinality(new) = 0
  BY FS_EmptySet
<1> QED  BY <1>2, <1>4, <1>6, <1>7, <1>8, <1>9, <1>10 DEF ThreadState, InWait

-----------------------------------------------------------------------------
(* The two invariants are inductive.                                       *)

LEMMA TypeStep ==
  TypeInv /\ ThreadState /\ [Next]_vars => TypeInv' /\ ThreadState'
<1> SUFFICES ASSUME TypeInv, ThreadState, [Next]_vars
             PROVE  TypeInv' /\ ThreadState'
  OBVIOUS
<1>p. PcTypes(pc)
  BY DEF TypeInv, PcTypes
<1>t. \* TypeInv' of a step that keeps the queue and its history.
      ASSUME PcTypes(pc'), threadMap' \subseteq Workers,
             waitingThreadsNum' \in Nat, shouldExit' \in BOOLEAN,
             task' \in [Workers -> Tasks \cup {NoTask}],
             finished' \in [Tasks -> Nat], UNCHANGED <<tasks, posted, runs>>
      PROVE  TypeInv'
  BY <1>t DEF TypeInv, PcTypes
<1>1. ASSUME NEW w \in Workers, WaitForTask(w) PROVE TypeInv' /\ ThreadState'
  <2>1. PcTypes(pc') /\ pc'[w] = "waiting" /\ OthersWokenOnly(pc, pc', Threads \ {w})
    BY <1>1, WorkerMoves DEF WaitForTask, WorkerPc
  <2>2. waitingThreadsNum' = waitingThreadsNum
             + (IF w \in InWait(pc') THEN 1 ELSE 0)
             - (IF w \in InWait(pc) THEN 1 ELSE 0)
    BY <1>1, <2>1 DEF WaitForTask, AtLoopHead, WaitingAfterWake, InWait, TypeInv
  <2>3. pc[w] \notin Active /\ pc'[w] \notin Active /\ task'[w] = NoTask
    BY <1>1, <2>1 DEF WaitForTask, AtLoopHead, Active, ThreadState
  <2>4. pc[w] # "none" /\ pc'[w] # "none"
    BY <1>1, <2>1 DEF WaitForTask, AtLoopHead
  <2>5. ThreadState' /\ waitingThreadsNum' \in Nat
    BY <1>1, <2>1, <2>2, <2>3, <2>4, WorkerThreadState DEF WaitForTask
  <2> QED  BY <1>t, <1>1, <2>1, <2>5 DEF WaitForTask, TypeInv
<1>2. ASSUME NEW w \in Workers, ReturnOnExit(w) PROVE TypeInv' /\ ThreadState'
  <2>1. PcTypes(pc') /\ pc'[w] = "leaving" /\ OthersWokenOnly(pc, pc', Threads \ {w})
    BY <1>2, WorkerMoves DEF ReturnOnExit, WorkerPc
  <2>2. waitingThreadsNum' = waitingThreadsNum
             + (IF w \in InWait(pc') THEN 1 ELSE 0)
             - (IF w \in InWait(pc) THEN 1 ELSE 0)
    BY <1>2, <2>1 DEF ReturnOnExit, AtLoopHead, WaitingAfterWake, InWait, TypeInv
  <2>3. pc[w] \notin Active /\ pc'[w] \notin Active /\ task'[w] = NoTask
    BY <1>2, <2>1 DEF ReturnOnExit, AtLoopHead, Active, ThreadState
  <2>4. pc[w] # "none" /\ pc'[w] # "none"
    BY <1>2, <2>1 DEF ReturnOnExit, AtLoopHead
  <2>5. ThreadState' /\ waitingThreadsNum' \in Nat
    BY <1>2, <2>1, <2>2, <2>3, <2>4, WorkerThreadState DEF ReturnOnExit
  <2> QED  BY <1>t, <1>2, <2>1, <2>5 DEF ReturnOnExit, TypeInv
<1>3. ASSUME NEW w \in Workers, NotifyMore(w) PROVE TypeInv' /\ ThreadState'
  <2>1. PcTypes(pc') /\ pc'[w] = "running" /\ OthersWokenOnly(pc, pc', Threads \ {w})
    BY <1>3, WorkerMoves DEF NotifyMore, WorkerPc
  <2>2. waitingThreadsNum' = waitingThreadsNum
             + (IF w \in InWait(pc') THEN 1 ELSE 0)
             - (IF w \in InWait(pc) THEN 1 ELSE 0)
    BY <1>3, <2>1 DEF NotifyMore, InWait, TypeInv
  <2>3. pc[w] \in Active /\ pc'[w] \in Active /\ task'[w] # NoTask
    BY <1>3, <2>1 DEF NotifyMore, Active, ThreadState
  <2>4. pc[w] # "none" /\ pc'[w] # "none"
    BY <1>3, <2>1 DEF NotifyMore
  <2>5. ThreadState' /\ waitingThreadsNum' \in Nat
    BY <1>3, <2>1, <2>2, <2>3, <2>4, WorkerThreadState DEF NotifyMore
  <2> QED  BY <1>t, <1>3, <2>1, <2>5 DEF NotifyMore, TypeInv
<1>4. ASSUME NEW w \in Workers, ReturnOnTimeout(w) PROVE TypeInv' /\ ThreadState'
  <2>1. PcTypes(pc') /\ pc'[w] = "leaving" /\ OthersWokenOnly(pc, pc', Threads \ {w})
    BY <1>4, WorkerMoves DEF ReturnOnTimeout, WorkerPc
  <2>2. waitingThreadsNum' = waitingThreadsNum
             + (IF w \in InWait(pc') THEN 1 ELSE 0)
             - (IF w \in InWait(pc) THEN 1 ELSE 0)
    BY <1>4, <2>1 DEF ReturnOnTimeout, InWait, TypeInv
  <2>3. pc[w] \notin Active /\ pc'[w] \notin Active /\ task'[w] = NoTask
    BY <1>4, <2>1 DEF ReturnOnTimeout, Active, ThreadState
  <2>4. pc[w] # "none" /\ pc'[w] # "none"
    BY <1>4, <2>1 DEF ReturnOnTimeout
  <2>5. ThreadState' /\ waitingThreadsNum' \in Nat
    BY <1>4, <2>1, <2>2, <2>3, <2>4, WorkerThreadState DEF ReturnOnTimeout
  <2> QED  BY <1>t, <1>4, <2>1, <2>5 DEF ReturnOnTimeout, TypeInv
<1>5. ASSUME NEW w \in Workers, KeepAliveTimeout(w) PROVE TypeInv' /\ ThreadState'
  <2>1. PcTypes(pc') /\ pc'[w] = "timedOut" /\ OthersWokenOnly(pc, pc', Threads \ {w})
    BY <1>5, WorkerMoves DEF KeepAliveTimeout, WorkerPc
  <2>2. waitingThreadsNum' = waitingThreadsNum
             + (IF w \in InWait(pc') THEN 1 ELSE 0)
             - (IF w \in InWait(pc) THEN 1 ELSE 0)
    BY <1>5, <2>1 DEF KeepAliveTimeout, InWait, TypeInv
  <2>3. pc[w] \notin Active /\ pc'[w] \notin Active /\ task'[w] = NoTask
    BY <1>5, <2>1 DEF KeepAliveTimeout, Active, ThreadState
  <2>4. pc[w] # "none" /\ pc'[w] # "none"
    BY <1>5, <2>1 DEF KeepAliveTimeout
  <2>5. ThreadState' /\ waitingThreadsNum' \in Nat
    BY <1>5, <2>1, <2>2, <2>3, <2>4, WorkerThreadState DEF KeepAliveTimeout
  <2> QED  BY <1>t, <1>5, <2>1, <2>5 DEF KeepAliveTimeout, TypeInv
<1>6. ASSUME NEW w \in Workers, NotifyPushed(w) PROVE TypeInv' /\ ThreadState'
  <2>1. PcTypes(pc') /\ pc'[w] = "running" /\ OthersWokenOnly(pc, pc', Threads \ {w})
    BY <1>6, WorkerMoves DEF NotifyPushed, WorkerPc
  <2>2. w \notin InWait(pc') /\ w \notin InWait(pc)
    BY <1>6, <2>1 DEF NotifyPushed, InWait
  <2>3. pc[w] \in Active /\ pc'[w] \in Active /\ task'[w] # NoTask
    BY <1>6, <2>1 DEF NotifyPushed, Active, ThreadState
  <2>4. pc[w] # "none" /\ pc'[w] # "none" /\ waitingThreadsNum \in Nat
    BY <1>6, <2>1 DEF NotifyPushed, TypeInv
  <2>5. ThreadState' /\ waitingThreadsNum' \in Nat
    BY <1>6, <2>1, <2>2, <2>3, <2>4, WorkerThreadState DEF NotifyPushed
  <2> QED  BY <1>t, <1>6, <2>1, <2>5 DEF NotifyPushed, TypeInv
<1>7. ASSUME NEW w \in Workers, FinishTask(w) PROVE TypeInv' /\ ThreadState'
  <2>1. PcTypes(pc') /\ pc'[w] = "loop" /\ OthersWokenOnly(pc, pc', Threads \ {w})
    BY <1>7, WorkerMoves DEF FinishTask, WorkerPc
  <2>2. w \notin InWait(pc') /\ w \notin InWait(pc)
    BY <1>7, <2>1 DEF FinishTask, InWait
  <2>3. task[w] \in Tasks
    BY <1>7 DEF FinishTask, ThreadState, Active, TypeInv
  <2>4. /\ task' \in [Workers -> Tasks \cup {NoTask}]
        /\ \A v \in Workers \ {w} : task'[v] = task[v]
        /\ pc'[w] \in Active <=> task'[w] # NoTask
    BY <1>7, <2>1 DEF FinishTask, TypeInv, Active
  <2>5. /\ pc[w] # "none" /\ pc'[w] # "none" /\ threadMap' = threadMap
        /\ waitingThreadsNum' = waitingThreadsNum
             + (IF w \in InWait(pc') THEN 1 ELSE 0)
             - (IF w \in InWait(pc) THEN 1 ELSE 0)
    BY <1>7, <2>1, <2>2 DEF FinishTask, TypeInv
  <2>6. ThreadState' /\ waitingThreadsNum' \in Nat
    BY <2>1, <2>4, <2>5, WorkerThreadState
  <2>7. finished' \in [Tasks -> Nat]
    BY <1>7, <2>3 DEF FinishTask, TypeInv
  <2> QED  BY <1>t, <1>7, <2>1, <2>4, <2>6, <2>7 DEF FinishTask, TypeInv
<1>8. ASSUME NEW w \in Workers, TakeTask(w) PROVE TypeInv' /\ ThreadState'
  <2>1. /\ PcTypes(pc') /\ pc'[w] \in {"notifyMore", "running"}
        /\ OthersWokenOnly(pc, pc', Threads \ {w})
    <3> DEFINE x == IF tasks' # <<>> THEN "notifyMore" ELSE "running"
    <3>1. x \in WorkerPc /\ pc' = [pc EXCEPT ![w] = x]
      BY <1>8 DEF TakeTask, WorkerPc
    <3>2. x \in {"notifyMore", "running"}
      OBVIOUS
    <3> HIDE DEF x
    <3> QED  BY <3>1, <3>2, WorkerMoves
  <2>2. waitingThreadsNum' = waitingThreadsNum
             + (IF w \in InWait(pc') THEN 1 ELSE 0)
             - (IF w \in InWait(pc) THEN 1 ELSE 0)
    BY <1>8, <2>1 DEF TakeTask, AtLoopHead, WaitingAfterWake, InWait, TypeInv
  <2>3. tasks' \in Seq(Item) /\ Head(tasks).task \in Tasks
    BY <1>8, AfterTakeProperties DEF TakeTask, TypeInv, Item
  <2>4. /\ task' \in [Workers -> Tasks \cup {NoTask}]
        /\ \A v \in Workers \ {w} : task'[v] = task[v]
        /\ task'[w] # NoTask /\ pc'[w] \in Active
    BY <1>8, <2>1, <2>3, TasksAssumption DEF TakeTask, TypeInv, Active
  <2>5. pc[w] # "none" /\ pc'[w] # "none"
    BY <1>8, <2>1 DEF TakeTask, AtLoopHead
  <2>6. ThreadState' /\ waitingThreadsNum' \in Nat
    BY <1>8, <2>1, <2>2, <2>4, <2>5, WorkerThreadState DEF TakeTask
  <2>7. runs' \in [Tasks -> Nat]
    BY <1>8, <2>3 DEF TakeTask, TypeInv
  <2> QED  BY <1>8, <2>1, <2>3, <2>4, <2>6, <2>7 DEF TakeTask, TypeInv, PcTypes
<1>9. ASSUME NEW w \in Workers, Leave(w) PROVE TypeInv' /\ ThreadState'
  <2>1. PcTypes(pc') /\ pc'[w] = "none" /\ OthersWokenOnly(pc, pc', Threads \ {w})
    BY <1>9, WorkerMoves DEF Leave, WorkerPc
  <2>2. \A v \in Workers \ {w} :
           /\ v \in InWait(pc) <=> v \in InWait(pc')
           /\ pc[v] = "none" <=> pc'[v] = "none"
           /\ pc[v] \in Active <=> pc'[v] \in Active
    BY <2>1 DEF OthersWokenOnly, InWait, Active, Threads
  <2>3. threadMap' = {v \in Workers : pc'[v] # "none"}
    BY <1>9, <2>1, <2>2 DEF Leave, ThreadState
  <2>4. Cardinality(threadMap') <= MaxThreads
    <3>1. IsFiniteSet(threadMap) /\ Cardinality(threadMap) \in Nat
      BY ThreadsAssumption, FS_Subset, FS_CardinalityType DEF TypeInv
    <3>2. Cardinality(threadMap \ {w}) <= Cardinality(threadMap)
      BY <3>1, FS_RemoveElement
    <3>3. Cardinality(threadMap \ {w}) \in Nat
      BY <3>1, FS_RemoveElement, FS_CardinalityType
    <3> QED  BY <1>9, <3>1, <3>2, <3>3, PoolAssumption
             DEF Leave, ThreadState, MaxThreadsAssumption
  <2>5. w \notin InWait(pc) /\ w \notin InWait(pc')
    BY <1>9, <2>1 DEF Leave, InWait
  <2>6. Cardinality(InWait(pc')) = Cardinality(InWait(pc))
    BY <2>2, <2>5, WaitCount
  <2>7. \A v \in Workers : pc'[v] \in Active <=> task'[v] # NoTask
    BY <1>9, <2>1, <2>2 DEF Leave, ThreadState, Active
  <2>8. ThreadState'
    BY <1>9, <2>3, <2>4, <2>6, <2>7 DEF Leave, ThreadState, InWait
  <2> QED  BY <1>t, <1>9, <2>1, <2>8 DEF Leave, TypeInv
<1>10. ASSUME NEW c \in Clients, NotifyPushed(c) PROVE TypeInv' /\ ThreadState'
  <2>1. c \in Threads /\ c \notin Workers /\ c # Dtor
    BY ThreadsAssumption DEF Threads
  <2>2. pc' \in NotifyOne([pc EXCEPT ![c] = "idle"])
    BY <1>10, <2>1 DEF NotifyPushed
  <2>3. PcTypes(pc') /\ OthersWokenOnly(pc, pc', Threads \ {c})
    BY <1>p, <2>1, <2>2, ThreadMoves DEF ClientPc
  <2>4. OthersWokenOnly(pc, pc', Workers)
    BY <2>1, <2>3 DEF OthersWokenOnly, Threads
  <2>5. ThreadState'
    BY <1>10, <2>4, OtherThreadState DEF NotifyPushed
  <2> QED  BY <1>t, <1>10, <2>3, <2>5 DEF NotifyPushed, TypeInv
<1>11. ASSUME NEW p \in Workers \cup Clients, PushTasks(p)
       PROVE  TypeInv' /\ ThreadState'
  <2>1. PICK n \in 1..MaxBatch : \E group \in [1..n -> Unposted] :
           IsInjective(group) /\ Enqueue(p, group)
    BY <1>11 DEF PushTasks
  <2>1a. PICK group \in [1..n -> Unposted] : IsInjective(group) /\ Enqueue(p, group)
    BY <2>1
  <2>2. n \in Nat \ {0}
    BY TasksAssumption
  <2>3. PICK new \in NewWorkers(group) :
           /\ threadMap' = threadMap \cup new
           /\ pc' = [th \in Threads |->
                       IF th = p THEN "notifyPushed"
                       ELSE IF th \in new THEN "loop" ELSE pc[th]]
    BY <2>1a DEF Enqueue
  <2>4. PcTypes(pc') /\ ThreadState'
    BY <1>11, <2>1a, <2>2, <2>3, PushThreads DEF PushTasks, Enqueue
  <2>5. tasks' \in Seq(Item) /\ posted' \in Seq(Tasks)
    <3>1. tasks' = tasks \o Items(group) /\ posted' = posted \o group
      BY <2>1a DEF Enqueue, Items
    <3> QED  BY <2>2, <3>1, BatchIsSeq, ConcatProperties DEF TypeInv
  <2>6. threadMap' \subseteq Workers
    BY <2>3 DEF NewWorkers, TypeInv
  <2> QED  BY <2>1a, <2>4, <2>5, <2>6 DEF Enqueue, TypeInv, PcTypes
<1>12. ASSUME NEW th \in Workers \cup {Dtor}, SpuriousWakeup(th)
       PROVE  TypeInv' /\ ThreadState'
  <2>1. /\ PcTypes(pc') /\ pc'[th] = "woken" /\ pc[th] = "waiting"
        /\ OthersWokenOnly(pc, pc', Threads \ {th})
    <3>1. pc' = [pc EXCEPT ![th] = "woken"] /\ pc[th] = "waiting"
      BY <1>12 DEF SpuriousWakeup
    <3>2. CASE th \in Workers
      BY <3>1, <3>2, WorkerMoves DEF WorkerPc
    <3>3. CASE th = Dtor
      <4>1. Dtor \in Threads /\ Dtor \notin Workers /\ Dtor \notin Clients
        BY ThreadsAssumption DEF Threads
      <4>2. pc' = [pc EXCEPT ![Dtor] = "woken"]
        BY <3>1, <3>3
      <4>3. PcTypes(pc') /\ OthersWokenOnly(pc, pc', Threads \ {Dtor})
        BY <1>p, <4>1, <4>2, ThreadMoves DEF DtorPc
      <4>4. pc'[Dtor] = "woken"
        BY <1>p, <4>1, <4>2 DEF PcTypes
      <4> QED  BY <3>1, <3>3, <4>3, <4>4
    <3> QED  BY <3>2, <3>3
  <2>2. OthersWokenOnly(pc, pc', Workers)
    BY <2>1 DEF OthersWokenOnly, Threads
  <2>3. ThreadState'
    BY <1>12, <2>2, OtherThreadState DEF SpuriousWakeup
  <2> QED  BY <1>t, <1>12, <2>1, <2>3 DEF SpuriousWakeup, TypeInv
<1>13. ASSUME DtorLoop PROVE PcTypes(pc') /\ OthersWokenOnly(pc, pc', Workers)
  <2>1. Dtor \in Threads /\ Dtor \notin Workers /\ Dtor \notin Clients
    BY ThreadsAssumption DEF Threads
  <2>2. CASE pc' = [pc EXCEPT ![Dtor] = "destroyed"]
    <3>1. PcTypes(pc') /\ OthersWokenOnly(pc, pc', Threads \ {Dtor})
      BY <1>p, <2>1, <2>2, ThreadMoves DEF DtorPc
    <3> QED  BY <2>1, <3>1 DEF OthersWokenOnly, Threads
  <2>3. CASE \E p \in NotifyOne(pc) : pc' = [p EXCEPT ![Dtor] = "waiting"]
    <3>1. PICK p \in NotifyOne(pc) : pc' = [p EXCEPT ![Dtor] = "waiting"]
      BY <2>3
    <3>2. PcTypes(p) /\ OthersWokenOnly(pc, p, Threads)
      BY <1>p, NotifyOneMoves
    <3>3. PcTypes(pc') /\ OthersWokenOnly(p, pc', Threads \ {Dtor})
      BY <2>1, <3>1, <3>2, ThreadMoves DEF DtorPc
    <3> QED  BY <2>1, <3>2, <3>3 DEF OthersWokenOnly, Threads
  <2> QED  BY <1>13, <2>2, <2>3 DEF DtorLoop
<1>14. CASE Destroy
  <2>1. PcTypes(pc') /\ OthersWokenOnly(pc, pc', Workers)
    BY <1>13, <1>14 DEF Destroy
  <2>2. ThreadState'
    BY <1>14, <2>1, OtherThreadState DEF Destroy
  <2> QED  BY <1>t, <1>14, <2>1, <2>2 DEF Destroy, TypeInv
<1>15. CASE DtorContinue
  <2>1. PcTypes(pc') /\ OthersWokenOnly(pc, pc', Workers)
    BY <1>13, <1>15 DEF DtorContinue
  <2>2. ThreadState'
    BY <1>15, <2>1, OtherThreadState DEF DtorContinue
  <2> QED  BY <1>t, <1>15, <2>1, <2>2 DEF DtorContinue, TypeInv
<1>16. CASE UNCHANGED vars
  BY <1>16 DEF vars, TypeInv, ThreadState, InWait
<1> QED
  BY <1>1, <1>2, <1>3, <1>4, <1>5, <1>6, <1>7, <1>8, <1>9, <1>10, <1>11,
     <1>12, <1>14, <1>15, <1>16 DEF Next, WorkerStep

\* The state of the pool always has the types of its members, and every access
\* to a local of a worker or to the front of the queue is to a value.
THEOREM TypeCorrect == Spec => []TypeInv
<1>1. TypeInv /\ ThreadState /\ [Next]_vars => (TypeInv /\ ThreadState)'
  BY TypeStep
<1> QED  BY <1>1, TypeInit, PTL DEF Spec

\* No more than max_threads_num_ threads exist whatever is pushed and whoever
\* times out, and waiting_threads_num_ is exact at every critical section.
THEOREM AccountsForThreads == Spec => []ThreadAccounting
<1>1. TypeInv /\ ThreadState /\ [Next]_vars => (TypeInv /\ ThreadState)'
  BY TypeStep
<1>2. ThreadState => ThreadAccounting
  BY DEF ThreadState, ThreadAccounting, InWait
<1> QED  BY <1>1, <1>2, TypeInit, PTL DEF Spec

-----------------------------------------------------------------------------
(* The order of the tasks.                                                 *)

\* How many of the posted tasks have left the queue.
Gone == Len(posted) - Len(tasks)

\* The queue holds the tasks posted last, in order; those before them have been
\* started as often as asked, the front one as often as it lacks iterations.
QueueState ==
  /\ Len(tasks) <= Len(posted)
  /\ IsInjective(posted)
  /\ \A i \in 1..Len(tasks) :
        /\ tasks[i].task = posted[Gone + i]
        /\ tasks[i].iterations <= Iterations[posted[Gone + i]]
        /\ runs[posted[Gone + i]] =
              Iterations[posted[Gone + i]] - tasks[i].iterations
        /\ i > 1 => runs[posted[Gone + i]] = 0
  /\ \A i \in 1..Gone : runs[posted[i]] = Iterations[posted[i]] + 1
  /\ \A t \in Unposted : runs[t] = 0

LEMMA QueueInit == Init => QueueState
<1> SUFFICES ASSUME Init PROVE QueueState
  OBVIOUS
<1>1. Len(tasks) = 0 /\ Len(posted) = 0 /\ DOMAIN posted = 1..0
  BY DEF Init
<1>2. IsInjective(posted)
  BY <1>1 DEF IsInjective
<1>3. \A t \in Unposted : runs[t] = 0
  BY DEF Init, Unposted
<1> QED  BY <1>1, <1>2, <1>3 DEF QueueState, Gone

LEMMA QueueStep ==
  TypeInv /\ QueueState /\ [Next]_vars => QueueState'
<1> SUFFICES ASSUME TypeInv, QueueState, [Next]_vars PROVE QueueState'
  OBVIOUS
<1>1. CASE UNCHANGED <<tasks, posted, runs>>
  BY <1>1 DEF QueueState, Gone, Unposted
<1>2. ASSUME NEW w \in Workers, TakeTask(w) PROVE QueueState'
  <2> DEFINE front == tasks[1]
             t == front.task
             n == Len(tasks)
  <2>1. /\ tasks # <<>> /\ tasks' = AfterTake(tasks) /\ posted' = posted
        /\ runs' = [runs EXCEPT ![Head(tasks).task] = @ + 1]
    BY <1>2 DEF TakeTask
  <2>2. /\ Head(tasks) = front /\ front \in Item /\ n \in Nat \ {0}
        /\ tasks' \in Seq(Item)
    BY <2>1, AfterTakeProperties DEF TypeInv
  <2>3. t \in Tasks /\ runs' = [runs EXCEPT ![t] = runs[t] + 1] /\ runs[t] \in Nat
    BY <2>1, <2>2 DEF TypeInv, Item
  <2>4. /\ Len(posted) \in Nat /\ Gone \in Nat /\ DOMAIN posted = 1..Len(posted)
        /\ \A i \in 1..Len(posted) : posted[i] \in Tasks
    BY <2>2 DEF QueueState, Gone, TypeInv
  <2>5. t = posted[Gone + 1] /\ Gone + 1 \in 1..Len(posted)
    BY <2>2, <2>4 DEF QueueState, Gone
  <2>6. \A i \in 1..Len(posted) : i # Gone + 1 => posted[i] # t
    BY <2>4, <2>5 DEF QueueState, IsInjective
  <2>7. /\ \A i \in 1..Len(posted) : i # Gone + 1 => runs'[posted[i]] = runs[posted[i]]
        /\ runs'[t] = runs[t] + 1
    BY <2>3, <2>4, <2>6 DEF TypeInv
  <2>8. \A u \in Unposted' : runs'[u] = 0
    <3>1. Unposted' = Unposted /\ t \notin Unposted
      BY <2>1, <2>4, <2>5 DEF Unposted, Range
    <3> QED  BY <2>3, <3>1 DEF QueueState, Unposted, TypeInv
  <2>9. IsInjective(posted')
    BY <2>1 DEF QueueState
  <2>10. CASE front.iterations = 0
    <3>1. Len(tasks') = n - 1 /\ \A i \in 1..(n - 1) : tasks'[i] = tasks[i + 1]
      BY <2>1, <2>2, <2>10, AfterTakeProperties DEF TypeInv
    <3>2. Gone' = Gone + 1
      BY <2>1, <2>2, <2>4, <3>1 DEF Gone
    <3>3. runs'[t] = Iterations[t] + 1
      BY <2>2, <2>3, <2>5, <2>7, <2>10, TasksAssumption DEF QueueState
    <3>4. ASSUME NEW i \in 1..Gone'
          PROVE  runs'[posted'[i]] = Iterations[posted'[i]] + 1
      <4>1. CASE i = Gone + 1
        BY <2>1, <2>5, <3>3, <4>1
      <4>2. CASE i # Gone + 1
        <5>1. i \in 1..Gone /\ i \in 1..Len(posted)
          BY <2>4, <2>5, <3>2, <4>2
        <5>2. runs'[posted[i]] = runs[posted[i]]
          BY <2>7, <4>2, <5>1
        <5> QED  BY <2>1, <5>1, <5>2 DEF QueueState
      <4> QED  BY <4>1, <4>2
    <3>5. ASSUME NEW i \in 1..Len(tasks')
          PROVE  /\ tasks'[i].task = posted'[Gone' + i]
                 /\ tasks'[i].iterations <= Iterations[posted'[Gone' + i]]
                 /\ runs'[posted'[Gone' + i]] =
                       Iterations[posted'[Gone' + i]] - tasks'[i].iterations
                 /\ i > 1 => runs'[posted'[Gone' + i]] = 0
      <4>1. i + 1 \in 1..n /\ i + 1 > 1 /\ Gone' + i = Gone + (i + 1)
        BY <2>2, <2>4, <3>1, <3>2
      <4>2. /\ Gone + (i + 1) \in 1..Len(posted) /\ Gone + (i + 1) # Gone + 1
        BY <2>2, <2>4, <4>1 DEF Gone
      <4>3. runs'[posted[Gone + (i + 1)]] = runs[posted[Gone + (i + 1)]]
        BY <2>7, <4>2
      <4>4. tasks'[i] = tasks[i + 1] /\ posted'[Gone' + i] = posted[Gone + (i + 1)]
        BY <2>1, <3>1, <4>1
      <4>5. /\ tasks[i + 1].task = posted[Gone + (i + 1)]
            /\ tasks[i + 1].iterations <= Iterations[posted[Gone + (i + 1)]]
            /\ runs[posted[Gone + (i + 1)]] =
                  Iterations[posted[Gone + (i + 1)]] - tasks[i + 1].iterations
            /\ runs[posted[Gone + (i + 1)]] = 0
        BY <4>1 DEF QueueState
      <4> QED  BY <4>3, <4>4, <4>5
    <3>6. Len(tasks') <= Len(posted')
      BY <2>1, <2>2, <2>4, <3>1 DEF QueueState
    <3> QED  BY <2>8, <2>9, <3>4, <3>5, <3>6 DEF QueueState
  <2>11. CASE front.iterations # 0
    <3>1. /\ Len(tasks') = n
          /\ tasks'[1] = [task |-> t, iterations |-> front.iterations - 1]
          /\ \A i \in 2..n : tasks'[i] = tasks[i]
      BY <2>1, <2>2, <2>11, AfterTakeProperties DEF TypeInv
    <3>2. Gone' = Gone
      BY <2>1, <3>1 DEF Gone
    <3>3. ASSUME NEW i \in 1..Gone'
          PROVE  runs'[posted'[i]] = Iterations[posted'[i]] + 1
      <4>1. i \in 1..Gone /\ i \in 1..Len(posted) /\ i # Gone + 1
        BY <2>4, <2>5, <3>2
      <4>2. runs'[posted[i]] = runs[posted[i]]
        BY <2>7, <4>1
      <4> QED  BY <2>1, <4>1, <4>2 DEF QueueState
    <3>4. ASSUME NEW i \in 1..Len(tasks')
          PROVE  /\ tasks'[i].task = posted'[Gone' + i]
                 /\ tasks'[i].iterations <= Iterations[posted'[Gone' + i]]
                 /\ runs'[posted'[Gone' + i]] =
                       Iterations[posted'[Gone' + i]] - tasks'[i].iterations
                 /\ i > 1 => runs'[posted'[Gone' + i]] = 0
      <4>1. CASE i = 1
        <5>1. /\ front.iterations <= Iterations[t]
              /\ runs[t] = Iterations[t] - front.iterations
          BY <2>2, <2>5 DEF QueueState
        <5>2. front.iterations \in Nat /\ Iterations[t] \in Nat
          BY <2>2, <2>3, TasksAssumption DEF Item
        <5> QED  BY <2>1, <2>2, <2>5, <2>7, <3>1, <3>2, <4>1, <5>1, <5>2
      <4>2. CASE i # 1
        <5>1. i \in 2..n /\ tasks'[i] = tasks[i]
          BY <3>1, <4>2
        <5>2. Gone + i \in 1..Len(posted) /\ Gone + i # Gone + 1
          BY <2>2, <2>4, <5>1 DEF Gone
        <5>3. runs'[posted[Gone + i]] = runs[posted[Gone + i]]
          BY <2>7, <5>2
        <5> QED  BY <2>1, <3>2, <5>1, <5>3 DEF QueueState
      <4> QED  BY <4>1, <4>2
    <3> QED  BY <2>1, <2>8, <2>9, <3>1, <3>3, <3>4 DEF QueueState
  <2> QED  BY <2>2, <2>10, <2>11
<1>3. ASSUME NEW p \in Workers \cup Clients, PushTasks(p) PROVE QueueState'
  <2> DEFINE k == Len(posted)
             m == Len(tasks)
  <2>1. PICK n \in 1..MaxBatch : \E group \in [1..n -> Unposted] :
           IsInjective(group) /\ Enqueue(p, group)
    BY <1>3 DEF PushTasks
  <2>2. PICK group \in [1..n -> Unposted] : IsInjective(group) /\ Enqueue(p, group)
    BY <2>1
  <2>3. n \in Nat \ {0}
    BY TasksAssumption
  <2>4. /\ tasks' = tasks \o Items(group) /\ posted' = posted \o group /\ runs' = runs
    BY <2>2 DEF Enqueue, Items
  <2>5. /\ k \in Nat /\ m \in Nat /\ m <= k /\ Gone \in Nat /\ Gone = k - m
        /\ DOMAIN posted = 1..k /\ \A i \in 1..k : posted[i] \in Tasks
    BY DEF QueueState, Gone, TypeInv
  <2>6. /\ posted' \in Seq(Tasks) /\ Len(posted') = k + n
        /\ \A i \in 1..(k + n) :
              posted'[i] = IF i <= k THEN posted[i] ELSE group[i - k]
    <3>1. posted \in Seq(Tasks) /\ group \in Seq(Tasks) /\ Len(group) = n
      BY <2>3, BatchIsSeq DEF TypeInv
    <3>2. /\ posted \o group \in Seq(Tasks)
          /\ Len(posted \o group) = Len(posted) + Len(group)
          /\ \A i \in 1..(Len(posted) + Len(group)) : (posted \o group)[i] =
                IF i <= Len(posted) THEN posted[i] ELSE group[i - Len(posted)]
      BY <3>1, ConcatProperties
    <3> QED  BY <2>4, <3>1, <3>2
  <2>7. /\ Len(tasks') = m + n
        /\ \A i \in 1..(m + n) :
              tasks'[i] = IF i <= m THEN tasks[i]
                          ELSE [task |-> group[i - m],
                                iterations |-> Iterations[group[i - m]]]
    <3>1. /\ Len(tasks') = m + n
          /\ \A i \in 1..(m + n) :
                tasks'[i] = IF i <= m THEN tasks[i] ELSE Items(group)[i - m]
      <4>1. tasks \in Seq(Item) /\ Items(group) \in Seq(Item) /\ Len(Items(group)) = n
        BY <2>3, BatchIsSeq DEF TypeInv
      <4>2. /\ Len(tasks \o Items(group)) = Len(tasks) + Len(Items(group))
            /\ \A i \in 1..(Len(tasks) + Len(Items(group))) :
                  (tasks \o Items(group))[i] =
                     IF i <= Len(tasks) THEN tasks[i] ELSE Items(group)[i - Len(tasks)]
        BY <4>1, ConcatProperties
      <4> QED  BY <2>4, <4>1, <4>2
    <3>2. \A i \in 1..n : Items(group)[i] =
               [task |-> group[i], iterations |-> Iterations[group[i]]]
      BY <2>3, BatchIsSeq
    <3>3. ASSUME NEW i \in 1..(m + n), ~(i <= m)
          PROVE  tasks'[i] = [task |-> group[i - m],
                              iterations |-> Iterations[group[i - m]]]
      <4>1. i - m \in 1..n
        BY <2>3, <2>5, <3>3
      <4> QED  BY <3>1, <3>2, <3>3, <4>1
    <3> QED  BY <3>1, <3>3
  <2>8. Gone' = Gone
    BY <2>3, <2>5, <2>6, <2>7 DEF Gone
  <2>9. \A i \in 1..n : /\ group[i] \in Unposted /\ group[i] \in Tasks
                        /\ \A j \in 1..k : posted[j] # group[i]
    BY <2>5 DEF Unposted, Range
  <2>10. IsInjective(posted')
    <3>1. DOMAIN posted' = 1..(k + n)
      BY <2>6
    <3>2. ASSUME NEW i \in 1..(k + n), NEW j \in 1..(k + n), posted'[i] = posted'[j]
          PROVE  i = j
      <4>1. CASE i <= k /\ j <= k
        <5>1. i \in 1..k /\ j \in 1..k /\ posted[i] = posted[j]
          BY <2>5, <2>6, <3>2, <4>1
        <5> QED  BY <2>5, <5>1 DEF QueueState, IsInjective
      <4>2. CASE ~(i <= k) /\ ~(j <= k)
        <5>1. i - k \in 1..n /\ j - k \in 1..n /\ group[i - k] = group[j - k]
          BY <2>3, <2>5, <2>6, <3>2, <4>2
        <5>2. i - k = j - k
          BY <2>2, <5>1 DEF IsInjective
        <5> QED  BY <2>5, <5>2
      <4>3. CASE i <= k /\ ~(j <= k)
        BY <2>3, <2>5, <2>6, <2>9, <3>2, <4>3
      <4>4. CASE ~(i <= k) /\ j <= k
        BY <2>3, <2>5, <2>6, <2>9, <3>2, <4>4
      <4> QED  BY <4>1, <4>2, <4>3, <4>4
    <3> QED  BY <3>1, <3>2 DEF IsInjective
  <2>11. ASSUME NEW i \in 1..Len(tasks')
         PROVE  /\ tasks'[i].task = posted'[Gone' + i]
                /\ tasks'[i].iterations <= Iterations[posted'[Gone' + i]]
                /\ runs'[posted'[Gone' + i]] =
                      Iterations[posted'[Gone' + i]] - tasks'[i].iterations
                /\ i > 1 => runs'[posted'[Gone' + i]] = 0
    <3>1. CASE i <= m
      <4>1. i \in 1..m
        BY <2>5, <3>1
      <4>2. i \in 1..(m + n) /\ i <= m
        BY <2>5, <2>7, <3>1
      <4>3. tasks'[i] = tasks[i]
        BY <2>7, <4>2
      <4>4. Gone + i \in 1..(k + n) /\ Gone + i <= k
        BY <2>3, <2>5, <4>1
      <4>5. posted'[Gone' + i] = posted[Gone + i]
        <5>1. PICK x \in 1..(k + n) : x = Gone + i
          BY <4>4
        <5>2. posted'[x] = posted[x]
          BY <2>6, <4>4, <5>1
        <5> QED  BY <2>8, <5>1, <5>2
      <4> QED  BY <2>4, <4>1, <4>3, <4>5 DEF QueueState
    <3>2. CASE i > m
      <4>1. /\ i - m \in 1..n /\ Gone + i \in 1..(k + n)
            /\ ~(Gone + i <= k) /\ (Gone + i) - k = i - m
        BY <2>3, <2>5, <2>7, <3>2
      <4>2. posted'[Gone' + i] = group[i - m]
        <5>1. PICK x \in 1..(k + n) : x = Gone + i
          BY <4>1
        <5>2. ~(x <= k) /\ x - k = i - m
          BY <4>1, <5>1
        <5>3. posted'[x] = group[x - k]
          BY <2>6, <5>2
        <5> QED  BY <2>8, <5>1, <5>2, <5>3
      <4>4. i \in 1..(m + n) /\ ~(i <= m)
        BY <2>5, <2>7, <3>2
      <4>5. tasks'[i] = [task |-> group[i - m],
                         iterations |-> Iterations[group[i - m]]]
        BY <2>7, <4>4
      <4>3. runs[group[i - m]] = 0 /\ Iterations[group[i - m]] \in Nat
        BY <2>9, <4>1, TasksAssumption DEF QueueState
      <4> QED  BY <2>4, <4>2, <4>3, <4>5
    <3> QED  BY <2>5, <3>1, <3>2
  <2>12. \A i \in 1..Gone' : runs'[posted'[i]] = Iterations[posted'[i]] + 1
    <3>1. ASSUME NEW i \in 1..Gone PROVE posted'[i] = posted[i]
      BY <2>3, <2>5, <2>6
    <3> QED  BY <2>4, <2>8, <3>1 DEF QueueState
  <2>13. \A t \in Unposted' : runs'[t] = 0
    <3>1. \A i \in 1..k : posted'[i] = posted[i] /\ i \in DOMAIN posted'
      BY <2>3, <2>5, <2>6
    <3>2. Unposted' \subseteq Unposted
      BY <2>5, <3>1 DEF Unposted, Range
    <3> QED  BY <2>4, <3>2 DEF QueueState
  <2>14. Len(tasks') <= Len(posted')
    BY <2>3, <2>5, <2>6, <2>7
  <2> QED  BY <2>10, <2>11, <2>12, <2>13, <2>14 DEF QueueState
<1> QED
  BY <1>1, <1>2, <1>3
     DEF Next, vars, WorkerStep, WaitForTask, ReturnOnExit, NotifyMore, FinishTask,
         ReturnOnTimeout, Leave, NotifyPushed, KeepAliveTimeout, SpuriousWakeup,
         Destroy, DtorContinue

\* What follows from QueueState for the tasks that were posted.
LEMMA QueueOrder ==
  ASSUME TypeInv, QueueState
  PROVE  StartedInOrder
<1>1. /\ Len(posted) \in Nat /\ Len(tasks) \in Nat /\ Gone \in Nat
      /\ Gone + Len(tasks) = Len(posted) /\ DOMAIN posted = 1..Len(posted)
      /\ \A i \in 1..Len(posted) : Iterations[posted[i]] \in Nat
  BY TasksAssumption DEF TypeInv, QueueState, Gone
<1>2. \A i \in 1..Len(tasks) : tasks[i].iterations \in Nat
  <2>1. ASSUME NEW i \in 1..Len(tasks) PROVE tasks[i] \in Item
    BY ElementOfSeq DEF TypeInv
  <2> QED  BY <2>1 DEF Item
<1>3. ASSUME NEW j \in 1..Len(posted)
      PROVE  /\ runs[posted[j]] <= Iterations[posted[j]] + 1
             /\ runs[posted[j]] > 0 =>
                  \A i \in 1..(j - 1) : runs[posted[i]] = Iterations[posted[i]] + 1
  <2>1. CASE j <= Gone
    BY <1>1, <2>1 DEF QueueState
  <2>2. CASE j > Gone
    <3>1. PICK i \in 1..Len(tasks) : j = Gone + i
      <4>1. j - Gone \in 1..Len(tasks) /\ j = Gone + (j - Gone)
        BY <1>1, <2>2
      <4> QED  BY <4>1
    <3>2. /\ runs[posted[j]] = Iterations[posted[j]] - tasks[i].iterations
          /\ i > 1 => runs[posted[j]] = 0
      BY <3>1 DEF QueueState
    <3> QED  BY <1>1, <1>2, <3>1, <3>2 DEF QueueState
  <2> QED  BY <1>1, <2>1, <2>2
<1> QED  BY <1>1, <1>3 DEF StartedInOrder

\* Tasks start in the order in which they entered the queue, and none is ever
\* started more often than it was posted for, whatever the threads do.
THEOREM StartsInOrder == Spec => []StartedInOrder
<1>1. TypeInv /\ ThreadState /\ QueueState /\ [Next]_vars
         => (TypeInv /\ ThreadState /\ QueueState)'
  BY TypeStep, QueueStep
<1>2. TypeInv /\ QueueState => StartedInOrder
  BY QueueOrder
<1> QED  BY <1>1, <1>2, TypeInit, QueueInit, PTL DEF Spec

-----------------------------------------------------------------------------
(* The destructor, and the runner as a task queue.                         *)

\* should_exit_ is set as the destructor begins, and when it returns the map
\* is empty.
DtorState ==
  /\ shouldExit <=> pc[Dtor] # "idle"
  /\ pc[Dtor] = "destroyed" => threadMap = {}

LEMMA DtorStep ==
  TypeInv /\ ThreadState /\ DtorState /\ [Next]_vars => DtorState'
<1> SUFFICES ASSUME TypeInv, ThreadState, DtorState, [Next]_vars PROVE DtorState'
  OBVIOUS
<1>p. PcTypes(pc) /\ Dtor \in Threads /\ Dtor \notin Workers /\ Dtor \notin Clients
  BY ThreadsAssumption DEF TypeInv, PcTypes, Threads
<1>s. ASSUME NEW th \in Workers \cup Clients, NEW x, x # "waiting",
             th \in Workers => x \in WorkerPc, th \in Clients => x \in ClientPc,
             pc' \in NotifyOne([pc EXCEPT ![th] = x])
      PROVE  pc'[Dtor] = pc[Dtor] \/ (pc[Dtor] = "waiting" /\ pc'[Dtor] = "woken")
  <2>1. th \in Threads /\ th # Dtor
    BY <1>p DEF Threads
  <2>2. OthersWokenOnly(pc, pc', Threads \ {th})
    BY <1>p, <1>s, <2>1, ThreadMoves
  <2> QED  BY <1>p, <2>1, <2>2 DEF OthersWokenOnly
<1>1. CASE /\ pc'[Dtor] = pc[Dtor] \/ (pc[Dtor] = "waiting" /\ pc'[Dtor] = "woken")
           /\ threadMap' \subseteq threadMap /\ shouldExit' = shouldExit
  BY <1>1 DEF DtorState
<1>2. ASSUME NEW w \in Workers, WorkerStep(w) \/ KeepAliveTimeout(w) PROVE DtorState'
  <2>1. w # Dtor
    BY <1>p
  <2>2. CASE WaitForTask(w) \/ TakeTask(w) \/ ReturnOnExit(w) \/ FinishTask(w)
               \/ ReturnOnTimeout(w) \/ KeepAliveTimeout(w)
    <3>1. pc'[Dtor] = pc[Dtor]
      BY <1>p, <2>1, <2>2
         DEF WaitForTask, TakeTask, ReturnOnExit, FinishTask, ReturnOnTimeout,
             KeepAliveTimeout, PcTypes
    <3> QED  BY <1>1, <2>2, <3>1
             DEF WaitForTask, TakeTask, ReturnOnExit, FinishTask, ReturnOnTimeout,
                 KeepAliveTimeout
  <2>3. CASE NotifyMore(w) \/ NotifyPushed(w)
    <3>1. pc' \in NotifyOne([pc EXCEPT ![w] = "running"])
      BY <2>3 DEF NotifyMore, NotifyPushed
    <3>2. w \notin Clients /\ "running" \in WorkerPc
      BY ThreadsAssumption DEF WorkerPc
    <3> QED  BY <1>1, <1>s, <2>3, <3>1, <3>2 DEF NotifyMore, NotifyPushed
  <2>4. CASE Leave(w)
    <3>1. w \notin Clients /\ "none" \in WorkerPc
      BY ThreadsAssumption DEF WorkerPc
    <3> QED  BY <1>1, <1>s, <2>4, <3>1 DEF Leave
  <2> QED  BY <1>2, <2>2, <2>3, <2>4 DEF WorkerStep
<1>3. ASSUME NEW c \in Clients, NotifyPushed(c) PROVE DtorState'
  <2>1. c \notin Workers /\ "idle" \in ClientPc
    BY ThreadsAssumption DEF ClientPc
  <2>2. pc' \in NotifyOne([pc EXCEPT ![c] = "idle"])
    BY <1>3, <2>1 DEF NotifyPushed
  <2> QED  BY <1>1, <1>3, <1>s, <2>1, <2>2 DEF NotifyPushed
<1>4. ASSUME NEW p \in Workers \cup Clients, PushTasks(p) PROVE DtorState'
  <2>1. pc[Dtor] # "destroyed"
    <3>1. CASE p \in Clients
      BY <1>4, <1>p, <3>1, ThreadsAssumption DEF PushTasks, MayPost
    <3>2. CASE p \in Workers
      BY <1>4, <3>2, ThreadsAssumption DEF PushTasks, MayPost, ThreadState, DtorState
    <3> QED  BY <3>1, <3>2
  <2>2. pc'[Dtor] = pc[Dtor] /\ shouldExit' = shouldExit
    <3>1. PICK n \in 1..MaxBatch : \E group \in [1..n -> Unposted] : Enqueue(p, group)
      BY <1>4 DEF PushTasks
    <3>2. PICK group \in [1..n -> Unposted] : Enqueue(p, group)
      BY <3>1
    <3>3. PICK new \in NewWorkers(group) :
             pc' = [th \in Threads |-> IF th = p THEN "notifyPushed"
                                       ELSE IF th \in new THEN "loop" ELSE pc[th]]
      BY <3>2 DEF Enqueue
    <3>4. Dtor # p /\ Dtor \notin new
      BY <1>p DEF NewWorkers
    <3> QED  BY <1>p, <3>2, <3>3, <3>4 DEF Enqueue
  <2> QED  BY <2>1, <2>2 DEF DtorState
<1>5. ASSUME NEW th \in Workers \cup {Dtor}, SpuriousWakeup(th) PROVE DtorState'
  BY <1>p, <1>5 DEF SpuriousWakeup, DtorState, PcTypes
<1>6. ASSUME DtorLoop, UNCHANGED threadMap
      PROVE  /\ pc'[Dtor] # "idle"
             /\ pc'[Dtor] = "destroyed" => threadMap' = {}
  <2>1. CASE threadMap = {} /\ pc' = [pc EXCEPT ![Dtor] = "destroyed"]
    BY <1>p, <1>6, <2>1 DEF PcTypes
  <2>2. CASE \E p \in NotifyOne(pc) : pc' = [p EXCEPT ![Dtor] = "waiting"]
    <3>1. PICK p \in NotifyOne(pc) : pc' = [p EXCEPT ![Dtor] = "waiting"]
      BY <2>2
    <3>2. PcTypes(p)
      BY <1>p, NotifyOneMoves
    <3>3. pc'[Dtor] = "waiting"
      BY <1>p, <3>1, <3>2 DEF PcTypes
    <3> QED  BY <3>3
  <2> QED  BY <1>6, <2>1, <2>2 DEF DtorLoop
<1>7. CASE Destroy
  BY <1>6, <1>7 DEF Destroy, DtorState
<1>8. CASE DtorContinue
  BY <1>6, <1>8 DEF DtorContinue, DtorState
<1>9. CASE UNCHANGED vars
  BY <1>9 DEF vars, DtorState
<1> QED  BY <1>2, <1>3, <1>4, <1>5, <1>7, <1>8, <1>9 DEF Next

\* When the destructor has returned no thread of the pool is left.
THEOREM DtorWaitsForAll == Spec => []NobodyLeftBehind
<1>1. Init => DtorState
  BY ThreadsAssumption DEF Init, DtorState, Threads
<1>2. TypeInv /\ ThreadState /\ DtorState /\ [Next]_vars
         => (TypeInv /\ ThreadState /\ DtorState)'
  BY TypeStep, DtorStep
<1>3. ThreadState /\ DtorState => NobodyLeftBehind
  BY DEF ThreadState, DtorState, NobodyLeftBehind
<1> QED  BY <1>1, <1>2, <1>3, TypeInit, PTL DEF Spec

\* Every run that has not returned is held by a worker of its own.
LEMMA RunningStep ==
  TypeInv /\ ThreadState /\ RunningAccounted /\ [Next]_vars => RunningAccounted'
<1> SUFFICES ASSUME TypeInv, ThreadState, RunningAccounted, [Next]_vars
             PROVE  RunningAccounted'
  OBVIOUS
<1> DEFINE Holders(t) == {w \in Workers : task[w] = t}
<1>1. CASE UNCHANGED <<task, runs, finished>>
  BY <1>1 DEF RunningAccounted
<1>2. ASSUME NEW t
      PROVE  IsFiniteSet(Holders(t)) /\ Cardinality(Holders(t)) \in Nat
  <2>1. Holders(t) \in SUBSET Workers
    OBVIOUS
  <2> QED  BY <2>1, ThreadsAssumption, FS_Subset, FS_CardinalityType
<1>3. ASSUME NEW w \in Workers, TakeTask(w) PROVE RunningAccounted'
  <2> DEFINE h == Head(tasks).task
  <2>1. h \in Tasks
    BY <1>3, AfterTakeProperties DEF TakeTask, TypeInv, Item
  <2>2. /\ task[w] = NoTask /\ task' = [task EXCEPT ![w] = h] /\ finished' = finished
        /\ runs' = [runs EXCEPT ![h] = runs[h] + 1]
    BY <1>3, <2>1 DEF TakeTask, AtLoopHead, ThreadState, Active, TypeInv
  <2> HIDE DEF h
  <2>3. ASSUME NEW t \in Tasks
        PROVE  runs'[t] - finished'[t] = Cardinality({v \in Workers : task'[v] = t})
    <3>1. /\ runs[t] \in Nat /\ finished[t] \in Nat
          /\ runs[t] - finished[t] = Cardinality(Holders(t))
      BY DEF TypeInv, RunningAccounted
    <3>2. CASE t = h
      <4>1. {v \in Workers : task'[v] = t} = Holders(t) \cup {w}
        BY <2>2, <3>2, TasksAssumption DEF TypeInv
      <4>2. w \notin Holders(t)
        BY <2>2, TasksAssumption
      <4>3. Cardinality(Holders(t) \cup {w}) = Cardinality(Holders(t)) + 1
        <5> DEFINE H == Holders(t)
        <5>1. IsFiniteSet(H) /\ w \notin H
          BY <1>2, <4>2
        <5> HIDE DEF H
        <5>2. Cardinality(H \cup {w}) = Cardinality(H) + 1
          BY <5>1, FS_AddElement
        <5> QED  BY <5>2 DEF H
      <4>4. runs'[t] = runs[t] + 1 /\ finished'[t] = finished[t]
        BY <2>2, <3>2 DEF TypeInv
      <4>5. Cardinality({v \in Workers : task'[v] = t}) = Cardinality(Holders(t)) + 1
        BY <4>1, <4>3
      <4> HIDE DEF Holders
      <4> QED  BY <3>1, <4>4, <4>5
    <3>3. CASE t # h
      <4>1. {v \in Workers : task'[v] = t} = Holders(t)
        BY <2>2, <3>3, TasksAssumption DEF TypeInv
      <4> QED  BY <2>2, <3>1, <3>3, <4>1 DEF TypeInv
    <3> QED  BY <3>2, <3>3
  <2> QED  BY <2>3 DEF RunningAccounted
<1>4. ASSUME NEW w \in Workers, FinishTask(w) PROVE RunningAccounted'
  <2> DEFINE h == task[w]
  <2>1. h \in Tasks
    BY <1>4 DEF FinishTask, ThreadState, Active, TypeInv
  <2>2. /\ task' = [task EXCEPT ![w] = NoTask] /\ runs' = runs
        /\ finished' = [finished EXCEPT ![h] = finished[h] + 1]
    BY <1>4, <2>1 DEF FinishTask, TypeInv
  <2>3. ASSUME NEW t \in Tasks
        PROVE  runs'[t] - finished'[t] = Cardinality({v \in Workers : task'[v] = t})
    <3>1. /\ runs[t] \in Nat /\ finished[t] \in Nat
          /\ runs[t] - finished[t] = Cardinality(Holders(t))
      BY DEF TypeInv, RunningAccounted
    <3>2. CASE t = h
      <4>1. {v \in Workers : task'[v] = t} = Holders(t) \ {w}
        BY <2>2, <3>2, TasksAssumption DEF TypeInv
      <4>2. w \in Holders(t)
        BY <3>2
      <4>3. Cardinality(Holders(t) \ {w}) = Cardinality(Holders(t)) - 1
        <5> DEFINE H == Holders(t)
        <5>1. IsFiniteSet(H) /\ w \in H
          BY <1>2, <4>2
        <5> HIDE DEF H
        <5>2. Cardinality(H \ {w}) = Cardinality(H) - 1
          BY <5>1, FS_RemoveElement
        <5> QED  BY <5>2 DEF H
      <4>4. runs'[t] = runs[t] /\ finished'[t] = finished[t] + 1
        BY <2>2, <3>2 DEF TypeInv
      <4>5. Cardinality({v \in Workers : task'[v] = t}) = Cardinality(Holders(t)) - 1
        BY <4>1, <4>3
      <4>6. Cardinality(Holders(t)) \in Nat
        BY <1>2
      <4> HIDE DEF Holders
      <4> QED  BY <3>1, <4>4, <4>5, <4>6
    <3>3. CASE t # h
      <4>1. {v \in Workers : task'[v] = t} = Holders(t)
        BY <2>2, <3>3, TasksAssumption DEF TypeInv
      <4> QED  BY <2>1, <2>2, <3>1, <3>3, <4>1 DEF TypeInv
    <3> QED  BY <3>2, <3>3
  <2> QED  BY <2>3 DEF RunningAccounted
<1> QED
  BY <1>1, <1>3, <1>4
     DEF Next, vars, WorkerStep, WaitForTask, ReturnOnExit, NotifyMore, ReturnOnTimeout,
         Leave, NotifyPushed, KeepAliveTimeout, SpuriousWakeup, Destroy, DtorContinue,
         PushTasks, Enqueue

LEMMA RunningInit == Init => RunningAccounted
<1> SUFFICES ASSUME Init PROVE RunningAccounted
  OBVIOUS
<1>1. ASSUME NEW t \in Tasks
      PROVE  runs[t] - finished[t] = Cardinality({w \in Workers : task[w] = t})
  <2>1. {w \in Workers : task[w] = t} = {}
    BY TasksAssumption DEF Init
  <2>2. runs[t] - finished[t] = 0
    BY DEF Init
  <2> QED  BY <2>1, <2>2, FS_EmptySet
<1> QED  BY <1>1 DEF RunningAccounted

\* What has been started and has not returned is in the hands of a worker.
THEOREM AccountsForRuns == Spec => []RunningAccounted
<1>1. TypeInv /\ ThreadState /\ RunningAccounted /\ [Next]_vars
         => (TypeInv /\ ThreadState /\ RunningAccounted)'
  BY TypeStep, RunningStep
<1> QED  BY <1>1, TypeInit, RunningInit, PTL DEF Spec

\* Once should_exit_ is set no worker takes a task any more.
THEOREM ExitStartsNothing == Spec => NothingStartsOnExit
<1>1. [Next]_vars => [shouldExit => runs' = runs]_vars
  BY DEF Next, vars, WorkerStep, WaitForTask, TakeTask, ReturnOnExit, NotifyMore,
         FinishTask, ReturnOnTimeout, Leave, NotifyPushed, KeepAliveTimeout,
         SpuriousWakeup, Destroy, DtorContinue, PushTasks, Enqueue
<1> QED  BY <1>1, PTL DEF Spec, NothingStartsOnExit

-----------------------------------------------------------------------------
(* No lost wakeup.                                                         *)

\* Without timeouts a worker leaves only because should_exit_ is set.
NobodyLeaves ==
  ~shouldExit => \A w \in Workers : pc[w] \notin {"timedOut", "leaving"}

LEMMA NobodyLeavesStep ==
  ASSUME ~KeepAliveExpires
  PROVE  TypeInv /\ DtorState /\ NobodyLeaves /\ [Next]_vars => NobodyLeaves'
<1> SUFFICES ASSUME TypeInv, DtorState, NobodyLeaves, [Next]_vars, ~shouldExit',
                    NEW w \in Workers
             PROVE  pc'[w] \notin {"timedOut", "leaving"}
  BY DEF NobodyLeaves
<1>p. PcTypes(pc) /\ Workers \subseteq Threads
  BY DEF TypeInv, PcTypes, Threads
<1>1. ~shouldExit /\ pc[w] \notin {"timedOut", "leaving"}
  <2>1. shouldExit' = shouldExit \/ shouldExit' = TRUE
    BY DEF Next, vars, WorkerStep, WaitForTask, TakeTask, ReturnOnExit, NotifyMore,
           FinishTask, ReturnOnTimeout, Leave, NotifyPushed, KeepAliveTimeout,
           SpuriousWakeup, Destroy, DtorContinue, PushTasks, Enqueue
  <2> QED  BY <2>1 DEF NobodyLeaves
<1>2. ASSUME NEW v \in Workers, WorkerStep(v) \/ KeepAliveTimeout(v)
      PROVE  pc'[w] \notin {"timedOut", "leaving"}
  <2>1. ~ReturnOnExit(v) /\ ~KeepAliveTimeout(v) /\ ~ReturnOnTimeout(v) /\ ~Leave(v)
    BY <1>1 DEF ReturnOnExit, KeepAliveTimeout, ReturnOnTimeout, Leave, NobodyLeaves
  <2>2. CASE WaitForTask(v) \/ TakeTask(v) \/ FinishTask(v)
    BY <1>1, <1>p, <2>2 DEF WaitForTask, TakeTask, FinishTask, PcTypes
  <2>3. CASE NotifyMore(v) \/ NotifyPushed(v)
    <3>1. pc' \in NotifyOne([pc EXCEPT ![v] = "running"])
      BY <2>3 DEF NotifyMore, NotifyPushed
    <3>2. pc'[v] = "running" /\ OthersWokenOnly(pc, pc', Threads \ {v})
      BY <3>1, WorkerMoves DEF WorkerPc
    <3> QED  BY <1>1, <1>p, <3>2 DEF OthersWokenOnly
  <2> QED  BY <1>2, <2>1, <2>2, <2>3 DEF WorkerStep
<1>3. ASSUME NEW c \in Clients, NotifyPushed(c)
      PROVE  pc'[w] \notin {"timedOut", "leaving"}
  <2>1. c \in Threads /\ c \notin Workers /\ c # Dtor
    BY ThreadsAssumption DEF Threads
  <2>2. pc' \in NotifyOne([pc EXCEPT ![c] = "idle"])
    BY <1>3, <2>1 DEF NotifyPushed
  <2>3. OthersWokenOnly(pc, pc', Threads \ {c})
    BY <1>p, <2>1, <2>2, ThreadMoves DEF ClientPc
  <2> QED  BY <1>1, <1>p, <2>1, <2>3 DEF OthersWokenOnly
<1>4. ASSUME NEW p \in Workers \cup Clients, PushTasks(p)
      PROVE  pc'[w] \notin {"timedOut", "leaving"}
  <2>1. PICK n \in 1..MaxBatch : \E group \in [1..n -> Unposted] : Enqueue(p, group)
    BY <1>4 DEF PushTasks
  <2>2. PICK group \in [1..n -> Unposted] : Enqueue(p, group)
    BY <2>1
  <2> QED  BY <1>1, <1>p, <2>2 DEF Enqueue
<1>5. ASSUME NEW th \in Workers \cup {Dtor}, SpuriousWakeup(th)
      PROVE  pc'[w] \notin {"timedOut", "leaving"}
  BY <1>1, <1>p, <1>5 DEF SpuriousWakeup, PcTypes
<1>6. ~Destroy /\ ~DtorContinue
  BY <1>1 DEF Destroy, DtorContinue, DtorState
<1>7. CASE UNCHANGED vars
  BY <1>1, <1>7 DEF vars
<1> QED  BY <1>2, <1>3, <1>4, <1>5, <1>6, <1>7 DEF Next

\* What QueueServed asks of the threads, and its two halves: there is a worker,
\* and unless one is about to take a task none stays parked without a
\* notification to come.
Served(p) ==
  \/ \E w \in Workers : p[w] \in {"loop", "woken"}
  \/ /\ \E w \in Workers : p[w] = "waiting"
     /\ \E th \in Workers \cup Clients : p[th] \in {"notifyMore", "notifyPushed"}
  \/ /\ \A w \in Workers : p[w] # "waiting"
     /\ \E w \in Workers : p[w] \in {"running", "notifyMore", "notifyPushed"}
Someone(p) == \E w \in Workers : p[w] # "none"
Roused(p) ==
  \/ \E w \in Workers : p[w] \in {"loop", "woken"}
  \/ \E th \in Workers \cup Clients : p[th] \in {"notifyMore", "notifyPushed"}
  \/ \A w \in Workers : p[w] # "waiting"

LEMMA ServedInHalves ==
  ASSUME NEW p, PcTypes(p), \A w \in Workers : p[w] \notin {"timedOut", "leaving"}
  PROVE  /\ Served(p) => Someone(p)
         /\ Someone(p) /\ Roused(p) => Served(p)
<1>1. Served(p) => Someone(p)
  BY DEF Served, Someone
<1>2. ASSUME Someone(p), Roused(p) PROVE Served(p)
  <2>1. CASE \E w \in Workers : p[w] = "waiting"
    BY <1>2, <2>1 DEF Served, Roused
  <2>2. CASE \A w \in Workers : p[w] # "waiting"
    <3>1. PICK w \in Workers : p[w] # "none"
      BY <1>2 DEF Someone
    <3>2. p[w] \in {"loop", "woken", "running", "notifyMore", "notifyPushed"}
      BY <2>2, <3>1 DEF PcTypes, WorkerPc
    <3> QED  BY <2>2, <3>1, <3>2 DEF Served
  <2> QED  BY <2>1, <2>2
<1> QED  BY <1>1, <1>2

\* While the destructor is not parked a notify_one() leaves no worker parked
\* for nothing: it releases one, or none is parked.
LEMMA NotifyRouses ==
  ASSUME NEW p, PcTypes(p), p[Dtor] # "waiting", NEW q \in NotifyOne(p)
  PROVE  Roused(q) /\ (Someone(p) => Someone(q))
<1>1. /\ OthersWokenOnly(p, q, Threads)
      /\ (\E th \in Threads : p[th] = "waiting")
           => \E th \in Threads : p[th] = "waiting" /\ q[th] = "woken"
  BY NotifyOneMoves
<1>2. \A th \in Threads : p[th] = "waiting" => th \in Workers
  BY DEF PcTypes, ClientPc, Threads
<1>3. Workers \subseteq Threads
  BY DEF Threads
<1>4. Someone(p) => Someone(q)
  BY <1>1, <1>3 DEF OthersWokenOnly, Someone
<1>5. CASE \E th \in Threads : p[th] = "waiting"
  BY <1>1, <1>2, <1>4, <1>5 DEF Roused
<1>6. CASE \A th \in Threads : p[th] # "waiting"
  <2>1. \A w \in Workers : q[w] # "waiting"
    BY <1>1, <1>3, <1>6 DEF OthersWokenOnly
  <2> QED  BY <1>4, <2>1 DEF Roused
<1> QED  BY <1>5, <1>6

LEMMA ServedStep ==
  ASSUME ~KeepAliveExpires
  PROVE  TypeInv /\ ThreadState /\ DtorState /\ NobodyLeaves /\ QueueServed
           /\ [Next]_vars => QueueServed'
<1> SUFFICES ASSUME TypeInv, ThreadState, DtorState, NobodyLeaves, QueueServed,
                    [Next]_vars, tasks' # <<>>, ~shouldExit'
             PROVE  Served(pc')
  BY DEF QueueServed, Served
<1>p. PcTypes(pc) /\ Workers \subseteq Threads
  BY DEF TypeInv, PcTypes, Threads
<1>q. PcTypes(pc') /\ \A w \in Workers : pc'[w] \notin {"timedOut", "leaving"}
  <2>1. TypeInv' /\ NobodyLeaves'
    BY TypeStep, NobodyLeavesStep
  <2> QED  BY <2>1 DEF TypeInv, PcTypes, NobodyLeaves
<1> DEFINE Goal == Someone(pc') /\ Roused(pc')
<1>1. /\ ~shouldExit /\ pc[Dtor] = "idle"
      /\ \A w \in Workers : pc[w] \notin {"timedOut", "leaving"}
  <2>1. shouldExit' = shouldExit \/ shouldExit' = TRUE
    BY DEF Next, vars, WorkerStep, WaitForTask, TakeTask, ReturnOnExit, NotifyMore,
           FinishTask, ReturnOnTimeout, Leave, NotifyPushed, KeepAliveTimeout,
           SpuriousWakeup, Destroy, DtorContinue, PushTasks, Enqueue
  <2> QED  BY <2>1 DEF NobodyLeaves, DtorState
<1>2. ASSUME NEW v \in Workers, WorkerStep(v) \/ KeepAliveTimeout(v) PROVE Goal
  <2>1. ~ReturnOnExit(v) /\ ~KeepAliveTimeout(v) /\ ~ReturnOnTimeout(v) /\ ~Leave(v)
    BY <1>1 DEF ReturnOnExit, KeepAliveTimeout, ReturnOnTimeout, Leave
  <2>2. ~WaitForTask(v)
    BY DEF WaitForTask
  <2>3. CASE TakeTask(v) \/ FinishTask(v)
    <3>1. pc'[v] \in {"notifyMore", "loop"}
      BY <1>p, <2>3 DEF TakeTask, FinishTask, PcTypes
    <3> QED  BY <3>1 DEF Someone, Roused
  <2>4. CASE NotifyMore(v) \/ NotifyPushed(v)
    <3> DEFINE m == [pc EXCEPT ![v] = "running"]
    <3>1. pc' \in NotifyOne(m)
      BY <2>4 DEF NotifyMore, NotifyPushed
    <3>2. m[v] = "running" /\ PcTypes(m)
      BY <1>p, ThreadsAssumption DEF PcTypes, Threads, WorkerPc, ClientPc, DtorPc
    <3>3. m[Dtor] # "waiting"
      BY <1>1, <1>p, ThreadsAssumption DEF PcTypes
    <3>4. Someone(m)
      BY <3>2 DEF Someone
    <3> HIDE DEF m
    <3> QED  BY <3>1, <3>2, <3>3, <3>4, NotifyRouses
  <2> QED  BY <1>2, <2>1, <2>2, <2>3, <2>4 DEF WorkerStep
<1>3. ASSUME NEW c \in Clients, NotifyPushed(c) PROVE Goal
  <2> DEFINE m == [pc EXCEPT ![c] = "idle"]
  <2>1. c \in Threads /\ c \notin Workers /\ c # Dtor
    BY ThreadsAssumption DEF Threads
  <2>2. pc' \in NotifyOne(m) /\ tasks # <<>>
    BY <1>3, <2>1 DEF NotifyPushed
  <2>3. PcTypes(m) /\ \A th \in Threads \ {c} : m[th] = pc[th]
    BY <1>p, <2>1, ThreadsAssumption
       DEF PcTypes, ClientPc, WorkerPc, DtorPc, Threads
  <2> HIDE DEF m
  <2>4. Someone(pc)
    <3>1. Served(pc)
      BY <1>1, <2>2 DEF QueueServed, Served
    <3> QED  BY <1>1, <1>p, <3>1, ServedInHalves
  <2>5. Someone(m) /\ m[Dtor] # "waiting"
    BY <1>1, <1>p, <2>1, <2>3, <2>4 DEF Someone, Threads
  <2> QED  BY <2>2, <2>3, <2>5, NotifyRouses
<1>4. ASSUME NEW p \in Workers \cup Clients, PushTasks(p) PROVE Goal
  <2>1. PICK n \in 1..MaxBatch : \E group \in [1..n -> Unposted] : Enqueue(p, group)
    BY <1>4 DEF PushTasks
  <2>2. PICK group \in [1..n -> Unposted] : Enqueue(p, group)
    BY <2>1
  <2>3. PICK new \in NewWorkers(group) :
           /\ threadMap' = threadMap \cup new
           /\ pc' = [th \in Threads |-> IF th = p THEN "notifyPushed"
                                        ELSE IF th \in new THEN "loop" ELSE pc[th]]
    BY <2>2 DEF Enqueue
  <2>4. p \in Threads /\ pc'[p] = "notifyPushed" /\ n \in Nat \ {0}
    BY <2>3, TasksAssumption DEF Threads
  <2>5. Roused(pc')
    BY <2>4 DEF Roused
  <2>6. CASE p \in Workers
    BY <2>4, <2>5, <2>6 DEF Someone
  <2>7. CASE new # {}
    <3>1. PICK w \in new : w \in Workers
      BY <2>7 DEF NewWorkers
    <3>2. pc'[w] = "loop" \/ pc'[w] = "notifyPushed"
      BY <1>p, <2>3, <3>1
    <3> QED  BY <2>5, <3>1, <3>2 DEF Someone
  <2>8. CASE new = {} /\ p \in Clients
    <3>1. Cardinality(threadMap) = MaxThreads \/ waitingThreadsNum > 0
      <4>1. MayPost(p) /\ UNCHANGED <<waitingThreadsNum, task>>
        BY <1>4, <2>2 DEF PushTasks, Enqueue
      <4> QED  BY <2>3, <2>4, <2>8, <4>1, PushThreads
    <3>2. PICK w \in Workers : pc[w] # "none"
      <4>1. CASE Cardinality(threadMap) = MaxThreads
        <5>1. threadMap # {}
          BY <4>1, FS_EmptySet, PoolAssumption DEF MaxThreadsAssumption
        <5> QED  BY <5>1 DEF ThreadState
      <4>2. CASE waitingThreadsNum > 0
        <5>1. Cardinality(InWait(pc)) # 0
          BY <4>2 DEF ThreadState
        <5>2. InWait(pc) # {}
          BY <5>1, FS_EmptySet
        <5> QED  BY <5>2 DEF InWait
      <4> QED  BY <3>1, <4>1, <4>2
    <3>3. pc'[w] = pc[w]
      BY <1>p, <2>3, <2>8, ThreadsAssumption
    <3> QED  BY <2>5, <3>2, <3>3 DEF Someone
  <2> QED  BY <2>6, <2>7, <2>8
<1>5. ASSUME NEW th \in Workers \cup {Dtor}, SpuriousWakeup(th) PROVE Goal
  <2>1. th \in Workers /\ pc'[th] = "woken"
    BY <1>1, <1>5, <1>p DEF SpuriousWakeup, PcTypes
  <2> QED  BY <2>1 DEF Someone, Roused
<1>6. ~Destroy /\ ~DtorContinue
  BY <1>1 DEF Destroy, DtorContinue
<1>7. CASE UNCHANGED vars
  BY <1>7 DEF vars, QueueServed, Served
<1>8. CASE Goal
  BY <1>8, <1>q, ServedInHalves
<1> QED  BY <1>2, <1>3, <1>4, <1>5, <1>6, <1>7, <1>8 DEF Next

\* In a pool whose workers never time out a queued task always has somebody on
\* the way to it, and no worker sleeps on while the others are busy, whatever
\* the order of pushes, wakeups and notifications: the notify_one() of a push
\* and the baton of had_items are never in vain.  The assumption cannot be dropped: the run PoolTimeout shows a task that is left
\* behind when a worker times out as the task is pushed.
THEOREM NoLostWakeup ==
  ASSUME ~KeepAliveExpires
  PROVE  Spec => []QueueServed
<1>1. Init => DtorState /\ NobodyLeaves /\ QueueServed
  BY ThreadsAssumption DEF Init, DtorState, NobodyLeaves, QueueServed, Threads
<1>2. TypeInv /\ ThreadState /\ DtorState /\ NobodyLeaves /\ QueueServed /\ [Next]_vars
         => (TypeInv /\ ThreadState /\ DtorState /\ NobodyLeaves /\ QueueServed)'
  BY TypeStep, DtorStep, NobodyLeavesStep, ServedStep
<1> QED  BY <1>1, <1>2, TypeInit, PTL DEF Spec

-----------------------------------------------------------------------------
(* The thread pool implements the task queue.                              *)

\* The task that a worker takes is the one whose turn it is.
LEMMA TakenIsNext ==
  ASSUME TypeInv, QueueState, NEW w \in Workers, TakeTask(w)
  PROVE  /\ Head(tasks).task \in Tasks /\ Queue!IsNext(Head(tasks).task)
         /\ ~shouldExit /\ UNCHANGED <<posted, finished, shouldExit>>
         /\ runs' = [runs EXCEPT ![Head(tasks).task] = @ + 1]
<1> DEFINE t == Head(tasks).task
<1>1. /\ tasks # <<>> /\ ~shouldExit /\ UNCHANGED <<posted, finished, shouldExit>>
      /\ runs' = [runs EXCEPT ![t] = @ + 1]
  BY DEF TakeTask
<1>2. /\ Head(tasks) = tasks[1] /\ tasks[1] \in Item /\ Len(tasks) \in Nat \ {0}
  BY <1>1, AfterTakeProperties DEF TypeInv
<1>3. /\ t \in Tasks /\ tasks[1].iterations \in Nat
      /\ Len(posted) \in Nat /\ Gone \in Nat /\ DOMAIN posted = 1..Len(posted)
      /\ Gone + 1 \in DOMAIN posted
  <2>1. t \in Tasks /\ tasks[1].iterations \in Nat
    BY <1>2 DEF Item
  <2>2. Len(posted) \in Nat /\ DOMAIN posted = 1..Len(posted)
    BY DEF TypeInv
  <2>3. Gone \in Nat /\ Gone + 1 \in 1..Len(posted)
    BY <1>2, <2>2 DEF QueueState, Gone
  <2> QED  BY <2>1, <2>2, <2>3
<1>4. /\ posted[Gone + 1] = t
      /\ runs[t] = Iterations[t] - tasks[1].iterations
  BY <1>2, <1>3 DEF QueueState
<1>5. runs[t] < Iterations[t] + 1
  BY <1>3, <1>4, TasksAssumption
<1>6. \A j \in 1..((Gone + 1) - 1) : runs[posted[j]] = Iterations[posted[j]] + 1
  BY <1>3 DEF QueueState
<1>7. Queue!IsNext(t)
  BY <1>3, <1>4, <1>5, <1>6 DEF Queue!IsNext, Queue!AllRuns
<1> QED  BY <1>1, <1>3, <1>7

LEMMA QueueRefinementStep ==
  TypeInv /\ ThreadState /\ QueueState /\ RunningAccounted /\ DtorState /\ [Next]_vars
    => [Queue!Next]_(Queue!vars)
<1> SUFFICES ASSUME TypeInv, ThreadState, QueueState, RunningAccounted, DtorState,
                    [Next]_vars
             PROVE  Queue!Next \/ UNCHANGED <<posted, runs, finished, shouldExit>>
  BY DEF Queue!vars
<1>1. ASSUME NEW w \in Workers, TakeTask(w) PROVE Queue!Next
  <2>1. /\ Head(tasks).task \in Tasks /\ Queue!Start(Head(tasks).task)
    BY <1>1, TakenIsNext DEF Queue!Start
  <2> QED  BY <2>1 DEF Queue!Next
<1>2. ASSUME NEW w \in Workers, FinishTask(w) PROVE Queue!Next
  <2> DEFINE t == task[w]
             H == {v \in Workers : task[v] = t}
  <2>1. /\ t \in Tasks /\ UNCHANGED <<posted, runs, shouldExit>>
        /\ finished' = [finished EXCEPT ![t] = @ + 1]
    BY <1>2 DEF FinishTask, ThreadState, Active, TypeInv
  <2>2. Cardinality(H) \in Nat /\ Cardinality(H) # 0
    <3>1. H \in SUBSET Workers /\ w \in H
      OBVIOUS
    <3> HIDE DEF H
    <3>2. IsFiniteSet(H)
      BY <3>1, ThreadsAssumption, FS_Subset
    <3> QED  BY <3>1, <3>2, FS_EmptySet, FS_CardinalityType
  <2>3. runs[t] - finished[t] = Cardinality(H)
    BY <2>1 DEF RunningAccounted
  <2>4. finished[t] < runs[t]
    <3>1. runs[t] \in Nat /\ finished[t] \in Nat
      BY <2>1 DEF TypeInv
    <3> HIDE DEF H
    <3> QED  BY <2>2, <2>3, <3>1
  <2>5. Queue!Finish(t)
    BY <2>1, <2>4 DEF Queue!Finish
  <2> QED  BY <2>1, <2>5 DEF Queue!Next
<1>3. ASSUME NEW p \in Workers \cup Clients, PushTasks(p) PROVE Queue!Next
  <2>1. Queue!Unposted = Unposted
    BY DEF Queue!Unposted, Unposted, Range, Queue!Range
  <2>2. PICK n \in 1..MaxBatch : \E group \in [1..n -> Unposted] :
           IsInjective(group) /\ Enqueue(p, group)
    BY <1>3 DEF PushTasks
  <2>3. PICK group \in [1..n -> Unposted] : IsInjective(group) /\ Enqueue(p, group)
    BY <2>2
  <2>4. posted' = posted \o group /\ UNCHANGED <<runs, finished, shouldExit>>
    BY <2>3 DEF Enqueue
  <2>5. Queue!Post
    BY <2>1, <2>3, <2>4 DEF Queue!Post, IsInjective, Queue!IsInjective
  <2> QED  BY <2>5 DEF Queue!Next
<1>4. CASE Destroy
  <2>1. ~shouldExit /\ shouldExit' = TRUE /\ UNCHANGED <<posted, runs, finished>>
    BY <1>4 DEF Destroy, DtorState
  <2> QED  BY <2>1 DEF Queue!Close, Queue!Next
<1> QED
  BY <1>1, <1>2, <1>3, <1>4
     DEF Next, vars, WorkerStep, WaitForTask, ReturnOnExit, NotifyMore, ReturnOnTimeout,
         Leave, NotifyPushed, KeepAliveTimeout, SpuriousWakeup, DtorContinue

\* Whatever the number of threads, clients and tasks, the thread pool behaves
\* like a single queue: tasks start in the order of the posts, each as often as
\* asked, one return per start, and none after the destructor has begun.
THEOREM ImplementsQueue == Spec => ImplementsTaskQueue
<1>1. Init => /\ TypeInv /\ ThreadState /\ QueueState /\ RunningAccounted /\ DtorState
              /\ Queue!Init
  <2>1. Init => DtorState
    BY ThreadsAssumption DEF Init, DtorState, Threads
  <2>2. Init => Queue!Init
    BY DEF Init, Queue!Init
  <2> QED  BY <2>1, <2>2, TypeInit, QueueInit, RunningInit
<1>2. TypeInv /\ ThreadState /\ QueueState /\ RunningAccounted /\ DtorState /\ [Next]_vars
        => (TypeInv /\ ThreadState /\ QueueState /\ RunningAccounted /\ DtorState)'
  BY TypeStep, QueueStep, RunningStep, DtorStep
<1>3. TypeInv /\ ThreadState /\ QueueState /\ RunningAccounted /\ DtorState /\ [Next]_vars
        => [Queue!Next]_(Queue!vars)
  BY QueueRefinementStep
<1> QED  BY <1>1, <1>2, <1>3, PTL DEF Spec, Queue!Spec, ImplementsTaskQueue

-----------------------------------------------------------------------------
(* Pool and service together.                                              *)

\* The tasks that were inserted into delayed_tasks_, and those that have left it.
Pushed == {pushed[i].task : i \in DOMAIN pushed}

HandedOver(t) == t \in Range(batch) \cup Range(posted)

\* Where the threads are while one part is destroyed after the other.
PlacesState ==
  /\ serviceExit <=> dtorPc # "idle"
  /\ dtorPc # "idle" =>
       /\ \A p \in Posters : clientPc[p] = "idle"
       /\ \A c \in Clients \ {Service} : pc[c] = "idle"
  /\ servicePc = "exited" => pc[Service] = "idle"
  /\ dtorPc = "destroyed" => servicePc = "exited"
  /\ pc[Dtor] # "idle" => dtorPc = "destroyed"

\* What is known of the calls that post with a delay.
CallState ==
  /\ \A p \in Posters : IF clientPc[p] = "insert"
                        THEN call[p] \in Sched!Push /\ call[p].task \notin Pushed
                        ELSE call[p] = Sched!NoCall
  /\ \A p, r \in Posters :
        p # r /\ call[p].task = call[r].task => call[p] = Sched!NoCall

\* An item in the heap is the one whose number is its task_id.
HeapState ==
  /\ IsFiniteSet(delayed)
  /\ taskId = Len(pushed)
  /\ \A x \in delayed :
        /\ x.taskId + 1 \in DOMAIN pushed
        /\ pushed[x.taskId + 1] = [task |-> x.task, timePoint |-> x.timePoint]
  /\ \A i, j \in DOMAIN pushed : pushed[i].task = pushed[j].task => i = j

\* A task that was inserted is in one place: in the heap, in the local vector of
\* the service thread, or with the pool.
TransitState ==
  /\ \A i \in DOMAIN pushed :
        HandedOver(pushed[i].task) \/ \E x \in delayed : x.taskId + 1 = i
  /\ \A x \in delayed : ~HandedOver(x.task)
  /\ \A k \in DOMAIN batch : batch[k] \in Pushed \ Range(posted)
  /\ IsInjective(batch)
  /\ batch # <<>> <=> servicePc = "pushing"
  /\ Range(posted) \cap Delayed \subseteq Pushed

\* What has left the heap is due, and what was inserted before it and is due no
\* later has left it before.
OrderState ==
  \A i \in DOMAIN pushed :
    /\ HandedOver(pushed[i].task) => pushed[i].timePoint <= clock
    /\ \A j \in 1..(i - 1) : pushed[j].timePoint <= pushed[i].timePoint =>
         /\ \A k \in DOMAIN posted : posted[k] = pushed[i].task =>
              \E l \in 1..(k - 1) : posted[l] = pushed[j].task
         /\ \A k \in DOMAIN batch : batch[k] = pushed[i].task =>
              \/ pushed[j].task \in Range(posted)
              \/ \E l \in 1..(k - 1) : batch[l] = pushed[j].task

SchedState ==
  Sched!TypeInv /\ PlacesState /\ CallState /\ HeapState /\ TransitState /\ OrderState

\* What is proved above of the states of the pool.
PoolState == TypeInv /\ ThreadState /\ QueueState /\ RunningAccounted /\ DtorState

-----------------------------------------------------------------------------
(* The pool.                                                               *)

LEMMA PoolInvariant ==
  /\ Init => PoolState
  /\ PoolState /\ [Next]_vars => PoolState'
<1>1. Init => DtorState
  BY ThreadsAssumption DEF Init, DtorState, Threads
<1>2. Init => PoolState
  BY <1>1, TypeInit, QueueInit, RunningInit DEF PoolState
<1>3. PoolState /\ [Next]_vars => PoolState'
  BY TypeStep, QueueStep, RunningStep, DtorStep DEF PoolState
<1> QED  BY <1>2, <1>3

\* Nobody outside the pool is moved by what the others do there.
LEMMA IdleStay ==
  ASSUME TypeInv, NEW th \in Clients \cup {Dtor}, pc[th] = "idle",
         \/ \E w \in Workers : WorkerStep(w) \/ KeepAliveTimeout(w)
         \/ \E c \in Clients : NotifyPushed(c)
         \/ \E x \in Workers \cup {Dtor} : SpuriousWakeup(x)
         \/ DtorContinue
         \/ Destroy /\ th # Dtor
         \/ \E p \in (Clients \cup Workers) \ {th} : \E b : Enqueue(p, b)
  PROVE  pc'[th] = "idle"
<1>p. /\ PcTypes(pc) /\ th \in Threads /\ th \notin Workers
      /\ pc \in [Threads -> WorkerPc \cup ClientPc \cup DtorPc]
  BY ThreadsAssumption DEF TypeInv, PcTypes, Threads
<1>1. ASSUME NEW w \in Workers, WorkerStep(w) \/ KeepAliveTimeout(w)
      PROVE  pc'[th] = "idle"
  <2>1. CASE WaitForTask(w) \/ TakeTask(w) \/ ReturnOnExit(w) \/ FinishTask(w)
               \/ ReturnOnTimeout(w) \/ KeepAliveTimeout(w)
    BY <1>p, <2>1 DEF WaitForTask, TakeTask, ReturnOnExit, FinishTask, ReturnOnTimeout,
                      KeepAliveTimeout
  <2>2. CASE NotifyMore(w) \/ NotifyPushed(w) \/ Leave(w)
    <3>1. \E x \in {"running", "none"} : pc' \in NotifyOne([pc EXCEPT ![w] = x])
      BY <2>2 DEF NotifyMore, NotifyPushed, Leave
    <3>2. OthersWokenOnly(pc, pc', Threads \ {w})
      BY <3>1, WorkerMoves DEF WorkerPc
    <3> QED  BY <1>p, <3>2 DEF OthersWokenOnly
  <2> QED  BY <1>1, <2>1, <2>2 DEF WorkerStep
<1>2. ASSUME NEW c \in Clients, NotifyPushed(c) PROVE pc'[th] = "idle"
  <2>1. c \in Threads /\ c \notin Workers /\ c # Dtor /\ c # th
    BY <1>2, ThreadsAssumption DEF Threads, NotifyPushed
  <2>2. pc' \in NotifyOne([pc EXCEPT ![c] = "idle"])
    BY <1>2, <2>1 DEF NotifyPushed
  <2>3. OthersWokenOnly(pc, pc', Threads \ {c})
    BY <1>p, <2>1, <2>2, ThreadMoves DEF ClientPc
  <2> QED  BY <1>p, <2>1, <2>3 DEF OthersWokenOnly
<1>3. ASSUME NEW x \in Workers \cup {Dtor}, SpuriousWakeup(x) PROVE pc'[th] = "idle"
  <2>1. pc[x] = "waiting" /\ pc' = [pc EXCEPT ![x] = "woken"]
    BY <1>3 DEF SpuriousWakeup
  <2> QED  BY <1>p, <2>1
<1>4. CASE DtorContinue \/ (Destroy /\ th # Dtor)
  <2>1. th # Dtor
    BY <1>4 DEF DtorContinue
  <2>2. CASE pc' = [pc EXCEPT ![Dtor] = "destroyed"]
    BY <1>p, <2>1, <2>2
  <2>3. ASSUME NEW q \in NotifyOne(pc), pc' = [q EXCEPT ![Dtor] = "waiting"]
        PROVE  pc'[th] = "idle"
    <3>1. PcTypes(q) /\ OthersWokenOnly(pc, q, Threads)
      BY <1>p, NotifyOneMoves
    <3>2. q[th] = "idle"
      BY <1>p, <3>1 DEF OthersWokenOnly
    <3> QED  BY <1>p, <2>1, <2>3, <3>1, <3>2 DEF PcTypes
  <2> QED  BY <1>4, <2>2, <2>3 DEF DtorContinue, Destroy, DtorLoop
<1>5. ASSUME NEW p \in (Clients \cup Workers) \ {th}, NEW b, Enqueue(p, b)
      PROVE  pc'[th] = "idle"
  <2>1. PICK new \in NewWorkers(b) :
          pc' = [t \in Threads |-> IF t = p THEN "notifyPushed"
                                   ELSE IF t \in new THEN "loop" ELSE pc[t]]
    BY <1>5 DEF Enqueue
  <2>2. th \notin new
    BY <1>p DEF NewWorkers
  <2> QED  BY <1>p, <2>1, <2>2
<1> QED  BY <1>1, <1>2, <1>3, <1>4, <1>5

\* A batch of the service is what PushTasks() of the pool may be given.
LEMMA BatchIsFit ==
  ASSUME PoolState, SchedState, Sched!PushTasks
  PROVE  /\ Len(batch) \in 1..MaxBatch /\ batch \in [1..Len(batch) -> Unposted]
         /\ pc[Dtor] = "idle" /\ batch \in Seq(Delayed)
<1>1. servicePc = "pushing" /\ batch \in Seq(Delayed) /\ batch # <<>>
  BY DEF Sched!PushTasks, SchedState, Sched!TypeInv, TransitState
<1>2. /\ Len(batch) \in Nat \ {0} /\ batch \in [1..Len(batch) -> Delayed]
      /\ DOMAIN batch = 1..Len(batch)
  BY <1>1
<1>3. batch \in [1..Len(batch) -> Unposted]
  BY <1>2, ThreadPoolAssumption DEF SchedState, TransitState, Unposted
<1>4. Len(batch) <= MaxBatch
  <2>1. batch \in Injection(1..Len(batch), Delayed)
    BY <1>2 DEF SchedState, TransitState, Injection, IsInjective
  <2>2. Cardinality(1..Len(batch)) <= Cardinality(Delayed)
    BY <2>1, ThreadPoolAssumption, FS_Injection
  <2>3. Cardinality(1..Len(batch)) = Len(batch) /\ Cardinality(Delayed) \in Nat
    BY <1>2, ThreadPoolAssumption, FS_Interval, FS_CardinalityType
  <2> QED  BY <1>2, <2>2, <2>3, ThreadPoolAssumption, TasksAssumption
<1>5. pc[Dtor] = "idle"
  BY <1>1 DEF SchedState, PlacesState
<1> QED  BY <1>1, <1>2, <1>3, <1>4, <1>5, TasksAssumption

\* Every step of the whole is a step of the pool as its callers may take, or
\* none of its business.
LEMMA StepOfPool ==
  ASSUME PoolState, SchedState, [PoolNext]_poolVars
  PROVE  [Next]_vars
<1>1. ASSUME NEW p \in Posters, NEW t \in Immediate, PostNow(p, t) PROVE Next
  <2>1. MayPost(p) /\ t \in Unposted /\ Enqueue(p, <<t>>) /\ p \in Workers \cup Clients
    BY <1>1 DEF PostNow, Posters, Immediate, Unposted
  <2>2. /\ 1 \in 1..MaxBatch /\ <<t>> \in [1..1 -> Unposted]
        /\ IsInjective(<<t>>)
    BY <2>1, TasksAssumption DEF IsInjective
  <2>3. PushTasks(p)
    BY <2>1, <2>2 DEF PushTasks
  <2> QED  BY <2>1, <2>3 DEF Next
<1>2. ASSUME pc[Service] = "idle", Sched!PushTasks, Enqueue(Service, batch) PROVE Next
  <2>1. /\ Len(batch) \in 1..MaxBatch /\ batch \in [1..Len(batch) -> Unposted]
        /\ pc[Dtor] = "idle"
    BY <1>2, BatchIsFit
  <2>2. IsInjective(batch)
    BY DEF SchedState, TransitState
  <2>3. PushTasks(Service)
    BY <1>2, <2>1, <2>2, ThreadPoolAssumption DEF PushTasks, MayPost
  <2> QED  BY <2>3, ThreadPoolAssumption DEF Next
<1>3. ASSUME NEW c \in Clients, NotifyPool(c) PROVE Next
  BY <1>3 DEF NotifyPool, Next
<1>4. ASSUME NEW w \in Workers, WorkerTurn(w) PROVE Next
  BY <1>4 DEF WorkerTurn, Next
<1>5. ASSUME NEW x \in Workers \cup {Dtor}, WaitTurn(x) PROVE Next
  BY <1>5 DEF WaitTurn, Next
<1>6. CASE DestructorTurn
  BY <1>6 DEF DestructorTurn, DestroyPool, Next
<1>7. CASE UNCHANGED poolVars
  BY <1>7 DEF poolVars
<1> QED
  BY <1>1, <1>2, <1>3, <1>4, <1>5, <1>6, <1>7
     DEF PoolNext, PostLater, ClientStep, ServiceTurn, DestroyService

-----------------------------------------------------------------------------
(* The places of the threads.                                              *)

\* Neither part is destroyed, nor begun to be, while anybody may call it.
LEMMA PlacesStep ==
  ASSUME PoolState, SchedState, [PoolNext]_poolVars
  PROVE  PlacesState'
<1>p. /\ TypeInv /\ PlacesState /\ CallState
      /\ clientPc \in [Posters -> {"idle", "insert", "notify"}]
      /\ Service \in Clients /\ Service \notin Posters /\ Dtor \notin Clients
  BY ThreadsAssumption, ThreadPoolAssumption
     DEF PoolState, SchedState, Sched!TypeInv, Posters
<1>s. ASSUME UNCHANGED schedVars,
             \A c \in Clients \ {Service} :
                dtorPc # "idle" /\ pc[c] = "idle" => pc'[c] = "idle",
             servicePc = "exited" /\ pc[Service] = "idle" => pc'[Service] = "idle",
             pc'[Dtor] # "idle" => pc[Dtor] # "idle" \/ dtorPc = "destroyed"
      PROVE  PlacesState'
  BY <1>p, <1>s DEF schedVars, PlacesState
<1>1. ASSUME NEW p \in Posters, NEW t \in Immediate, PostNow(p, t) PROVE PlacesState'
  <2>1. /\ UNCHANGED schedVars /\ Enqueue(p, <<t>>) /\ p \in Clients \cup Workers
        /\ dtorPc # "idle" => p \in Workers
    BY <1>1 DEF PostNow, Posters
  <2>2. \A th \in (Clients \cup {Dtor}) \ {p} : pc[th] = "idle" => pc'[th] = "idle"
    BY <1>p, <2>1, IdleStay
  <2>3. p # Dtor /\ p # Service /\ (dtorPc # "idle" => p \notin Clients)
    BY <1>p, <2>1, ThreadsAssumption
  <2> QED  BY <1>p, <1>s, <2>1, <2>2, <2>3
<1>2. ASSUME NEW p \in Posters, PostLater(p) \/ ClientStep(p) PROVE PlacesState'
  <2>1. UNCHANGED pc
    BY <1>2 DEF PostLater, ClientStep, vars
  <2>2. CASE Sched!ReadClock(p) \/ Sched!Insert(p)
    BY <1>p, <2>1, <2>2 DEF Sched!ReadClock, Sched!Insert, PlacesState, Sched!serviceVars
  <2>3. CASE Sched!Notify(p)
    BY <1>p, <2>1, <2>3 DEF Sched!Notify, Sched!NotifyOne, PlacesState
  <2> QED  BY <1>2, <2>2, <2>3 DEF PostLater, ClientStep
<1>3. CASE ServiceTurn
  <2>1. CASE (Sched!Exit \/ Sched!Turn \/ Sched!AfterWait \/ Sched!WaitEnds)
               /\ UNCHANGED vars
    BY <1>3, <1>p, <2>1
       DEF ServiceTurn, Sched!Exit, Sched!Turn, Sched!AfterWait, Sched!WaitEnds,
           Sched!WaitUntil, Sched!Collect, Sched!clientVars, PlacesState, vars
  <2>2. CASE Sched!PushTasks /\ Enqueue(Service, batch)
    <3>1. /\ servicePc = "pushing" /\ servicePc' = "loop"
          /\ UNCHANGED <<serviceExit, clientPc, dtorPc>>
      BY <2>2 DEF Sched!PushTasks, Sched!clientVars
    <3>2. \A th \in (Clients \cup {Dtor}) \ {Service} : pc[th] = "idle" => pc'[th] = "idle"
      BY <1>p, <2>2, IdleStay
    <3> QED  BY <1>p, <3>1, <3>2 DEF PlacesState
  <2> QED  BY <1>3, <2>1, <2>2 DEF ServiceTurn
<1>4. ASSUME \/ \E c \in Clients : NotifyPool(c)
             \/ \E w \in Workers : WorkerTurn(w)
             \/ \E th \in Workers \cup {Dtor} : WaitTurn(th)
             \/ DtorContinue /\ UNCHANGED schedVars
      PROVE  PlacesState'
  <2>1. UNCHANGED schedVars
    BY <1>4 DEF NotifyPool, WaitTurn, WorkerTurn
  <2>2. \A th \in Clients \cup {Dtor} : pc[th] = "idle" => pc'[th] = "idle"
    BY <1>4, <1>p, IdleStay DEF NotifyPool, WaitTurn, WorkerTurn
  <2> QED  BY <1>p, <1>s, <2>1, <2>2
<1>5. CASE DestroyPool
  <2>1. UNCHANGED schedVars /\ dtorPc = "destroyed" /\ Destroy
    BY <1>5 DEF DestroyPool
  <2>2. \A th \in Clients : pc[th] = "idle" => pc'[th] = "idle"
    BY <1>p, <2>1, IdleStay
  <2> QED  BY <1>p, <1>s, <2>1, <2>2
<1>6. ASSUME \/ Sched!SpuriousWakeup /\ UNCHANGED vars
             \/ Sched!Tick /\ UNCHANGED vars
             \/ Sched!DtorStep /\ UNCHANGED vars
             \/ DestroyService
      PROVE  PlacesState'
  BY <1>6, <1>p
     DEF Sched!SpuriousWakeup, Sched!Tick, Sched!DtorStep, Sched!NotifyExit, Sched!Join,
         Sched!NotifyOne, DestroyService, Sched!Destroy, PlacesState, Sched!clientVars,
         Sched!serviceVars, vars
<1>7. CASE UNCHANGED poolVars
  BY <1>7, <1>p DEF poolVars, vars, schedVars, PlacesState
<1> QED
  BY <1>1, <1>2, <1>3, <1>4, <1>5, <1>6, <1>7 DEF PoolNext, DestructorTurn

-----------------------------------------------------------------------------
(* The way of a task.                                                      *)

WayState == Sched!TypeInv /\ CallState /\ HeapState /\ TransitState /\ OrderState

LEMMA RangeOfConcat ==
  ASSUME NEW S, NEW s \in Seq(S), NEW r \in Seq(S)
  PROVE  Range(s \o r) = Range(s) \cup Range(r)
<1>1. /\ Len(s) \in Nat /\ Len(r) \in Nat /\ DOMAIN s = 1..Len(s) /\ DOMAIN r = 1..Len(r)
      /\ Len(s \o r) = Len(s) + Len(r) /\ DOMAIN (s \o r) = 1..(Len(s) + Len(r))
  OBVIOUS
<1>2. \A i \in 1..Len(s) : (s \o r)[i] = s[i] /\ i \in DOMAIN (s \o r)
  BY <1>1
<1>3. \A i \in 1..Len(r) : (s \o r)[Len(s) + i] = r[i] /\ Len(s) + i \in DOMAIN (s \o r)
  BY <1>1
<1>4. ASSUME NEW i \in DOMAIN (s \o r) PROVE (s \o r)[i] \in Range(s) \cup Range(r)
  <2>1. CASE i \in 1..Len(s)
    BY <1>1, <1>2, <2>1 DEF Range
  <2>2. CASE i \notin 1..Len(s)
    <3>1. i - Len(s) \in 1..Len(r) /\ i = Len(s) + (i - Len(s))
      BY <1>1, <1>4, <2>2
    <3> QED  BY <1>1, <1>3, <3>1 DEF Range
  <2> QED  BY <2>1, <2>2
<1>5. Range(s) \cup Range(r) \subseteq Range(s \o r)
  BY <1>1, <1>2, <1>3 DEF Range
<1>6. Range(s \o r) \subseteq Range(s) \cup Range(r)
  BY <1>4 DEF Range
<1> QED  BY <1>5, <1>6

\* What was posted stays where it is, and what is posted comes behind it.
LEMMA PostedGrows ==
  ASSUME PoolState, NEW r \in Seq(Tasks), posted' = posted \o r
  PROVE  /\ Range(posted') = Range(posted) \cup Range(r)
         /\ Len(posted) \in Nat /\ DOMAIN posted = 1..Len(posted)
         /\ Len(r) \in Nat /\ DOMAIN r = 1..Len(r)
         /\ DOMAIN posted' = 1..(Len(posted) + Len(r))
         /\ \A k \in DOMAIN posted : posted'[k] = posted[k]
         /\ \A k \in DOMAIN r : posted'[Len(posted) + k] = r[k]
<1>1. posted \in Seq(Tasks)
  BY DEF PoolState, TypeInv
<1>2. Range(posted') = Range(posted) \cup Range(r)
  BY <1>1, RangeOfConcat
<1>3. /\ Len(posted) \in Nat /\ DOMAIN posted = 1..Len(posted)
      /\ Len(r) \in Nat /\ DOMAIN r = 1..Len(r)
      /\ DOMAIN posted' = 1..(Len(posted) + Len(r))
  BY <1>1
<1>4. /\ \A k \in 1..Len(posted) : posted'[k] = posted[k]
      /\ \A k \in 1..Len(r) : posted'[Len(posted) + k] = r[k]
  BY <1>1
<1> QED  BY <1>2, <1>3, <1>4

LEMMA PushedTasks ==
  ASSUME Sched!TypeInv
  PROVE  /\ Len(pushed) \in Nat /\ DOMAIN pushed = 1..Len(pushed)
         /\ \A i \in DOMAIN pushed :
               /\ pushed[i] \in Sched!Push /\ pushed[i].task \in Delayed
               /\ pushed[i].timePoint \in 0..MaxTime /\ pushed[i].task \in Pushed
         /\ Pushed \subseteq Delayed
<1>1. pushed \in Seq(Sched!Push)
  BY DEF Sched!TypeInv
<1>2. Len(pushed) \in Nat /\ DOMAIN pushed = 1..Len(pushed)
  BY <1>1
<1>3. \A i \in DOMAIN pushed : pushed[i] \in Sched!Push
  BY <1>1
<1> QED  BY <1>2, <1>3 DEF Sched!Push, Pushed

\* Nothing of the service depends on the rest of the pool, and a task that was
\* posted without a delay is none of the tasks that were posted with one.
LEMMA PoolKeepsWay ==
  ASSUME PoolState, WayState, UNCHANGED schedVars,
         UNCHANGED posted \/ \E t \in Immediate : posted' = posted \o <<t>>
  PROVE  WayState'
<1>1. Sched!TypeInv' /\ CallState' /\ HeapState'
  BY DEF WayState, schedVars, Sched!TypeInv, CallState, HeapState, Pushed
<1>2. CASE UNCHANGED posted
  BY <1>1, <1>2 DEF WayState, schedVars, TransitState, OrderState, HandedOver, Pushed
<1>3. ASSUME NEW t \in Immediate, posted' = posted \o <<t>>
      PROVE  TransitState' /\ OrderState'
  <2>1. /\ posted \in Seq(Tasks) /\ <<t>> \in Seq(Tasks) /\ t \notin Delayed
        /\ Len(<<t>>) = 1 /\ <<t>>[1] = t /\ Range(<<t>>) = {t}
    BY DEF PoolState, TypeInv, Immediate, Range
  <2>2. /\ Range(posted') = Range(posted) \cup {t} /\ Len(posted) \in Nat
        /\ DOMAIN posted = 1..Len(posted) /\ DOMAIN posted' = 1..(Len(posted) + 1)
        /\ \A k \in DOMAIN posted : posted'[k] = posted[k]
        /\ posted'[Len(posted) + 1] = t
    <3>1. PICK r \in Seq(Tasks) : r = <<t>> /\ posted' = posted \o r
      BY <1>3, <2>1
    <3>2. /\ Range(posted') = Range(posted) \cup Range(r)
          /\ Len(posted) \in Nat /\ DOMAIN posted = 1..Len(posted)
          /\ DOMAIN posted' = 1..(Len(posted) + Len(r)) /\ DOMAIN r = 1..Len(r)
          /\ \A k \in DOMAIN posted : posted'[k] = posted[k]
          /\ \A k \in DOMAIN r : posted'[Len(posted) + k] = r[k]
      BY <3>1, PostedGrows
    <3>3. Len(r) = 1 /\ r[1] = t /\ Range(r) = {t} /\ 1 \in 1..1
      BY <2>1, <3>1
    <3> QED  BY <3>2, <3>3
  <2>3. \A x \in Delayed : /\ HandedOver(x) <=> HandedOver(x)'
                           /\ x \in Range(posted) <=> x \in Range(posted')
    BY <2>1, <2>2 DEF HandedOver, schedVars
  <2>4. \A i \in DOMAIN pushed : pushed[i].task \in Delayed
    BY PushedTasks DEF WayState
  <2>5. \A x \in delayed : x.task \in Delayed
    BY DEF WayState, Sched!TypeInv, Sched!Item
  <2>6. \A k \in DOMAIN batch : batch[k] \in Delayed
    BY DEF WayState, Sched!TypeInv
  <2>7. TransitState'
    BY <2>1, <2>2, <2>3, <2>4, <2>5, <2>6 DEF WayState, TransitState, schedVars, Pushed
  <2>8. OrderState'
    <3> SUFFICES ASSUME NEW i \in DOMAIN pushed
                 PROVE  /\ HandedOver(pushed[i].task)' => pushed[i].timePoint <= clock
                        /\ \A j \in 1..(i - 1) : pushed[j].timePoint <= pushed[i].timePoint =>
                             /\ \A k \in DOMAIN posted' : posted'[k] = pushed[i].task =>
                                  \E l \in 1..(k - 1) : posted'[l] = pushed[j].task
                             /\ \A k \in DOMAIN batch : batch[k] = pushed[i].task =>
                                  \/ pushed[j].task \in Range(posted')
                                  \/ \E l \in 1..(k - 1) : batch[l] = pushed[j].task
      BY DEF OrderState, schedVars, HandedOver
    <3>1. HandedOver(pushed[i].task)' => pushed[i].timePoint <= clock
      BY <2>3, <2>4 DEF WayState, OrderState, schedVars, HandedOver
    <3>2. ASSUME NEW j \in 1..(i - 1), pushed[j].timePoint <= pushed[i].timePoint,
                 NEW k \in DOMAIN posted', posted'[k] = pushed[i].task
          PROVE  \E l \in 1..(k - 1) : posted'[l] = pushed[j].task
      <4>1. k \in DOMAIN posted /\ posted[k] = pushed[i].task
        BY <2>1, <2>2, <2>4, <3>2
      <4>2. PICK l \in 1..(k - 1) : posted[l] = pushed[j].task
        BY <3>2, <4>1 DEF WayState, OrderState
      <4> QED  BY <2>2, <4>1, <4>2
    <3>3. ASSUME NEW j \in 1..(i - 1), pushed[j].timePoint <= pushed[i].timePoint,
                 NEW k \in DOMAIN batch, batch[k] = pushed[i].task
          PROVE  \/ pushed[j].task \in Range(posted')
                 \/ \E l \in 1..(k - 1) : batch[l] = pushed[j].task
      BY <2>2, <3>3 DEF WayState, OrderState
    <3> QED  BY <3>1, <3>2, <3>3
  <2> QED  BY <2>7, <2>8
<1> QED  BY <1>1, <1>2, <1>3 DEF WayState

\* A call reads the clock and takes a task that nobody has posted.
LEMMA ReadClockKeeps ==
  ASSUME WayState, NEW p \in Posters, Sched!ReadClock(p), UNCHANGED posted
  PROVE  WayState'
<1>1. PICK t \in Sched!Unpushed :
        /\ clock + Delay[t] <= MaxTime
        /\ call' = [call EXCEPT ![p] = [task |-> t, timePoint |-> clock + Delay[t]]]
  BY DEF Sched!ReadClock
<1>2. /\ clientPc[p] = "idle" /\ clientPc' = [clientPc EXCEPT ![p] = "insert"]
      /\ UNCHANGED <<clock, delayed, taskId, serviceExit, servicePc, deadline, batch,
                     dtorPc, pushed>>
  BY DEF Sched!ReadClock, Sched!serviceVars
<1>3. t \in Delayed /\ t \notin Pushed /\ \A r \in Posters : call[r].task # t
  BY DEF Sched!Unpushed, Pushed
<1>4. [task |-> t, timePoint |-> clock + Delay[t]] \in Sched!Push
  BY <1>1, <1>3, SchedAssumption
     DEF WayState, Sched!TypeInv, Sched!Push, Sched!ServiceAssumption
<1>5. /\ call \in [Posters -> Sched!Push \cup {Sched!NoCall}]
      /\ clientPc \in [Posters -> {"idle", "insert", "notify"}]
  BY DEF WayState, Sched!TypeInv
<1>6. Sched!TypeInv'
  BY <1>1, <1>2, <1>4, <1>5 DEF WayState, Sched!TypeInv
<1>7. CallState'
  BY <1>1, <1>2, <1>3, <1>4, <1>5 DEF WayState, CallState, Pushed
<1>8. HeapState' /\ TransitState' /\ OrderState'
  BY <1>2 DEF WayState, HeapState, TransitState, OrderState, HandedOver, Pushed
<1> QED  BY <1>6, <1>7, <1>8 DEF WayState

\* The item gets the next task_id_, which is the place of the call in the history.
LEMMA InsertKeeps ==
  ASSUME PoolState, WayState, NEW p \in Posters, Sched!Insert(p), UNCHANGED posted
  PROVE  WayState'
<1> DEFINE t == call[p].task
           x == [task |-> t, timePoint |-> call[p].timePoint, taskId |-> taskId]
<1>1. /\ clientPc[p] = "insert" /\ clientPc' = [clientPc EXCEPT ![p] = "notify"]
      /\ delayed' = delayed \cup {x} /\ taskId' = taskId + 1
      /\ pushed' = Append(pushed, call[p])
      /\ call' = [call EXCEPT ![p] = Sched!NoCall]
      /\ UNCHANGED <<clock, serviceExit, servicePc, deadline, batch, dtorPc>>
  BY DEF Sched!Insert, Sched!serviceVars
<1>2. /\ call \in [Posters -> Sched!Push \cup {Sched!NoCall}]
      /\ clientPc \in [Posters -> {"idle", "insert", "notify"}]
      /\ pushed \in Seq(Sched!Push) /\ taskId = Len(pushed) /\ taskId \in Nat
  BY DEF WayState, Sched!TypeInv, HeapState
<1>3. /\ call[p] \in Sched!Push /\ t \in Delayed /\ t \notin Pushed
      /\ ~HandedOver(t)
  <2>1. call[p] \in Sched!Push /\ t \notin Pushed
    BY <1>1 DEF WayState, CallState
  <2>2. t \in Delayed
    BY <2>1 DEF Sched!Push
  <2>3. t \notin Range(batch)
    BY <2>1 DEF WayState, TransitState, Range
  <2> QED  BY <2>1, <2>2, <2>3 DEF WayState, TransitState, HandedOver
<1>4. /\ Len(pushed) \in Nat /\ DOMAIN pushed = 1..Len(pushed)
      /\ Len(pushed') = Len(pushed) + 1 /\ DOMAIN pushed' = 1..(Len(pushed) + 1)
      /\ \A i \in DOMAIN pushed : pushed'[i] = pushed[i]
      /\ pushed'[Len(pushed) + 1] = call[p]
  BY <1>1, <1>2
<1>5. Pushed' = Pushed \cup {t}
  <2>1. ASSUME NEW i \in DOMAIN pushed' PROVE pushed'[i].task \in Pushed \cup {t}
    BY <1>4, <2>1 DEF Pushed
  <2>2. /\ \A i \in DOMAIN pushed : i \in DOMAIN pushed' /\ pushed'[i].task = pushed[i].task
        /\ Len(pushed) + 1 \in DOMAIN pushed' /\ pushed'[Len(pushed) + 1].task = t
    BY <1>4
  <2> QED  BY <2>1, <2>2 DEF Pushed
<1>6. x \in Sched!Item /\ x.task = t /\ x.timePoint = call[p].timePoint /\ x.taskId = taskId
  BY <1>2, <1>3 DEF Sched!Item, Sched!Push
<1>7. call[p] = [task |-> x.task, timePoint |-> x.timePoint]
  BY <1>3, <1>6 DEF Sched!Push
<1> HIDE DEF x
<1>8. Sched!TypeInv'
  BY <1>1, <1>2, <1>3, <1>6 DEF WayState, Sched!TypeInv
<1>9. CallState'
  <2>1. ASSUME NEW r \in Posters \ {p} PROVE call[r].task # t
    BY <1>3, <2>1, SchedAssumption
       DEF WayState, CallState, Sched!NoCall, Sched!Push, Sched!ServiceAssumption
  <2>2. /\ call'[p] = Sched!NoCall /\ clientPc'[p] = "notify"
        /\ \A r \in Posters \ {p} : call'[r] = call[r] /\ clientPc'[r] = clientPc[r]
    BY <1>1, <1>2
  <2>3. ASSUME NEW r \in Posters \ {p}, call[r].task = Sched!NoCall.task
        PROVE  call[r] = Sched!NoCall
    BY <1>2, <2>3, SchedAssumption DEF Sched!NoCall, Sched!Push, Sched!ServiceAssumption
  <2> QED
    BY <1>5, <2>1, <2>2, <2>3 DEF WayState, CallState
<1>10. HeapState'
  <2>1. IsFiniteSet(delayed')
    BY <1>1, FS_AddElement DEF WayState, HeapState
  <2>2. ASSUME NEW y \in delayed'
        PROVE  /\ y.taskId + 1 \in DOMAIN pushed'
               /\ pushed'[y.taskId + 1] = [task |-> y.task, timePoint |-> y.timePoint]
    <3>1. CASE y \in delayed
      <4>1. /\ y.taskId + 1 \in DOMAIN pushed
            /\ pushed[y.taskId + 1] = [task |-> y.task, timePoint |-> y.timePoint]
        BY <3>1 DEF WayState, HeapState
      <4> QED  BY <1>4, <4>1
    <3>2. CASE y = x
      BY <1>2, <1>4, <1>6, <1>7, <3>2
    <3> QED  BY <1>1, <2>2, <3>1, <3>2
  <2>3. ASSUME NEW i \in DOMAIN pushed', NEW j \in DOMAIN pushed',
               pushed'[i].task = pushed'[j].task
        PROVE  i = j
    <3>1. \A k \in DOMAIN pushed : pushed'[k].task # t
      BY <1>3, <1>4 DEF Pushed
    <3>2. i \in DOMAIN pushed \/ i = Len(pushed) + 1
      BY <1>4
    <3>3. j \in DOMAIN pushed \/ j = Len(pushed) + 1
      BY <1>4
    <3> QED  BY <1>4, <2>3, <3>1, <3>2, <3>3 DEF WayState, HeapState
  <2> QED  BY <1>1, <1>2, <1>4, <2>1, <2>2, <2>3 DEF HeapState
<1>11. TransitState'
  <2>1. ASSUME NEW i \in DOMAIN pushed'
        PROVE  HandedOver(pushed'[i].task) \/ \E y \in delayed' : y.taskId + 1 = i
    <3>1. CASE i \in DOMAIN pushed
      BY <1>1, <1>4, <3>1 DEF WayState, TransitState
    <3>2. CASE i = Len(pushed) + 1
      BY <1>1, <1>2, <1>6, <3>2
    <3> QED  BY <1>4, <3>1, <3>2
  <2>2. \A y \in delayed' : ~HandedOver(y.task)
    BY <1>1, <1>3, <1>6 DEF WayState, TransitState
  <2>3. /\ \A k \in DOMAIN batch' : batch'[k] \in Pushed' \ Range(posted')
        /\ IsInjective(batch')
        /\ batch' # <<>> <=> servicePc' = "pushing"
        /\ Range(posted') \cap Delayed \subseteq Pushed'
    BY <1>1, <1>5 DEF WayState, TransitState
  <2> QED  BY <1>1, <2>1, <2>2, <2>3 DEF TransitState, HandedOver
<1>12. OrderState'
  <2>1. \A k \in DOMAIN posted : posted[k] # t
    BY <1>3 DEF HandedOver, Range
  <2>2. \A k \in DOMAIN batch : batch[k] # t
    BY <1>3 DEF HandedOver, Range
  <2>0. UNCHANGED <<posted, batch, clock>>
    BY <1>1
  <2> SUFFICES ASSUME NEW i \in DOMAIN pushed'
               PROVE  /\ HandedOver(pushed'[i].task) => pushed'[i].timePoint <= clock
                      /\ \A j \in 1..(i - 1) : pushed'[j].timePoint <= pushed'[i].timePoint =>
                           /\ \A k \in DOMAIN posted : posted[k] = pushed'[i].task =>
                                \E l \in 1..(k - 1) : posted[l] = pushed'[j].task
                           /\ \A k \in DOMAIN batch : batch[k] = pushed'[i].task =>
                                \/ pushed'[j].task \in Range(posted)
                                \/ \E l \in 1..(k - 1) : batch[l] = pushed'[j].task
    BY <2>0 DEF OrderState, HandedOver
  <2>3. CASE i \in DOMAIN pushed
    <3>1. pushed'[i] = pushed[i] /\ \A j \in 1..(i - 1) : pushed'[j] = pushed[j]
      BY <1>4, <2>3
    <3> QED  BY <2>3, <3>1 DEF WayState, OrderState
  <2>4. CASE i = Len(pushed) + 1
    BY <1>3, <1>4, <2>1, <2>2, <2>4
  <2> QED  BY <1>4, <2>3, <2>4
<1> QED  BY <1>8, <1>9, <1>10, <1>11, <1>12 DEF WayState

\* No two items of the heap are of the same task.
LEMMA ItemOfTask ==
  ASSUME WayState, NEW x \in delayed
  PROVE  /\ x \in Sched!Item /\ x.taskId \in Nat /\ x.task \in Delayed
         /\ x.timePoint \in 0..MaxTime
         /\ x.taskId + 1 \in DOMAIN pushed
         /\ pushed[x.taskId + 1].task = x.task
         /\ pushed[x.taskId + 1].timePoint = x.timePoint
         /\ x.task \in Pushed
         /\ \A i \in DOMAIN pushed : pushed[i].task = x.task => i = x.taskId + 1
         /\ \A y \in delayed : y.task = x.task => y = x
<1>1. \A y \in delayed : y \in Sched!Item
  BY DEF WayState, Sched!TypeInv
<1>2. ASSUME NEW y \in delayed
      PROVE  /\ y.taskId + 1 \in DOMAIN pushed
             /\ pushed[y.taskId + 1].task = y.task
             /\ pushed[y.taskId + 1].timePoint = y.timePoint
  <2>1. /\ y.taskId + 1 \in DOMAIN pushed
        /\ pushed[y.taskId + 1] = [task |-> y.task, timePoint |-> y.timePoint]
    BY DEF WayState, HeapState
  <2> QED  BY <2>1
<1>3. x.task \in Pushed
  BY <1>2 DEF Pushed
<1>4. \A i \in DOMAIN pushed : pushed[i].task = x.task => i = x.taskId + 1
  BY <1>2 DEF WayState, HeapState
<1>5. ASSUME NEW y \in delayed, y.task = x.task PROVE y = x
  <2>1. y.taskId + 1 = x.taskId + 1 /\ y.taskId \in Nat /\ x.taskId \in Nat
    BY <1>1, <1>2, <1>4, <1>5 DEF Sched!Item
  <2>2. y.taskId = x.taskId /\ y.timePoint = x.timePoint
    BY <1>2, <2>1
  <2> QED  BY <1>1, <1>5, <2>2 DEF Sched!Item
<1> QED  BY <1>1, <1>2, <1>3, <1>4, <1>5 DEF Sched!Item

\* Whatever order a heap gives its items away in, it gives away each once.
LEMMA PopsAll ==
  ASSUME NEW S, IsFiniteSet(S), NEW q \in Sched!PopOrders(S)
  PROVE  /\ q \in Seq(S) /\ Len(q) \in Nat /\ DOMAIN q = 1..Len(q)
         /\ \A x \in S : \E i \in DOMAIN q : q[i] = x
         /\ \A i, j \in DOMAIN q : q[i] = q[j] => i = j
         /\ \A i, j \in DOMAIN q : Sched!Before(q[j], q[i]) => j <= i
         /\ S = {} <=> Len(q) = 0
<1>1. Cardinality(S) \in Nat
  BY FS_CardinalityType
<1>2. q \in [1..Cardinality(S) -> S] /\ DOMAIN q = 1..Cardinality(S)
  <2>1. Sched!Cardinality(S) = Cardinality(S)
    BY DEF Sched!Cardinality, Cardinality
  <2> QED  BY <2>1 DEF Sched!PopOrders
<1>3. ASSUME NEW i \in DOMAIN q, NEW j \in DOMAIN q, q[i] = q[j] PROVE i = j
  <2>1. ~(i < j) /\ ~(j < i)
    BY <1>3 DEF Sched!PopOrders
  <2> QED  BY <1>1, <1>2, <2>1
<1>4. ASSUME NEW i \in DOMAIN q, NEW j \in DOMAIN q, Sched!Before(q[j], q[i]) PROVE j <= i
  <2>1. ~(i < j)
    BY <1>4 DEF Sched!PopOrders
  <2> QED  BY <1>1, <1>2, <2>1
<1>5. q \in Injection(1..Cardinality(S), S)
  BY <1>2, <1>3 DEF Injection, IsInjective
<1>6. Cardinality(1..Cardinality(S)) = Cardinality(S)
  BY <1>1, FS_Interval
<1>7. q \in Surjection(1..Cardinality(S), S)
  BY <1>5, <1>6, FS_Injection
<1>8. \A x \in S : \E i \in DOMAIN q : q[i] = x
  BY <1>2, <1>7 DEF Surjection
<1>9. q \in Seq(S) /\ Len(q) = Cardinality(S)
  BY <1>1, <1>2
<1>10. S = {} <=> Cardinality(S) = 0
  BY FS_EmptySet
<1> QED
  BY <1>1, <1>2, <1>3, <1>4, <1>8, <1>9, <1>10

\* The service thread takes from the heap what is due, in the order of the heap.
LEMMA CollectKeeps ==
  ASSUME WayState, servicePc # "pushing", Sched!Collect,
         UNCHANGED <<posted, clock, taskId, serviceExit, clientPc, call, dtorPc, pushed>>
  PROVE  WayState'
<1> DEFINE due == Sched!Due(delayed, clock)
<1>1. PICK q \in Sched!PopOrders(due) : batch' = [k \in DOMAIN q |-> q[k].task]
  BY DEF Sched!Collect
<1>2. /\ delayed' = delayed \ due /\ UNCHANGED deadline
      /\ servicePc' = IF due = {} THEN "loop" ELSE "pushing"
  BY DEF Sched!Collect
<1>3. /\ due \subseteq delayed /\ \A x \in due : x.timePoint <= clock
      /\ \A x \in delayed \ due : ~(x.timePoint <= clock)
  BY DEF Sched!Due
<1>4. IsFiniteSet(due)
  BY <1>3, FS_Subset DEF WayState, HeapState
<1> HIDE DEF due
<1>5. /\ q \in Seq(due) /\ Len(q) \in Nat /\ DOMAIN q = 1..Len(q)
      /\ \A x \in due : \E k \in DOMAIN q : q[k] = x
      /\ \A k, l \in DOMAIN q : q[k] = q[l] => k = l
      /\ \A k, l \in DOMAIN q : Sched!Before(q[l], q[k]) => l <= k
      /\ due = {} <=> Len(q) = 0
  BY <1>4, PopsAll
<1>6. /\ DOMAIN batch' = DOMAIN q
      /\ \A k \in DOMAIN q : q[k] \in due /\ q[k] \in delayed /\ batch'[k] = q[k].task
  BY <1>1, <1>3, <1>5
<1>7. batch = <<>> /\ Range(batch) = {}
  BY DEF WayState, TransitState, Range
<1>8. \A x \in delayed :
        /\ x \in Sched!Item /\ x.taskId \in Nat /\ x.task \in Delayed
        /\ x.timePoint \in 0..MaxTime /\ x.taskId + 1 \in DOMAIN pushed
        /\ pushed[x.taskId + 1].task = x.task
        /\ pushed[x.taskId + 1].timePoint = x.timePoint /\ x.task \in Pushed
        /\ \A i \in DOMAIN pushed : pushed[i].task = x.task => i = x.taskId + 1
        /\ \A y \in delayed : y.task = x.task => y = x
  BY ItemOfTask
<1>9. \A y : y \in Range(batch') <=> \E x \in due : x.task = y
  BY <1>5, <1>6 DEF Range
<1>10. \A x \in delayed : x.task \notin Range(posted)
  BY DEF WayState, TransitState, HandedOver
<1>11. Sched!TypeInv'
  <2>1. \A k \in 1..Len(q) : batch'[k] \in Delayed
    BY <1>5, <1>6, <1>8
  <2>2. batch' = [k \in 1..Len(q) |-> batch'[k]]
    BY <1>1, <1>5
  <2>3. batch' \in Seq(Delayed)
    BY <1>5, <2>1, <2>2
  <2>4. servicePc' \in {"loop", "waiting", "woken", "pushing", "exited"}
    BY <1>2
  <2> QED  BY <1>2, <2>3, <2>4 DEF WayState, Sched!TypeInv
<1>12. CallState'
  BY DEF WayState, CallState, Pushed
<1>13. HeapState'
  <2>1. IsFiniteSet(delayed')
    BY <1>2, FS_Subset DEF WayState, HeapState
  <2> QED  BY <1>2, <2>1 DEF WayState, HeapState
<1>14. TransitState'
  <2>1. ASSUME NEW i \in DOMAIN pushed
        PROVE  \/ pushed[i].task \in Range(batch') \cup Range(posted)
               \/ \E x \in delayed' : x.taskId + 1 = i
    <3>1. CASE \E x \in delayed : x.taskId + 1 = i
      BY <1>2, <1>8, <1>9, <3>1
    <3> QED  BY <1>7, <3>1 DEF WayState, TransitState, HandedOver
  <2>2. ASSUME NEW x \in delayed' PROVE x.task \notin Range(batch') \cup Range(posted)
    BY <1>2, <1>3, <1>8, <1>9, <1>10
  <2>3. \A k \in DOMAIN batch' : batch'[k] \in Pushed \ Range(posted)
    BY <1>6, <1>8, <1>10
  <2>4. IsInjective(batch')
    <3>1. ASSUME NEW k \in DOMAIN q, NEW l \in DOMAIN q, batch'[k] = batch'[l]
          PROVE  k = l
      <4>1. q[k] \in delayed /\ q[l] \in delayed /\ q[k].task = q[l].task
        BY <1>6, <3>1
      <4> QED  BY <1>5, <1>8, <4>1
    <3> QED  BY <1>6, <3>1 DEF IsInjective
  <2>5. batch' # <<>> <=> servicePc' = "pushing"
    <3>1. batch' = <<>> <=> DOMAIN batch' = {}
      BY <1>1
    <3> QED  BY <1>2, <1>5, <1>6, <3>1
  <2> QED
    BY <2>1, <2>2, <2>3, <2>4, <2>5 DEF WayState, TransitState, HandedOver, Pushed
<1>15. OrderState'
  <2> SUFFICES ASSUME NEW i \in DOMAIN pushed
               PROVE  /\ pushed[i].task \in Range(batch') \cup Range(posted)
                           => pushed[i].timePoint <= clock
                      /\ \A j \in 1..(i - 1) : pushed[j].timePoint <= pushed[i].timePoint =>
                           /\ \A k \in DOMAIN posted : posted[k] = pushed[i].task =>
                                \E l \in 1..(k - 1) : posted[l] = pushed[j].task
                           /\ \A k \in DOMAIN batch' : batch'[k] = pushed[i].task =>
                                \/ pushed[j].task \in Range(posted)
                                \/ \E l \in 1..(k - 1) : batch'[l] = pushed[j].task
    BY DEF OrderState, HandedOver
  <2>1. ASSUME pushed[i].task \in Range(batch') \cup Range(posted)
        PROVE  pushed[i].timePoint <= clock
    <3>1. CASE pushed[i].task \in Range(posted)
      BY <3>1 DEF WayState, OrderState, HandedOver
    <3>2. ASSUME NEW x \in due, x.task = pushed[i].task PROVE pushed[i].timePoint <= clock
      BY <1>3, <1>8, <3>2
    <3> QED  BY <1>9, <2>1, <3>1, <3>2
  <2>2. ASSUME NEW j \in 1..(i - 1), pushed[j].timePoint <= pushed[i].timePoint,
               NEW k \in DOMAIN batch', batch'[k] = pushed[i].task
        PROVE  \/ pushed[j].task \in Range(posted)
               \/ \E l \in 1..(k - 1) : batch'[l] = pushed[j].task
    <3>1. /\ DOMAIN pushed = 1..Len(pushed) /\ Len(pushed) \in Nat /\ j \in DOMAIN pushed
          /\ pushed[j].timePoint \in 0..MaxTime
      BY <2>2, PushedTasks DEF WayState
    <3>2. CASE pushed[j].task \in Range(posted)
      BY <3>2
    <3>3. ASSUME NEW y \in delayed, y.taskId + 1 = j
          PROVE  \E l \in 1..(k - 1) : batch'[l] = pushed[j].task
      <4>1. /\ q[k] \in due /\ q[k].taskId + 1 = i /\ q[k].timePoint = pushed[i].timePoint
            /\ q[k].taskId \in Nat /\ y.taskId \in Nat /\ q[k].timePoint <= clock
            /\ q[k].timePoint \in 0..MaxTime /\ y.timePoint = pushed[j].timePoint
            /\ y.task = pushed[j].task
        BY <1>3, <1>6, <1>8, <2>2, <3>3
      <4>2. y.timePoint <= clock
        <5>1. clock \in 0..MaxTime /\ MaxTime \in Nat
          BY SchedAssumption DEF WayState, Sched!TypeInv, Sched!ServiceAssumption
        <5> QED  BY <2>2, <3>1, <4>1, <5>1
      <4>3. PICK l \in DOMAIN q : q[l] = y
        BY <1>3, <1>5, <3>3, <4>2
      <4>4. y.taskId < q[k].taskId
        BY <3>1, <3>3, <4>1
      <4>5. Sched!Before(q[l], q[k])
        BY <2>2, <3>1, <4>1, <4>3, <4>4, SchedAssumption
           DEF Sched!Before, Sched!ServiceAssumption
      <4>6. l <= k /\ l # k /\ l \in Nat /\ k \in Nat /\ l >= 1
        BY <1>5, <1>6, <4>1, <4>3, <4>4, <4>5
      <4> QED  BY <1>6, <4>1, <4>3, <4>6
    <3> QED  BY <1>7, <3>1, <3>2, <3>3 DEF WayState, TransitState, HandedOver
  <2> QED  BY <2>1, <2>2 DEF WayState, OrderState
<1> QED  BY <1>11, <1>12, <1>13, <1>14, <1>15 DEF WayState

LEMMA LeastNumber ==
  ASSUME NEW S \in SUBSET Nat, S # {}
  PROVE  \E m \in S : \A n \in S : m <= n
<1>1. PICK m \in S : \A n \in S : <<n, m>> \notin OpToRel(<, Nat)
  BY WFMin, NatLessThanWellFounded
<1>2. \A n \in S : ~(n < m)
  BY <1>1 DEF OpToRel
<1> QED  BY <1>2

\* The front of the heap is one of its items, and none is due before it.
LEMMA FrontIsItem ==
  ASSUME WayState, delayed # {}
  PROVE  /\ Sched!Front(delayed) \in delayed
         /\ \A y \in delayed : Sched!Front(delayed).timePoint <= y.timePoint
<1> DEFINE times == {x.timePoint : x \in delayed}
<1>1. \A x \in delayed : x.timePoint \in Nat /\ x.taskId \in Nat
  BY ItemOfTask, SchedAssumption DEF Sched!ServiceAssumption
<1>2. PICK m \in times : \A n \in times : m <= n
  BY <1>1, LeastNumber
<1> DEFINE ids == {x.taskId : x \in {y \in delayed : y.timePoint = m}}
<1>3. PICK k \in ids : \A n \in ids : k <= n
  BY <1>1, LeastNumber
<1>4. PICK x \in delayed : x.timePoint = m /\ x.taskId = k
  OBVIOUS
<1>5. ASSUME NEW y \in delayed, Sched!Before(y, x) PROVE FALSE
  <2>1. x.timePoint <= y.timePoint /\ x.timePoint \in Nat /\ y.timePoint \in Nat
    BY <1>1, <1>2, <1>4
  <2>2. y.timePoint = x.timePoint => x.taskId <= y.taskId
    BY <1>3, <1>4
  <2>3. x.taskId \in Nat /\ y.taskId \in Nat
    BY <1>1
  <2> QED  BY <1>5, <2>1, <2>2, <2>3 DEF Sched!Before
<1>6. \A y \in delayed \ {x} : ~Sched!Before(y, x)
  BY <1>5
<1> DEFINE front == Sched!Front(delayed)
<1>7. front \in delayed /\ \A y \in delayed \ {front} : ~Sched!Before(y, front)
  BY <1>6 DEF Sched!Front
<1> HIDE DEF front
<1>8. \A y \in delayed : front.timePoint <= y.timePoint
  BY <1>1, <1>7 DEF Sched!Before
<1> QED  BY <1>7, <1>8 DEF front

\* Every other step of the service thread or of the destructor of the service
\* leaves the tasks where they are.
LEMMA ServiceKeepsWay ==
  ASSUME PoolState, WayState, UNCHANGED posted,
         \/ Sched!Exit \/ Sched!Turn \/ Sched!AfterWait \/ Sched!WaitEnds
         \/ Sched!SpuriousWakeup \/ Sched!Destroy \/ Sched!DtorStep \/ Sched!Tick
         \/ \E p \in Posters : Sched!Notify(p)
  PROVE  WayState'
<1>k. ASSUME UNCHANGED <<taskId, call, batch, delayed, pushed>>,
             /\ clock' \in 0..MaxTime /\ clock <= clock' /\ serviceExit' \in BOOLEAN
             /\ clientPc' \in [Posters -> {"idle", "insert", "notify"}]
             /\ servicePc' \in {"loop", "waiting", "woken", "pushing", "exited"}
             /\ deadline' \in 0..MaxTime \cup {Sched!Forever}
             /\ dtorPc' \in {"idle", "notify", "join", "destroyed"},
             \A p \in Posters : clientPc[p] = "insert" <=> clientPc'[p] = "insert",
             servicePc = "pushing" <=> servicePc' = "pushing"
      PROVE  WayState'
  <2>1. Sched!TypeInv'
    BY <1>k DEF WayState, Sched!TypeInv
  <2>2. CallState' /\ HeapState' /\ TransitState'
    BY <1>k DEF WayState, CallState, HeapState, TransitState, HandedOver, Pushed
  <2>3. OrderState'
    <3>1. \A i \in DOMAIN pushed : pushed[i].timePoint \in 0..MaxTime
      BY PushedTasks DEF WayState
    <3>2. clock \in 0..MaxTime /\ MaxTime \in Nat
      BY SchedAssumption DEF WayState, Sched!TypeInv, Sched!ServiceAssumption
    <3>3. \A i \in DOMAIN pushed :
             HandedOver(pushed[i].task) => pushed[i].timePoint <= clock'
      BY <1>k, <3>1, <3>2 DEF WayState, OrderState
    <3> QED  BY <1>k, <3>3 DEF WayState, OrderState, HandedOver
  <2> QED  BY <2>1, <2>2, <2>3 DEF WayState
<1>t. /\ clock \in 0..MaxTime /\ MaxTime \in Nat /\ delayed \subseteq Sched!Item
      /\ serviceExit \in BOOLEAN /\ clientPc \in [Posters -> {"idle", "insert", "notify"}]
      /\ servicePc \in {"loop", "waiting", "woken", "pushing", "exited"}
      /\ deadline \in 0..MaxTime \cup {Sched!Forever}
      /\ dtorPc \in {"idle", "notify", "join", "destroyed"}
  BY SchedAssumption DEF WayState, Sched!TypeInv, Sched!ServiceAssumption
<1>1. CASE Sched!Exit \/ Sched!WaitEnds \/ Sched!SpuriousWakeup
  BY <1>1, <1>k, <1>t
     DEF Sched!Exit, Sched!WaitEnds, Sched!SpuriousWakeup, Sched!clientVars
<1>2. CASE Sched!Destroy \/ Sched!DtorStep
  <2>1. CASE Sched!Destroy \/ Sched!Join
    <3>1. /\ UNCHANGED <<taskId, call, batch, delayed, pushed, clock, clientPc, servicePc,
                        deadline>>
          /\ serviceExit' \in BOOLEAN /\ dtorPc' \in {"idle", "notify", "join", "destroyed"}
      BY <2>1, <1>t DEF Sched!Destroy, Sched!Join, Sched!clientVars, Sched!serviceVars
    <3> QED  BY <3>1, <1>k, <1>t
  <2>2. CASE Sched!NotifyExit
    BY <2>2, <1>k, <1>t DEF Sched!NotifyExit, Sched!NotifyOne, Sched!clientVars
  <2> QED  BY <1>2, <2>1, <2>2 DEF Sched!DtorStep
<1>3. CASE Sched!Tick
  BY <1>3, <1>k, <1>t DEF Sched!Tick, Sched!clientVars, Sched!serviceVars
<1>4. ASSUME NEW p \in Posters, Sched!Notify(p) PROVE WayState'
  BY <1>4, <1>k, <1>t DEF Sched!Notify, Sched!NotifyOne
<1>5. CASE Sched!Turn
  <2>0. /\ UNCHANGED <<clock, taskId, serviceExit, clientPc, call, dtorPc, pushed>>
        /\ servicePc = "loop"
    BY <1>5 DEF Sched!Turn, Sched!clientVars
  <2>1. CASE Sched!Collect
    BY <2>0, <2>1, CollectKeeps
  <2>2. ASSUME NEW time \in 0..MaxTime \cup {Sched!Forever}, Sched!WaitUntil(time)
        PROVE  WayState'
    BY <2>0, <2>2, <1>k, <1>t DEF Sched!WaitUntil
  <2>3. delayed # {} => Sched!Front(delayed).timePoint \in 0..MaxTime
    BY <1>t, FrontIsItem DEF Sched!Item
  <2> QED  BY <1>5, <2>1, <2>2, <2>3 DEF Sched!Turn
<1>6. CASE Sched!AfterWait
  <2>0. /\ UNCHANGED <<clock, taskId, serviceExit, clientPc, call, dtorPc, pushed>>
        /\ servicePc = "woken"
    BY <1>6 DEF Sched!AfterWait, Sched!clientVars
  <2>1. CASE Sched!Collect
    BY <2>0, <2>1, CollectKeeps
  <2>2. CASE servicePc' = "loop" /\ UNCHANGED <<delayed, deadline, batch>>
    BY <2>0, <2>2, <1>k, <1>t
  <2> QED  BY <1>6, <2>1, <2>2 DEF Sched!AfterWait
<1> QED  BY <1>1, <1>2, <1>3, <1>4, <1>5, <1>6

\* What the service thread hands over keeps its order behind what was posted.
LEMMA HandOverKeeps ==
  ASSUME PoolState, SchedState, Sched!PushTasks, Enqueue(Service, batch)
  PROVE  WayState'
<1>1. /\ UNCHANGED <<clock, delayed, taskId, serviceExit, clientPc, call, deadline, dtorPc,
                     pushed>>
      /\ servicePc' = "loop" /\ batch' = <<>> /\ posted' = posted \o batch
  BY DEF Sched!PushTasks, Sched!clientVars, Enqueue
<1>2. WayState /\ batch \in Seq(Tasks) /\ batch \in Seq(Delayed)
  BY BatchIsFit, ThreadPoolAssumption DEF SchedState, WayState
<1>3. /\ Range(posted') = Range(posted) \cup Range(batch)
      /\ Len(posted) \in Nat /\ DOMAIN posted = 1..Len(posted)
      /\ Len(batch) \in Nat /\ DOMAIN batch = 1..Len(batch)
      /\ DOMAIN posted' = 1..(Len(posted) + Len(batch))
      /\ \A k \in DOMAIN posted : posted'[k] = posted[k]
      /\ \A k \in DOMAIN batch : posted'[Len(posted) + k] = batch[k]
  BY <1>1, <1>2, PostedGrows
<1>4. Range(batch') = {} /\ DOMAIN batch' = {} /\ batch' = <<>>
  BY <1>1 DEF Range
<1>5. Sched!TypeInv'
  <2>1. batch' \in Seq(Delayed)
    BY <1>1
  <2> QED  BY <1>1, <1>2, <2>1 DEF WayState, Sched!TypeInv
<1>6. CallState' /\ HeapState'
  BY <1>1, <1>2 DEF WayState, CallState, HeapState, Pushed
<1>7. TransitState'
  <2>1. Range(batch') \cup Range(posted') = Range(batch) \cup Range(posted)
    BY <1>3, <1>4
  <2>2. IsInjective(batch')
    BY <1>4 DEF IsInjective
  <2>3. Range(posted') \cap Delayed \subseteq Pushed
    BY <1>2, <1>3 DEF WayState, TransitState, Range
  <2>4. UNCHANGED <<pushed, delayed>> /\ servicePc' = "loop"
    BY <1>1
  <2> QED
    BY <1>2, <1>4, <2>1, <2>2, <2>3, <2>4 DEF WayState, TransitState, HandedOver, Pushed
<1>8. OrderState'
  <2>1. \A x : x \in Range(batch') \cup Range(posted') <=> HandedOver(x)
    BY <1>3, <1>4 DEF HandedOver
  <2>2. ASSUME NEW i \in DOMAIN pushed, NEW j \in 1..(i - 1),
               pushed[j].timePoint <= pushed[i].timePoint,
               NEW k \in DOMAIN posted', posted'[k] = pushed[i].task
        PROVE  \E l \in 1..(k - 1) : posted'[l] = pushed[j].task
    <3>1. ASSUME NEW l \in DOMAIN posted, l < k, posted[l] = pushed[j].task
          PROVE  \E m \in 1..(k - 1) : posted'[m] = pushed[j].task
      BY <1>3, <3>1
    <3>2. CASE k \in DOMAIN posted
      <4>1. PICK l \in 1..(k - 1) : posted[l] = pushed[j].task
        BY <1>2, <1>3, <2>2, <3>2 DEF WayState, OrderState
      <4> QED  BY <1>3, <3>1, <3>2, <4>1
    <3>3. CASE k \notin DOMAIN posted
      <4>1. PICK n \in DOMAIN batch : k = Len(posted) + n
        <5>1. k - Len(posted) \in DOMAIN batch /\ k = Len(posted) + (k - Len(posted))
          BY <1>3, <3>3
        <5> QED  BY <5>1
      <4>2. batch[n] = pushed[i].task
        BY <1>3, <2>2, <4>1
      <4>3. CASE pushed[j].task \in Range(posted)
        <5>1. PICK l \in DOMAIN posted : posted[l] = pushed[j].task
          BY <4>3 DEF Range
        <5> QED  BY <1>3, <3>1, <3>3, <4>1, <5>1
      <4>4. ASSUME NEW l \in 1..(n - 1), batch[l] = pushed[j].task
            PROVE  \E m \in 1..(k - 1) : posted'[m] = pushed[j].task
        <5>1. l \in DOMAIN batch /\ Len(posted) + l \in 1..(k - 1)
          BY <1>3, <4>1
        <5> QED  BY <1>3, <4>4, <5>1
      <4> QED  BY <1>2, <2>2, <4>2, <4>3, <4>4 DEF WayState, OrderState
    <3> QED  BY <3>2, <3>3
  <2>3. \A i \in DOMAIN pushed : HandedOver(pushed[i].task) => pushed[i].timePoint <= clock
    BY <1>2 DEF WayState, OrderState
  <2>4. UNCHANGED <<pushed, clock>>
    BY <1>1
  <2> QED
    BY <1>4, <2>1, <2>2, <2>3, <2>4 DEF OrderState, HandedOver
<1> QED  BY <1>5, <1>6, <1>7, <1>8 DEF WayState

-----------------------------------------------------------------------------
(* The invariant of the whole.                                             *)

LEMMA WayStep ==
  ASSUME PoolState, SchedState, [PoolNext]_poolVars
  PROVE  WayState'
<1>w. WayState
  BY DEF SchedState, WayState
<1>1. ASSUME NEW p \in Posters, NEW t \in Immediate, PostNow(p, t) PROVE WayState'
  <2>1. UNCHANGED schedVars /\ posted' = posted \o <<t>>
    BY <1>1 DEF PostNow, Enqueue
  <2> QED  BY <1>w, <2>1, PoolKeepsWay
<1>2. ASSUME NEW p \in Posters, PostLater(p) \/ ClientStep(p) PROVE WayState'
  <2>1. UNCHANGED posted
    BY <1>2 DEF PostLater, ClientStep, vars
  <2> QED
    BY <1>2, <1>w, <2>1, ReadClockKeeps, InsertKeeps, ServiceKeepsWay
       DEF PostLater, ClientStep
<1>3. CASE ServiceTurn
  <2>1. CASE (Sched!Exit \/ Sched!Turn \/ Sched!AfterWait \/ Sched!WaitEnds)
               /\ UNCHANGED vars
    BY <1>w, <2>1, ServiceKeepsWay DEF vars
  <2>2. CASE Sched!PushTasks /\ Enqueue(Service, batch)
    BY <2>2, HandOverKeeps
  <2> QED  BY <1>3, <2>1, <2>2 DEF ServiceTurn
<1>4. ASSUME UNCHANGED <<posted, schedVars>> PROVE WayState'
  BY <1>4, <1>w, PoolKeepsWay
<1>5. ASSUME \/ \E c \in Clients : NotifyPool(c)
             \/ \E w \in Workers : WorkerTurn(w)
             \/ \E th \in Workers \cup {Dtor} : WaitTurn(th)
             \/ DtorContinue /\ UNCHANGED schedVars
             \/ DestroyPool
             \/ UNCHANGED poolVars
      PROVE  UNCHANGED <<posted, schedVars>>
  BY <1>5 DEF NotifyPool, NotifyPushed, WaitTurn, WorkerTurn, WorkerStep, WaitForTask,
              TakeTask, ReturnOnExit, NotifyMore, FinishTask, ReturnOnTimeout, Leave,
              KeepAliveTimeout, SpuriousWakeup, DtorContinue, DestroyPool, Destroy,
              poolVars, vars
<1>6. ASSUME (Sched!SpuriousWakeup \/ Sched!Tick) /\ UNCHANGED vars PROVE WayState'
  BY <1>6, <1>w, ServiceKeepsWay DEF vars
<1>7. CASE DestroyService
  BY <1>7, <1>w, ServiceKeepsWay DEF DestroyService, vars
<1>8. ASSUME Sched!DtorStep /\ UNCHANGED vars PROVE WayState'
  BY <1>8, <1>w, ServiceKeepsWay DEF vars
<1> QED
  BY <1>1, <1>2, <1>3, <1>4, <1>5, <1>6, <1>7, <1>8 DEF PoolNext, DestructorTurn

LEMMA SchedInit == PoolInit => SchedState
<1> SUFFICES ASSUME PoolInit PROVE SchedState
  OBVIOUS
<1>1. /\ clock = 0 /\ delayed = {} /\ taskId = 0 /\ serviceExit = FALSE
      /\ clientPc = [p \in Posters |-> "idle"]
      /\ call = [p \in Posters |-> Sched!NoCall]
      /\ servicePc = "loop" /\ deadline = Sched!Forever /\ batch = <<>>
      /\ dtorPc = "idle" /\ pushed = <<>> /\ posted = <<>>
      /\ pc = [th \in Threads |-> IF th \in Workers THEN "none" ELSE "idle"]
  BY DEF PoolInit, Sched!Init, Init
<1>2. /\ Range(batch) = {} /\ Range(posted) = {} /\ DOMAIN batch = {}
      /\ DOMAIN pushed = {} /\ Pushed = {}
  <2>1. DOMAIN batch = {} /\ DOMAIN posted = {} /\ DOMAIN pushed = {}
    BY <1>1
  <2> QED  BY <2>1 DEF Range, Pushed
<1>3. Sched!TypeInv
  <2>1. 0 \in 0..MaxTime /\ batch \in Seq(Delayed) /\ pushed \in Seq(Sched!Push)
    BY <1>1, SchedAssumption, EmptySeq DEF Sched!ServiceAssumption
  <2> QED  BY <1>1, <2>1 DEF Sched!TypeInv
<1>4. PlacesState
  BY <1>1, ThreadsAssumption DEF PlacesState, Threads
<1>5. CallState /\ HeapState
  BY <1>1, <1>2, FS_EmptySet DEF CallState, HeapState
<1>6. TransitState
  BY <1>1, <1>2 DEF TransitState, IsInjective
<1>7. OrderState
  BY <1>2 DEF OrderState
<1> QED  BY <1>3, <1>4, <1>5, <1>6, <1>7 DEF SchedState

LEMMA PoolStep ==
  PoolState /\ SchedState /\ [PoolNext]_poolVars => PoolState' /\ SchedState'
<1> SUFFICES ASSUME PoolState, SchedState, [PoolNext]_poolVars
             PROVE  PoolState' /\ SchedState'
  OBVIOUS
<1>1. PoolState'
  BY StepOfPool, PoolInvariant
<1>2. PlacesState' /\ WayState'
  BY PlacesStep, WayStep
<1> QED  BY <1>1, <1>2 DEF SchedState, WayState

LEMMA PoolInvariance == PoolSpec => [](PoolState /\ SchedState)
<1>1. PoolInit => PoolState /\ SchedState
  BY PoolInvariant, SchedInit DEF PoolInit
<1> QED  BY <1>1, PoolStep, PTL DEF PoolSpec

-----------------------------------------------------------------------------
(* What follows from it.                                                   *)

\* Both parts keep their types whatever the other does.
THEOREM TypesCorrect == PoolSpec => [](TypeInv /\ Sched!TypeInv)
<1>1. PoolState /\ SchedState => TypeInv /\ Sched!TypeInv
  BY DEF PoolState, SchedState
<1> QED  BY <1>1, PoolInvariance, PTL

\* ~ThreadPoolTaskRunner() destroys the service first: neither part is destroyed
\* while a call of it may be under way, not even that of the service thread.
THEOREM DestroysInOrder == PoolSpec => []NobodyCallsWhatIsDestroyed
<1>1. SchedState => NobodyCallsWhatIsDestroyed
  BY ThreadPoolAssumption DEF SchedState, PlacesState, NobodyCallsWhatIsDestroyed
<1> QED  BY <1>1, PoolInvariance, PTL

LEMMA SleepStep ==
  PoolState /\ SchedState /\ NobodyOversleeps /\ [PoolNext]_poolVars => NobodyOversleeps'
<1> SUFFICES ASSUME PoolState, SchedState, NobodyOversleeps, [PoolNext]_poolVars,
                    servicePc' = "waiting"
             PROVE  /\ \A item \in delayed' :
                         \/ deadline' # Sched!Forever /\ deadline' <= item.timePoint
                         \/ \E p \in Posters : clientPc'[p] = "notify"
                    /\ serviceExit' => dtorPc' = "notify"
  BY DEF NobodyOversleeps
<1> DEFINE Goal == /\ \A item \in delayed' :
                        \/ deadline' # Sched!Forever /\ deadline' <= item.timePoint
                        \/ \E p \in Posters : clientPc'[p] = "notify"
                   /\ serviceExit' => dtorPc' = "notify"
<1>w. WayState /\ clientPc \in [Posters -> {"idle", "insert", "notify"}]
  BY DEF SchedState, WayState, Sched!TypeInv
<1>1. ASSUME UNCHANGED <<delayed, deadline, servicePc>>,
             \A p \in Posters : clientPc[p] = "notify" => clientPc'[p] = "notify",
             (serviceExit' => dtorPc' = "notify") \/ UNCHANGED <<serviceExit, dtorPc>>
      PROVE  Goal
  BY <1>1 DEF NobodyOversleeps
<1>2. ASSUME NEW p \in Posters, PostLater(p) PROVE Goal
  BY <1>1, <1>2, <1>w DEF PostLater, Sched!ReadClock, Sched!serviceVars
<1>3. ASSUME NEW p \in Posters, ClientStep(p) PROVE Goal
  <2>1. CASE Sched!Insert(p)
    <3>1. /\ clientPc'[p] = "notify"
          /\ UNCHANGED <<servicePc, serviceExit, dtorPc>>
      BY <1>w, <2>1 DEF Sched!Insert, Sched!serviceVars
    <3> QED  BY <3>1 DEF NobodyOversleeps
  <2>2. ~Sched!Notify(p)
    BY DEF Sched!Notify, Sched!NotifyOne
  <2> QED  BY <1>3, <2>1, <2>2 DEF ClientStep
<1>4. ASSUME \/ \E p \in Posters, t \in Immediate : PostNow(p, t)
             \/ \E c \in Clients : NotifyPool(c)
             \/ \E w \in Workers : WorkerTurn(w)
             \/ \E th \in Workers \cup {Dtor} : WaitTurn(th)
             \/ DtorContinue /\ UNCHANGED schedVars
             \/ DestroyPool
             \/ UNCHANGED poolVars
      PROVE  Goal
  <2>1. UNCHANGED schedVars
    BY <1>4 DEF PostNow, NotifyPool, WorkerTurn, WaitTurn, DestroyPool, poolVars
  <2> QED  BY <1>1, <2>1 DEF schedVars
<1>5. ASSUME ServiceTurn PROVE Goal
  <2>1. /\ ~Sched!Exit /\ ~Sched!AfterWait /\ ~Sched!WaitEnds /\ ~Sched!PushTasks
        /\ ~Sched!Collect
    BY DEF Sched!Exit, Sched!AfterWait, Sched!WaitEnds, Sched!PushTasks, Sched!Collect
  <2>2. Sched!Turn
    BY <1>5, <2>1 DEF ServiceTurn
  <2>3. ~serviceExit'
    BY <2>2 DEF Sched!Turn
  <2>4. CASE delayed = {} /\ Sched!WaitUntil(Sched!Forever)
    BY <2>3, <2>4 DEF Sched!WaitUntil
  <2>5. CASE delayed # {} /\ Sched!WaitUntil(Sched!Front(delayed).timePoint)
    <3>1. /\ Sched!Front(delayed) \in delayed
          /\ \A y \in delayed : Sched!Front(delayed).timePoint <= y.timePoint
      BY <1>w, <2>5, FrontIsItem
    <3>2. Sched!Front(delayed).timePoint # Sched!Forever
      BY <1>w, <3>1, SchedAssumption
         DEF WayState, Sched!TypeInv, Sched!Item, Sched!Forever, Sched!ServiceAssumption
    <3> QED  BY <2>3, <2>5, <3>1, <3>2 DEF Sched!WaitUntil
  <2> QED  BY <2>1, <2>2, <2>4, <2>5 DEF Sched!Turn
<1>6. ASSUME Sched!SpuriousWakeup \/ Sched!Tick PROVE Goal
  BY <1>1, <1>6 DEF Sched!SpuriousWakeup, Sched!Tick, Sched!clientVars, Sched!serviceVars
<1>7. ASSUME DestroyService PROVE Goal
  BY <1>1, <1>7 DEF DestroyService, Sched!Destroy, Sched!clientVars, Sched!serviceVars
<1>8. ASSUME Sched!DtorStep PROVE Goal
  <2>1. ~Sched!NotifyExit /\ ~Sched!Join
    BY DEF Sched!NotifyExit, Sched!NotifyOne, Sched!Join, Sched!serviceVars
  <2> QED  BY <1>8, <2>1 DEF Sched!DtorStep
<1> QED
  BY <1>2, <1>3, <1>4, <1>5, <1>6, <1>7, <1>8 DEF PoolNext, DestructorTurn

\* The service thread is never asleep when it has something to do: it wakes in
\* time for every task in its heap, also for one that is due before those it has
\* gone to sleep for, and for its end.
THEOREM ServiceWakesInTime == PoolSpec => []NobodyOversleeps
<1>1. PoolInit => NobodyOversleeps
  BY DEF PoolInit, Sched!Init, NobodyOversleeps
<1>2. PoolState /\ SchedState /\ NobodyOversleeps /\ [PoolNext]_poolVars
        => NobodyOversleeps'
  BY SleepStep
<1> QED  BY <1>1, <1>2, PoolInvariance, PTL DEF PoolSpec

\* The whole is the pool with clients that call it as its specification demands:
\* only before it is destroyed, or in the body of a task, with tasks that nobody
\* else has posted, and with no more of them at once than it takes.
THEOREM UsesPoolRightly == PoolSpec => Spec
<1>1. PoolInit => Init
  BY DEF PoolInit
<1>2. PoolState /\ SchedState /\ [PoolNext]_poolVars => [Next]_vars
  BY StepOfPool
<1> QED  BY <1>1, <1>2, PoolInvariance, PTL DEF PoolSpec, Spec

\* Behind the service, too, the pool has the order, the accounts and the end that
\* it has for itself, and what is promised of a task queue.
THEOREM PoolIsKept ==
  PoolSpec => /\ [](ThreadAccounting /\ StartedInOrder /\ RunningAccounted
                                    /\ NobodyLeftBehind)
              /\ NothingStartsOnExit
              /\ ImplementsTaskQueue
<1> QED
  BY UsesPoolRightly, AccountsForThreads, StartsInOrder, AccountsForRuns,
     DtorWaitsForAll, ExitStartsNothing, ImplementsQueue, PTL

\* No wakeup of the pool is lost, although the service thread and the workers post
\* to it at the same time.
THEOREM NoWakeupLostBehindService ==
  ASSUME ~KeepAliveExpires
  PROVE  PoolSpec => []QueueServed
<1> QED  BY UsesPoolRightly, NoLostWakeup, PTL

-----------------------------------------------------------------------------
(* Tasks with a delay.                                                     *)

\* A task that was started has been posted to the pool, after all that were
\* inserted into the heap before it and are due no later.
LEMMA PostedInOrder ==
  ASSUME PoolState, SchedState, NEW i \in DOMAIN pushed,
         NEW k \in DOMAIN posted, posted[k] = pushed[i].task
  PROVE  /\ pushed[i].timePoint <= clock
         /\ \A j \in 1..(i - 1) : pushed[j].timePoint <= pushed[i].timePoint =>
              \E l \in 1..(k - 1) : posted[l] = pushed[j].task
<1>1. HandedOver(pushed[i].task)
  BY DEF HandedOver, Range
<1> QED  BY <1>1 DEF SchedState, OrderState

\* No task is started before its delay has passed, nor before one that was posted
\* before it and is due no later, be there as many workers as there may.
THEOREM StartsWhenDue == PoolSpec => []NeverStartedEarly
<1>1. ASSUME PoolState, SchedState PROVE NeverStartedEarly
  <2>1. SUFFICES ASSUME NEW i \in DOMAIN pushed, runs[pushed[i].task] > 0
                 PROVE  /\ pushed[i].timePoint <= clock
                        /\ \A j \in 1..(i - 1) : pushed[j].timePoint <= pushed[i].timePoint
                             => runs[pushed[j].task] = Iterations[pushed[j].task] + 1
    BY DEF NeverStartedEarly
  <2>2. pushed[i].task \in Tasks
    BY <1>1, PushedTasks, ThreadPoolAssumption DEF SchedState
  <2>3. PICK k \in DOMAIN posted : posted[k] = pushed[i].task
    BY <1>1, <2>1, <2>2 DEF PoolState, QueueState, Unposted, Range
  <2>4. \A l \in 1..(k - 1) : runs[posted[l]] = Iterations[posted[l]] + 1
    BY <1>1, <2>1, <2>3, QueueOrder DEF PoolState, StartedInOrder
  <2> QED  BY <1>1, <2>3, <2>4, PostedInOrder
<1> QED  BY <1>1, PoolInvariance, PTL

\* What a worker takes, if it was posted with a delay, is due and next.
LEMMA TakenIsDue ==
  ASSUME PoolState, SchedState, NEW w \in Workers, TakeTask(w),
         UNCHANGED <<clock, pushed>>, NEW t \in Delayed, t = Head(tasks).task
  PROVE  Due!Run(t)
<1> DEFINE rs == [x \in Delayed |-> runs[x]]
<1>1. /\ t \in Tasks /\ Queue!IsNext(t) /\ ~shouldExit /\ UNCHANGED shouldExit
      /\ runs' = [runs EXCEPT ![t] = @ + 1]
  BY TakenIsNext DEF PoolState
<1>2. PICK k \in DOMAIN posted :
        /\ posted[k] = t /\ runs[t] < Iterations[t] + 1
        /\ \A l \in 1..(k - 1) : runs[posted[l]] = Iterations[posted[l]] + 1
  BY <1>1 DEF Queue!IsNext, Queue!AllRuns
<1>3. PICK i \in DOMAIN pushed : pushed[i].task = t
  BY <1>2 DEF SchedState, TransitState, Range, Pushed
<1>4. /\ Len(pushed) \in Nat /\ DOMAIN pushed = 1..Len(pushed)
      /\ \A j \in DOMAIN pushed : pushed[j].task \in Delayed
  BY PushedTasks DEF SchedState
<1>5. runs[t] \in Nat /\ Iterations[t] \in Nat
  BY <1>1, TasksAssumption DEF PoolState, TypeInv
<1>6. /\ pushed[i].timePoint <= clock
      /\ \A j \in 1..(i - 1) : pushed[j].timePoint <= pushed[i].timePoint =>
            /\ runs[pushed[j].task] = Iterations[pushed[j].task] + 1
            /\ pushed[j].task \in Delayed
  <2>1. \A j \in 1..(i - 1) : j \in DOMAIN pushed
    BY <1>4
  <2> QED  BY <1>2, <1>3, <1>4, <2>1, PostedInOrder
<1>7. \A x \in Delayed : Due!HasRun(x) <=> runs[x] = Iterations[x] + 1
  BY DEF Due!HasRun
<1>8. Due!IsNext(i)
  BY <1>2, <1>3, <1>5, <1>6, <1>7 DEF Due!IsNext
<1>9. rs' = [rs EXCEPT ![t] = @ + 1]
  BY <1>1, ThreadPoolAssumption DEF PoolState, TypeInv
<1> QED  BY <1>1, <1>3, <1>8, <1>9 DEF Due!Run

LEMMA DueStep ==
  ASSUME PoolState, SchedState, [PoolNext]_poolVars
  PROVE  [Due!Next]_(Due!vars)
<1>s. ASSUME UNCHANGED <<clock, pushed, runs, shouldExit>> PROVE UNCHANGED Due!vars
  BY <1>s DEF Due!vars
<1>1. ASSUME NEW w \in Workers, WorkerTurn(w), TakeTask(w)
      PROVE  Due!Next \/ UNCHANGED Due!vars
  <2>1. UNCHANGED <<clock, pushed, shouldExit>>
    BY <1>1 DEF WorkerTurn, schedVars, TakeTask
  <2>2. CASE Head(tasks).task \in Delayed
    <3>1. PICK t \in Delayed : t = Head(tasks).task
      BY <2>2
    <3>2. Due!Run(t)
      BY <1>1, <2>1, <3>1, TakenIsDue
    <3> QED  BY <3>2 DEF Due!Next
  <2>3. CASE Head(tasks).task \notin Delayed
    <3>1. runs' = [runs EXCEPT ![Head(tasks).task] = @ + 1] /\ runs \in [Tasks -> Nat]
      BY <1>1, TakenIsNext DEF PoolState, TypeInv
    <3>2. \A x \in Delayed : runs'[x] = runs[x]
      BY <2>3, <3>1, ThreadPoolAssumption
    <3>3. [x \in Delayed |-> runs'[x]] = [x \in Delayed |-> runs[x]]
      BY <3>2
    <3> QED  BY <2>1, <3>3 DEF Due!vars
  <2> QED  BY <2>2, <2>3
<1>2. ASSUME NEW p \in Posters, Sched!Insert(p), UNCHANGED vars PROVE Due!Next
  <2>1. /\ clientPc[p] = "insert" /\ pushed' = Append(pushed, call[p])
        /\ UNCHANGED <<clock, runs, shouldExit>>
    BY <1>2 DEF Sched!Insert, vars
  <2>2. call[p] \in Sched!Push /\ call[p].task \notin Pushed
    BY <2>1 DEF SchedState, CallState
  <2>3. call[p] \in Due!Push /\ \A i \in DOMAIN pushed : pushed[i].task # call[p].task
    BY <2>2 DEF Sched!Push, Due!Push, Pushed
  <2>4. ~shouldExit
    BY <2>1 DEF SchedState, PlacesState, PoolState, DtorState
  <2>5. Due!Post
    BY <2>1, <2>3, <2>4 DEF Due!Post
  <2> QED  BY <2>5 DEF Due!Next
<1>3. ASSUME Sched!Tick, UNCHANGED vars PROVE Due!Next
  <2>1. clock' = clock + 1 /\ UNCHANGED <<pushed, runs, shouldExit>>
    BY <1>3 DEF Sched!Tick, vars
  <2>2. Due!Tick
    BY <2>1 DEF Due!Tick
  <2> QED  BY <2>2 DEF Due!Next
<1>4. CASE DestroyPool
  <2>1. /\ ~shouldExit /\ shouldExit' = TRUE /\ UNCHANGED <<clock, pushed, runs>>
    BY <1>4 DEF DestroyPool, Destroy, PoolState, DtorState, schedVars
  <2>2. Due!Close
    BY <2>1 DEF Due!Close
  <2> QED  BY <2>2 DEF Due!Next
<1>5. ASSUME NEW p \in Posters,
             PostLater(p) \/ Sched!Notify(p) \/ \E t \in Immediate : PostNow(p, t),
             UNCHANGED vars \/ \E t \in Immediate : PostNow(p, t)
      PROVE  UNCHANGED <<clock, pushed, runs, shouldExit>>
  BY <1>5 DEF PostLater, Sched!ReadClock, Sched!Notify, PostNow, Enqueue, schedVars, vars
<1>6. CASE ServiceTurn
  <2>1. UNCHANGED <<runs, shouldExit>>
    BY <1>6 DEF ServiceTurn, Enqueue, vars
  <2>2. UNCHANGED <<clock, pushed>>
    BY <1>6 DEF ServiceTurn, Sched!Exit, Sched!Turn, Sched!AfterWait, Sched!WaitEnds,
                Sched!PushTasks
  <2> QED  BY <2>1, <2>2, <1>s
<1>7. ASSUME \/ \E c \in Clients : NotifyPool(c)
             \/ \E w \in Workers : WorkerTurn(w) /\ ~TakeTask(w)
             \/ \E th \in Workers \cup {Dtor} : WaitTurn(th)
             \/ DtorContinue /\ UNCHANGED schedVars
             \/ UNCHANGED poolVars
      PROVE  UNCHANGED <<clock, pushed, runs, shouldExit>>
  BY <1>7 DEF NotifyPool, NotifyPushed, WaitTurn, WorkerTurn, WorkerStep, WaitForTask,
              ReturnOnExit, NotifyMore, FinishTask, ReturnOnTimeout, Leave,
              KeepAliveTimeout, SpuriousWakeup, DtorContinue, poolVars, vars, schedVars
<1>8. ASSUME \/ Sched!SpuriousWakeup \/ Sched!Destroy \/ Sched!DtorStep,
             UNCHANGED vars
      PROVE  UNCHANGED <<clock, pushed, runs, shouldExit>>
  BY <1>8 DEF Sched!SpuriousWakeup, Sched!Destroy, Sched!DtorStep, Sched!NotifyExit,
              Sched!Join, vars
<1> QED
  BY <1>s, <1>1, <1>2, <1>3, <1>4, <1>5, <1>6, <1>7, <1>8
     DEF PoolNext, ClientStep, PostLater, DestroyService, DestructorTurn

\* To those who post with a delay both parts together are one queue: a task is
\* run when it is due, after all that were due and posted before, as often as it
\* was posted for, and not once the pool is being destroyed.
THEOREM ImplementsDue == PoolSpec => ImplementsDueQueue
<1>1. PoolInit => Due!Init
  BY ThreadPoolAssumption DEF PoolInit, Init, Sched!Init, Due!Init
<1>2. PoolState /\ SchedState /\ [PoolNext]_poolVars => [Due!Next]_(Due!vars)
  BY DueStep
<1> QED
  BY <1>1, <1>2, PoolInvariance, PTL DEF PoolSpec, Due!Spec, ImplementsDueQueue
=============================================================================
