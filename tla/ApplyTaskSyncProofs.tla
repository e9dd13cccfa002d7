------------------------- MODULE ApplyTaskSyncProofs -------------------------
(***************************************************************************)
(* Proofs about ApplyTaskSync: every index is passed to one invocation     *)
(* before the call returns, and the item that the runs share is destroyed  *)
(* when nobody uses it any more.                                           *)
(*                                                                         *)
(* All of it comes down to counting the runs: nextIndex, the counter of    *)
(* the barrier and the number of references each are the number of runs    *)
(* that have got somewhere.                                                *)
(*                                                                         *)
(* The last part is about Barrier, for any threads and calls: nobody gets  *)
(* past it early, and the chain of notifications that wakes the waiting    *)
(* threads is never broken.                                                *)
(***************************************************************************)
EXTENDS ApplyTaskSync, FiniteSetTheorems, TLAPS

started == runs[Apply]

\* Runs by how far they have got.
Fetched == {r \in Runs : runPc[r] \in {"indexed", "invoked", "counted", "done"}}
Invoked == {r \in Runs : runPc[r] \in {"invoked", "counted", "done"}}
Uncounted == {r \in Runs : runPc[r] \notin {"counted", "done"}}
Running == {r \in Runs : runPc[r] \in {"started", "indexed", "invoked", "counted"}}

\* The runner has the one task, and starts its runs in order.
RunnerState ==
  /\ posted = IF callerPc = "before" THEN <<>> ELSE <<Apply>>
  /\ runs \in [{Apply} -> 0..N]
  /\ \A r \in Runs : runPc[r] = "queued" <=> r > started
  /\ callerPc = "before" => started = 0

\* The barrier counts the runs, and the caller gets past it at zero.
BarrierState ==
  /\ call = [t \in Runs \cup {Caller} |-> IF t = Caller THEN "Wait" ELSE "CountDown"]
  /\ pc \in [Runs \cup {Caller} -> {"outside", "waiting", "woken", "passed", "left"}]
  /\ counter = Cardinality(Uncounted)
  /\ \A r \in Runs : pc[r] \in IF r \in Uncounted THEN {"outside"} ELSE {"passed", "left"}
  /\ pc[Caller] \in {"passed", "left"} => counter = 0
  /\ callerPc = "after" => pc[Caller] = "left"

\* Each run that has drawn an index has one of its own.
IndexState ==
  /\ nextIndex = Cardinality(Fetched)
  /\ \A r \in Runs : IF r \in Fetched THEN index[r] < nextIndex ELSE index[r] = N
  /\ \A q, r \in Fetched : index[q] = index[r] => q = r

\* The task was invoked with the indices of the runs that have invoked it.
InvokedState ==
  \A i \in Indices : invoked[i] = IF \E r \in Invoked : index[r] = i THEN 1 ELSE 0

\* Whoever uses the item has a reference: the caller, the queue, a run.
RefsState ==
  refs = IF callerPc = "before" THEN 0
         ELSE (IF callerPc = "inside" THEN 1 ELSE 0)
              + (IF started < N THEN 1 ELSE 0) + Cardinality(Running)

IInv ==
  /\ ApplyTypeInv
  /\ RunnerState
  /\ BarrierState
  /\ IndexState
  /\ InvokedState
  /\ RefsState

-----------------------------------------------------------------------------

LEMMA ThreadsAre == Threads = Runs \cup {Caller}
BY ApplyAssumption DEF Runs

LEMMA Subsets ==
  ASSUME NEW S \in SUBSET Runs
  PROVE  /\ IsFiniteSet(S) /\ Cardinality(S) \in 0..N
         /\ Cardinality(S) = N => S = Runs
         /\ Cardinality(S) = 0 <=> S = {}
<1>1. IsFiniteSet(Runs) /\ Cardinality(Runs) = N
  BY ApplyAssumption, FS_Interval DEF Runs
<1>2. IsFiniteSet(S) /\ Cardinality(S) <= N /\ (Cardinality(S) = N => S = Runs)
  BY <1>1, FS_Subset
<1>3. Cardinality(S) \in Nat /\ (Cardinality(S) = 0 <=> S = {})
  BY <1>2, FS_CardinalityType, FS_EmptySet
<1> QED
  BY <1>2, <1>3, ApplyAssumption

LEMMA Entering ==
  ASSUME NEW S \in SUBSET Runs, NEW r \in Runs, r \notin S
  PROVE  Cardinality(S \cup {r}) = Cardinality(S) + 1 /\ Cardinality(S) < N
<1>1. Cardinality(S \cup {r}) = Cardinality(S) + 1
  BY Subsets, FS_AddElement
<1>2. Cardinality(S) \in 0..N /\ Cardinality(S) # N
  BY Subsets
<1> QED
  BY <1>1, <1>2, ApplyAssumption

LEMMA Leaving ==
  ASSUME NEW S \in SUBSET Runs, NEW r \in S
  PROVE  Cardinality(S \ {r}) = Cardinality(S) - 1 /\ Cardinality(S) > 0
<1>1. Cardinality(S \ {r}) = Cardinality(S) - 1
  BY Subsets, FS_RemoveElement
<1>2. Cardinality(S) \in 0..N /\ Cardinality(S) # 0
  BY Subsets
<1> QED
  BY <1>1, <1>2, ApplyAssumption

LEMMA InitIInv == ApplyInit => IInv
<1> SUFFICES ASSUME ApplyInit PROVE IInv
  OBVIOUS
<1> USE DEF ApplyInit
<1>1. N \in Nat /\ N > 0 /\ Caller \notin Runs
  BY ApplyAssumption DEF Runs
<1>2. Fetched = {} /\ Invoked = {} /\ Running = {} /\ Uncounted = Runs
  BY DEF Fetched, Invoked, Running, Uncounted
<1>3. Cardinality(Runs) = N /\ Cardinality({}) = 0
  BY <1>1, FS_Interval, FS_EmptySet DEF Runs
<1>4. counter = N
  <2>1. Counting(call) = Runs
    BY <1>1, ThreadsAre DEF Counting
  <2>2. counter = Cardinality(Counting(call))
    BY DEF Init
  <2> QED  BY <1>3, <2>1, <2>2
<1>5. ApplyTypeInv
  BY <1>1, <1>4 DEF ApplyTypeInv
<1>6. RunnerState
  BY <1>1 DEF RunnerState, Runner!Init, started, Runs
<1>7. BarrierState
  BY <1>1, <1>2, <1>3, <1>4, ThreadsAre DEF BarrierState, Init
<1>8. IndexState /\ InvokedState /\ RefsState
  BY <1>1, <1>2, <1>3 DEF IndexState, InvokedState, RefsState
<1> QED
  BY <1>5, <1>6, <1>7, <1>8 DEF IInv

\* Runs that stay where they are stay in the sets of runs.
LEMMA RunsStay ==
  ASSUME UNCHANGED <<runPc, runs>>
  PROVE  UNCHANGED <<Fetched, Invoked, Uncounted, Running, started>>
BY DEF Fetched, Invoked, Uncounted, Running, started

\* The item stays as it is.
LEMMA ItemStays ==
  ASSUME IInv, UNCHANGED <<itemVars, runPc, runs>>
  PROVE  IndexState' /\ InvokedState'
<1>1. UNCHANGED <<Fetched, Invoked, nextIndex, index, invoked>>
  BY RunsStay DEF itemVars
<1> QED
  BY <1>1 DEF IInv, IndexState, InvokedState

LEMMA PostTaskKeeps ==
  ASSUME IInv, PostTask
  PROVE  IInv'
<1>1. /\ callerPc = "before" /\ callerPc' = "inside" /\ refs' = 2
      /\ UNCHANGED <<counter, call, pc, nextIndex, index, invoked, runPc>>
  BY DEF PostTask, barrierVars, itemVars
<1>2. posted' = <<Apply>> /\ UNCHANGED <<runs, finished, closed>>
  <2>1. Runner!Post /\ posted = <<>>
    BY <1>1 DEF PostTask, IInv, RunnerState
  <2>2. PICK n \in 1..1 : \E batch \in [1..n -> Runner!Unposted] : posted' = posted \o batch
    BY <2>1 DEF Runner!Post
  <2>3. PICK batch \in [1..1 -> Runner!Unposted] : posted' = <<>> \o batch
    BY <2>1, <2>2
  <2>4. batch[1] = Apply
    BY <2>3 DEF Runner!Unposted
  <2>5. batch = <<Apply>>
    BY <2>3, <2>4
  <2> QED  BY <2>1, <2>3, <2>5 DEF Runner!Post
<1>3. N \in Nat /\ N > 0
  BY ApplyAssumption
<1>4. UNCHANGED <<Fetched, Invoked, Uncounted, Running, started>>
  BY <1>1, <1>2, RunsStay
<1>5. started = 0 /\ Running = {}
  BY <1>1 DEF IInv, RunnerState, Running, Runs
<1>6. ApplyTypeInv'
  BY <1>1, <1>3 DEF IInv, ApplyTypeInv
<1>7. RunnerState'
  BY <1>1, <1>2, <1>4, <1>5 DEF IInv, RunnerState
<1>8. BarrierState'
  BY <1>1, <1>4 DEF IInv, BarrierState
<1>9. IndexState' /\ InvokedState'
  BY <1>1, <1>2, ItemStays DEF itemVars
<1>10. RefsState'
  BY <1>1, <1>3, <1>4, <1>5, FS_EmptySet DEF RefsState
<1> QED
  BY <1>6, <1>7, <1>8, <1>9, <1>10 DEF IInv

LEMMA StartRunKeeps ==
  ASSUME IInv, NEW r \in Runs, StartRun(r)
  PROVE  IInv'
<1>1. /\ r = started + 1 /\ runPc' = [runPc EXCEPT ![r] = "started"]
      /\ refs' = IF r = N THEN refs ELSE refs + 1
      /\ UNCHANGED <<counter, call, pc, nextIndex, index, invoked, callerPc>>
  BY DEF StartRun, barrierVars, itemVars, started
<1>2. /\ runs' = [runs EXCEPT ![Apply] = @ + 1] /\ UNCHANGED <<posted, finished, closed>>
      /\ posted # <<>>
  BY DEF StartRun, Runner!Start, Runner!IsNext
<1>3. /\ N \in Nat /\ runs \in [{Apply} -> 0..N] /\ started \in 0..N /\ r \in 1..N
      /\ runPc \in [Runs -> {"queued", "started", "indexed", "invoked", "counted", "done"}]
      /\ callerPc # "before" /\ started' = started + 1
  <2>1. runs \in [{Apply} -> 0..N] /\ posted = IF callerPc = "before" THEN <<>> ELSE <<Apply>>
    BY DEF IInv, RunnerState
  <2> QED  BY <1>2, <2>1, ApplyAssumption DEF started, IInv, ApplyTypeInv, Runs
<1>4. runPc[r] = "queued"
  BY <1>1, <1>3 DEF IInv, RunnerState
<1>5. /\ Fetched' = Fetched /\ Invoked' = Invoked /\ Uncounted' = Uncounted
      /\ Running' = Running \cup {r} /\ r \notin Running
  BY <1>1, <1>3, <1>4 DEF Fetched, Invoked, Uncounted, Running
<1>6. /\ Cardinality(Running') = Cardinality(Running) + 1
      /\ Cardinality(Running) \in 0..N
  <2>1. Running \in SUBSET Runs
    BY DEF Running
  <2> QED  BY <1>5, <2>1, Entering, Subsets
<1>7. RunnerState'
  <2>1. runs' \in [{Apply} -> 0..N]
    BY <1>1, <1>2, <1>3 DEF started
  <2>2. \A q \in Runs : runPc'[q] = "queued" <=> q > started'
    BY <1>1, <1>3 DEF IInv, RunnerState, Runs
  <2> QED  BY <1>1, <1>2, <1>3, <2>1, <2>2 DEF IInv, RunnerState
<1>8. BarrierState'
  BY <1>1, <1>5 DEF IInv, BarrierState
<1>9. IndexState' /\ InvokedState'
  BY <1>1, <1>5 DEF IInv, IndexState, InvokedState
<1>10. RefsState'
  BY <1>1, <1>3, <1>6 DEF IInv, RefsState
<1>11. refs' \in 0..(N + 1)
  <2>1. Running' \subseteq 1..started'
    <3>1. \A q \in Runs : q \in Running' => ~(q > started')
      BY <1>7 DEF Running, RunnerState
    <3> QED  BY <1>3, <3>1 DEF Running, Runs
  <2>2. Cardinality(1..started') = started' /\ IsFiniteSet(1..started')
    <3>1. started' \in Int /\ ~(1 > started') /\ (started' - 1) + 1 = started'
      BY <1>3
    <3> QED  BY <3>1, FS_Interval
  <2>3. Cardinality(Running') <= started'
    BY <2>1, <2>2, FS_Subset
  <2> QED  BY <1>1, <1>3, <1>6, <1>10, <2>3 DEF RefsState
<1>12. ApplyTypeInv'
  BY <1>1, <1>3, <1>11 DEF IInv, ApplyTypeInv
<1> QED
  BY <1>7, <1>8, <1>9, <1>10, <1>12 DEF IInv

\* A step of a run that stays among the runs that hold a reference.
LEMMA StaysRunning ==
  ASSUME IInv, NEW r \in Runs, NEW v \in {"indexed", "invoked", "counted"},
         runPc[r] \in {"started", "indexed", "invoked"},
         runPc' = [runPc EXCEPT ![r] = v], UNCHANGED <<runs, posted, callerPc, refs>>
  PROVE  /\ RunnerState' /\ RefsState' /\ Running' = Running
         /\ runPc' \in [Runs -> {"queued", "started", "indexed", "invoked", "counted", "done"}]
<1>1. runPc \in [Runs -> {"queued", "started", "indexed", "invoked", "counted", "done"}]
  BY DEF IInv, ApplyTypeInv
<1>2. Running' = Running /\ started' = started
  BY <1>1 DEF Running, started
<1>3. RunnerState'
  BY <1>1, <1>2 DEF IInv, RunnerState
<1>4. RefsState'
  BY <1>2 DEF IInv, RefsState
<1> QED
  BY <1>1, <1>2, <1>3, <1>4

LEMMA FetchIndexKeeps ==
  ASSUME IInv, NEW r \in Runs, FetchIndex(r)
  PROVE  IInv'
<1>1. /\ runPc[r] = "started" /\ runPc' = [runPc EXCEPT ![r] = "indexed"]
      /\ index' = [index EXCEPT ![r] = nextIndex] /\ nextIndex' = nextIndex + 1
      /\ UNCHANGED <<posted, runs, finished, closed, counter, call, pc, invoked, callerPc, refs>>
  BY DEF FetchIndex, runnerVars, barrierVars
<1>2. /\ N \in Nat /\ index \in [Runs -> 0..N] /\ nextIndex \in 0..N
      /\ runPc \in [Runs -> {"queued", "started", "indexed", "invoked", "counted", "done"}]
  BY ApplyAssumption DEF IInv, ApplyTypeInv
<1>3. /\ RunnerState' /\ RefsState'
      /\ runPc' \in [Runs -> {"queued", "started", "indexed", "invoked", "counted", "done"}]
  BY <1>1, StaysRunning
<1>4. /\ Fetched' = Fetched \cup {r} /\ r \notin Fetched
      /\ Invoked' = Invoked /\ Uncounted' = Uncounted /\ r \notin Invoked
  BY <1>1, <1>2 DEF Fetched, Invoked, Uncounted
<1>5. Cardinality(Fetched') = nextIndex + 1 /\ nextIndex < N
  <2>1. Fetched \in SUBSET Runs
    BY DEF Fetched
  <2> QED  BY <1>4, <2>1, Entering DEF IInv, IndexState
<1>6. ApplyTypeInv'
  BY <1>1, <1>2, <1>3, <1>5 DEF IInv, ApplyTypeInv
<1>7. BarrierState'
  BY <1>1, <1>4 DEF IInv, BarrierState
<1>8. IndexState'
  <2>1. \A q \in Runs : index'[q] = IF q = r THEN nextIndex ELSE index[q]
    BY <1>1, <1>2
  <2>2. \A q \in Fetched : q \in Runs /\ index[q] \in Nat /\ index[q] < nextIndex
    BY <1>2 DEF IInv, IndexState, Fetched
  <2>3. \A q \in Runs : IF q \in Fetched' THEN index'[q] < nextIndex' ELSE index'[q] = N
    BY <1>1, <1>2, <1>4, <2>1, <2>2 DEF IInv, IndexState
  <2>4. \A p, q \in Fetched' : index'[p] = index'[q] => p = q
    BY <1>2, <1>4, <2>1, <2>2 DEF IInv, IndexState
  <2> QED  BY <1>1, <1>5, <2>3, <2>4 DEF IndexState
<1>9. InvokedState'
  <2>1. \A q \in Invoked : index'[q] = index[q]
    BY <1>1, <1>2, <1>4 DEF Invoked
  <2> QED  BY <1>1, <1>4, <2>1 DEF IInv, InvokedState
<1> QED
  BY <1>3, <1>6, <1>7, <1>8, <1>9 DEF IInv

LEMMA InvokeTaskKeeps ==
  ASSUME IInv, NEW r \in Runs, InvokeTask(r)
  PROVE  IInv'
<1>1. /\ runPc[r] = "indexed" /\ runPc' = [runPc EXCEPT ![r] = "invoked"]
      /\ index[r] < N /\ invoked' = [invoked EXCEPT ![index[r]] = @ + 1]
      /\ UNCHANGED <<posted, runs, finished, closed, counter, call, pc, nextIndex, index,
                     callerPc, refs>>
  BY DEF InvokeTask, runnerVars, barrierVars
<1>2. /\ N \in Nat /\ N > 0 /\ index \in [Runs -> 0..N] /\ invoked \in [Indices -> 0..N]
      /\ runPc \in [Runs -> {"queued", "started", "indexed", "invoked", "counted", "done"}]
      /\ index[r] \in Indices
  BY <1>1, ApplyAssumption DEF IInv, ApplyTypeInv, Indices
<1>3. /\ RunnerState' /\ RefsState'
      /\ runPc' \in [Runs -> {"queued", "started", "indexed", "invoked", "counted", "done"}]
  BY <1>1, StaysRunning
<1>4. /\ Fetched' = Fetched /\ Uncounted' = Uncounted /\ Invoked' = Invoked \cup {r}
      /\ r \in Fetched /\ r \notin Invoked /\ Invoked \subseteq Fetched
  BY <1>1, <1>2 DEF Fetched, Invoked, Uncounted
<1>5. invoked[index[r]] = 0
  <2>1. \A q \in Invoked : index[q] # index[r]
    BY <1>4 DEF IInv, IndexState
  <2> QED  BY <1>2, <2>1 DEF IInv, InvokedState
<1>6. \A i \in Indices : invoked'[i] = IF i = index[r] THEN 1 ELSE invoked[i]
  BY <1>1, <1>2, <1>5
<1>7. InvokedState'
  <2> SUFFICES ASSUME NEW i \in Indices
               PROVE  invoked'[i] = IF \E q \in Invoked' : index'[q] = i THEN 1 ELSE 0
    BY DEF InvokedState
  <2>1. invoked[i] = IF \E q \in Invoked : index[q] = i THEN 1 ELSE 0
    BY DEF IInv, InvokedState
  <2> QED  BY <1>1, <1>4, <1>6, <2>1
<1>8. ApplyTypeInv'
  <2>1. invoked' \in [Indices -> 0..N]
    BY <1>1, <1>2, <1>5
  <2> QED  BY <1>1, <1>3, <2>1 DEF IInv, ApplyTypeInv
<1>9. BarrierState' /\ IndexState'
  BY <1>1, <1>4 DEF IInv, BarrierState, IndexState
<1> QED
  BY <1>3, <1>7, <1>8, <1>9 DEF IInv

LEMMA CountDownKeeps ==
  ASSUME IInv, NEW r \in Runs, CountDownInRun(r)
  PROVE  IInv'
<1>1. /\ runPc[r] = "invoked" /\ runPc' = [runPc EXCEPT ![r] = "counted"]
      /\ counter' = counter - 1
      /\ pc' = [pc EXCEPT ![r] = IF counter' = 0 THEN "passed" ELSE "left"]
      /\ UNCHANGED <<posted, runs, finished, closed, call, nextIndex, index, invoked,
                     callerPc, refs>>
  BY DEF CountDownInRun, CountDown, runnerVars, itemVars
<1>2. /\ N \in Nat /\ counter \in 0..N /\ Caller \notin Runs
      /\ pc \in [Runs \cup {Caller} -> {"outside", "waiting", "woken", "passed", "left"}]
      /\ runPc \in [Runs -> {"queued", "started", "indexed", "invoked", "counted", "done"}]
  BY ApplyAssumption DEF IInv, ApplyTypeInv, BarrierState, Runs
<1>3. /\ RunnerState' /\ RefsState'
      /\ runPc' \in [Runs -> {"queued", "started", "indexed", "invoked", "counted", "done"}]
  BY <1>1, StaysRunning
<1>4. /\ Fetched' = Fetched /\ Invoked' = Invoked /\ Uncounted' = Uncounted \ {r}
      /\ r \in Uncounted
  BY <1>1, <1>2 DEF Fetched, Invoked, Uncounted
<1>5. counter' = Cardinality(Uncounted') /\ counter > 0
  <2>1. Uncounted \in SUBSET Runs
    BY DEF Uncounted
  <2> QED  BY <1>1, <1>4, <2>1, Leaving DEF IInv, BarrierState
<1>6. ApplyTypeInv'
  BY <1>1, <1>2, <1>3, <1>5 DEF IInv, ApplyTypeInv
<1>7. BarrierState'
  <2>1. pc' \in [Runs \cup {Caller} -> {"outside", "waiting", "woken", "passed", "left"}]
    BY <1>1, <1>2
  <2>2. pc'[Caller] = pc[Caller]
    BY <1>1, <1>2
  <2>3. \A q \in Runs : pc'[q] \in IF q \in Uncounted' THEN {"outside"} ELSE {"passed", "left"}
    BY <1>1, <1>2, <1>4 DEF IInv, BarrierState
  <2>4. ~(pc[Caller] \in {"passed", "left"})
    BY <1>5 DEF IInv, BarrierState
  <2> QED  BY <1>1, <1>5, <2>1, <2>2, <2>3, <2>4 DEF IInv, BarrierState
<1>8. IndexState' /\ InvokedState'
  BY <1>1, <1>4 DEF IInv, IndexState, InvokedState
<1> QED
  BY <1>3, <1>6, <1>7, <1>8 DEF IInv

\* A step in the barrier that counts nothing, as of the caller and of the last
\* run.  No run ever parks there.
LEMMA BarrierStepKeeps ==
  ASSUME IInv, UNCHANGED <<posted, runs, finished, closed, counter, call, nextIndex, index,
                           invoked, callerPc, runPc, refs>>,
         pc' \in [Runs \cup {Caller} -> {"outside", "waiting", "woken", "passed", "left"}],
         \A r \in Runs : pc'[r] = pc[r] \/ (pc[r] = "passed" /\ pc'[r] = "left"),
         pc'[Caller] \in {"passed", "left"} => pc[Caller] = "passed" \/ counter = 0,
         callerPc = "after" => pc'[Caller] = pc[Caller]
  PROVE  IInv'
<1>1. UNCHANGED <<Fetched, Invoked, Uncounted, Running, started>>
  BY RunsStay
<1>2. ApplyTypeInv' /\ RunnerState'
  BY <1>1 DEF IInv, ApplyTypeInv, RunnerState
<1>3. IndexState' /\ InvokedState' /\ RefsState'
  BY <1>1 DEF IInv, IndexState, InvokedState, RefsState
<1>4. \A r \in Runs : pc'[r] \in IF r \in Uncounted THEN {"outside"} ELSE {"passed", "left"}
  BY DEF IInv, BarrierState
<1>5. BarrierState'
  BY <1>1, <1>4 DEF IInv, BarrierState
<1> QED
  BY <1>2, <1>3, <1>5 DEF IInv

\* A notification from the barrier finds the caller parked, or nobody.
LEMMA NotifyKeeps ==
  ASSUME IInv, NEW t \in Runs \cup {Caller}, Notify(t), t = Caller => callerPc = "inside",
         UNCHANGED <<posted, runs, finished, closed, nextIndex, index, invoked, callerPc,
                     runPc, refs>>
  PROVE  IInv'
<1> DEFINE p == [pc EXCEPT ![t] = "left"]
           parked == {u \in Runs \cup {Caller} : p[u] = "waiting"}
<1>1. /\ pc[t] = "passed" /\ UNCHANGED <<counter, call>>
      /\ \/ parked = {} /\ pc' = p
         \/ \E u \in parked : pc' = [p EXCEPT ![u] = "woken"]
  BY ThreadsAre DEF Notify, NotifyOne
<1>2. /\ pc \in [Runs \cup {Caller} -> {"outside", "waiting", "woken", "passed", "left"}]
      /\ Caller \notin Runs
      /\ \A r \in Runs : pc[r] # "waiting"
      /\ callerPc = "after" => pc[Caller] = "left"
      /\ pc[Caller] \in {"passed", "left"} => counter = 0
  BY ApplyAssumption DEF IInv, BarrierState, Runs
<1>3. /\ p \in [Runs \cup {Caller} -> {"outside", "waiting", "woken", "passed", "left"}]
      /\ p[t] = "left" /\ \A u \in Runs \cup {Caller} : u # t => p[u] = pc[u]
  BY <1>2
<1> HIDE DEF p
<1>4. parked \subseteq {Caller}
  BY <1>2, <1>3
<1>5. CASE pc' = p
  BY <1>1, <1>2, <1>3, <1>5, BarrierStepKeeps
<1>6. CASE Caller \in parked /\ pc' = [p EXCEPT ![Caller] = "woken"]
  <2>1. t # Caller /\ p[Caller] = "waiting" /\ pc[Caller] = "waiting"
    BY <1>3, <1>6
  <2>2. /\ pc' \in [Runs \cup {Caller} -> {"outside", "waiting", "woken", "passed", "left"}]
        /\ pc'[Caller] = "woken" /\ \A r \in Runs : pc'[r] = p[r]
    BY <1>2, <1>3, <1>6
  <2> QED  BY <1>1, <1>2, <1>3, <2>1, <2>2, BarrierStepKeeps
<1> QED
  BY <1>1, <1>4, <1>5, <1>6

LEMMA WaitForRunsKeeps ==
  ASSUME IInv, WaitForRuns \/ CallerWakeup
  PROVE  IInv'
<1>1. /\ callerPc = "inside"
      /\ UNCHANGED <<posted, runs, finished, closed, nextIndex, index, invoked, callerPc,
                     runPc, refs>>
      /\ Wait(Caller) \/ WakeUp(Caller) \/ Notify(Caller) \/ SpuriousWakeup(Caller)
  BY DEF WaitForRuns, CallerWakeup, runnerVars, itemVars
<1>2. /\ pc \in [Runs \cup {Caller} -> {"outside", "waiting", "woken", "passed", "left"}]
      /\ Caller \notin Runs
  BY ApplyAssumption DEF IInv, BarrierState, Runs
<1>3. CASE Notify(Caller)
  BY <1>1, <1>3, NotifyKeeps
<1>4. CASE Wait(Caller) \/ WakeUp(Caller)
  <2>1. UNCHANGED <<counter, call>>
        /\ pc' = [pc EXCEPT ![Caller] = IF counter = 0 THEN "passed" ELSE "waiting"]
    BY <1>4 DEF Wait, WakeUp, WaitLoop
  <2> QED  BY <1>1, <1>2, <2>1, BarrierStepKeeps
<1>5. CASE SpuriousWakeup(Caller)
  <2>1. UNCHANGED <<counter, call>> /\ pc' = [pc EXCEPT ![Caller] = "woken"]
    BY <1>5 DEF SpuriousWakeup
  <2> QED  BY <1>1, <1>2, <2>1, BarrierStepKeeps
<1> QED
  BY <1>1, <1>3, <1>4, <1>5

LEMMA FinishRunKeeps ==
  ASSUME IInv, NEW r \in Runs, FinishRun(r)
  PROVE  IInv'
<1>1. /\ runPc[r] = "counted" /\ runPc' = [runPc EXCEPT ![r] = "done"] /\ refs' = refs - 1
      /\ UNCHANGED <<posted, runs, counter, call, pc, nextIndex, index, invoked, callerPc>>
  BY DEF FinishRun, Runner!Finish, barrierVars, itemVars
<1>2. /\ N \in Nat /\ refs \in 0..(N + 1) /\ started \in 0..N /\ r \in 1..N
      /\ runPc \in [Runs -> {"queued", "started", "indexed", "invoked", "counted", "done"}]
  BY ApplyAssumption DEF IInv, ApplyTypeInv, RunnerState, started, Runs
<1>3. /\ Fetched' = Fetched /\ Invoked' = Invoked /\ Uncounted' = Uncounted
      /\ Running' = Running \ {r} /\ r \in Running /\ started' = started
  BY <1>1, <1>2 DEF Fetched, Invoked, Uncounted, Running, started
<1>4. Cardinality(Running') = Cardinality(Running) - 1 /\ Cardinality(Running) \in 1..N
  <2>1. Running \in SUBSET Runs
    BY DEF Running
  <2> QED  BY <1>2, <1>3, <2>1, Leaving, Subsets
<1>5. callerPc # "before"
  <2>1. started # 0
    BY <1>1, <1>2 DEF IInv, RunnerState
  <2> QED  BY <2>1 DEF IInv, RunnerState
<1>6. RefsState'
  BY <1>1, <1>2, <1>3, <1>4, <1>5 DEF IInv, RefsState
<1>7. refs' \in 0..(N + 1)
  BY <1>1, <1>2, <1>4, <1>5 DEF IInv, RefsState
<1>8. ApplyTypeInv'
  BY <1>1, <1>2, <1>7 DEF IInv, ApplyTypeInv
<1>9. RunnerState'
  BY <1>1, <1>2, <1>3 DEF IInv, RunnerState
<1>10. BarrierState' /\ IndexState' /\ InvokedState'
  BY <1>1, <1>3 DEF IInv, BarrierState, IndexState, InvokedState
<1> QED
  BY <1>6, <1>8, <1>9, <1>10 DEF IInv

LEMMA ReturnKeeps ==
  ASSUME IInv, Return
  PROVE  IInv'
<1>1. /\ callerPc = "inside" /\ pc[Caller] = "left" /\ callerPc' = "after" /\ refs' = refs - 1
      /\ UNCHANGED <<posted, runs, counter, call, pc, nextIndex, index, invoked, runPc>>
  BY DEF Return, runnerVars, barrierVars, itemVars
<1>2. UNCHANGED <<Fetched, Invoked, Uncounted, Running, started>>
  BY <1>1, RunsStay
<1>3. /\ N \in Nat /\ refs \in 0..(N + 1) /\ started \in 0..N /\ Cardinality(Running) \in 0..N
  <2>1. Running \in SUBSET Runs
    BY DEF Running
  <2> QED  BY <2>1, Subsets, ApplyAssumption DEF IInv, ApplyTypeInv, RunnerState, started
<1>4. RefsState' /\ refs' \in 0..(N + 1)
  BY <1>1, <1>2, <1>3 DEF IInv, RefsState
<1>5. ApplyTypeInv'
  BY <1>1, <1>4 DEF IInv, ApplyTypeInv
<1>6. RunnerState' /\ BarrierState'
  BY <1>1, <1>2 DEF IInv, RunnerState, BarrierState
<1>7. IndexState' /\ InvokedState'
  BY <1>1, <1>2 DEF IInv, IndexState, InvokedState
<1> QED
  BY <1>4, <1>5, <1>6, <1>7 DEF IInv

\* Every step keeps the invariant.
LEMMA NextIInv == IInv /\ [ApplyNext]_applyVars => IInv'
<1> SUFFICES ASSUME IInv, [ApplyNext]_applyVars PROVE IInv'
  OBVIOUS
<1>1. ASSUME NEW r \in Runs, RunStep(r) PROVE IInv'
  <2>1. CASE NotifyCaller(r)
    <3>1. /\ Notify(r) /\ r # Caller
          /\ UNCHANGED <<posted, runs, finished, closed, nextIndex, index, invoked, callerPc,
                         runPc, refs>>
      BY <2>1, ApplyAssumption DEF NotifyCaller, runnerVars, itemVars, Runs
    <3> QED  BY <3>1, NotifyKeeps
  <2> QED
    BY <1>1, <2>1, StartRunKeeps, FetchIndexKeeps, InvokeTaskKeeps, CountDownKeeps,
       FinishRunKeeps DEF RunStep
<1>2. ASSUME DestroyRunner \/ UNCHANGED applyVars PROVE IInv'
  <2>1. UNCHANGED <<posted, runs, counter, call, pc, nextIndex, index, invoked, callerPc,
                    runPc, refs>>
    BY <1>2 DEF DestroyRunner, Runner!Close, applyVars, runnerVars, barrierVars, itemVars
  <2>2. UNCHANGED <<Fetched, Invoked, Uncounted, Running, started>>
    BY <2>1, RunsStay
  <2>3. ApplyTypeInv' /\ RunnerState' /\ BarrierState'
    BY <2>1, <2>2 DEF IInv, ApplyTypeInv, RunnerState, BarrierState
  <2>4. IndexState' /\ InvokedState' /\ RefsState'
    BY <2>1, <2>2 DEF IInv, IndexState, InvokedState, RefsState
  <2> QED  BY <2>3, <2>4 DEF IInv
<1> QED
  BY <1>1, <1>2, PostTaskKeeps, WaitForRunsKeeps, ReturnKeeps DEF ApplyNext, CallerStep

LEMMA Invariance == ApplySpec => []IInv
BY InitIInv, NextIInv, PTL DEF ApplySpec

\* The counters stay within the number of iterations.
THEOREM TypeCorrect == ApplySpec => []ApplyTypeInv
<1>1. IInv => ApplyTypeInv
  BY DEF IInv
<1> QED
  BY Invariance, <1>1, PTL

\* For any number of iterations: when the call returns, each index has been
\* passed to one invocation that is over.
THEOREM ReturnsAfterAll == ApplySpec => []AllInvokedBeforeReturn
<1>1. ASSUME IInv PROVE AllInvokedBeforeReturn
  <2> SUFFICES ASSUME callerPc = "after", NEW i \in Indices
               PROVE  invoked[i] = 1
    BY DEF AllInvokedBeforeReturn
  <2>1. Uncounted = {}
    <3>1. Cardinality(Uncounted) = 0
      BY <1>1 DEF IInv, BarrierState
    <3>2. Uncounted \in SUBSET Runs
      BY DEF Uncounted
    <3> QED  BY <3>1, <3>2, Subsets
  <2>2. Invoked = Runs /\ Fetched = Runs
    BY <2>1 DEF Uncounted, Invoked, Fetched
  <2>3. N \in Nat /\ index \in [Runs -> 0..N] /\ nextIndex \in 0..N
    BY <1>1, ApplyAssumption DEF IInv, ApplyTypeInv
  <2>4. index \in Injection(Runs, Indices)
    <3>1. \A r \in Runs : index[r] \in Indices
      BY <1>1, <2>2, <2>3 DEF IInv, IndexState, Indices
    <3>2. \A q, r \in Runs : index[q] = index[r] => q = r
      BY <1>1, <2>2 DEF IInv, IndexState
    <3> QED  BY <2>3, <3>1, <3>2 DEF Injection, IsInjective
  <2>5. /\ IsFiniteSet(Indices) /\ Cardinality(Indices) = N
        /\ Cardinality(Runs) = N
    <3>1. N \in Int /\ ~(1 > N) /\ ~(0 > N - 1) /\ N - 1 \in Int
      BY ApplyAssumption
    <3>2. Cardinality(1..N) = (N - 1) + 1 /\ Cardinality(0..(N - 1)) = ((N - 1) - 0) + 1
      BY <3>1, FS_Interval
    <3>3. IsFiniteSet(0..(N - 1))
      BY <3>1, FS_Interval
    <3> QED  BY <3>1, <3>2, <3>3 DEF Indices, Runs
  <2>6. index \in Surjection(Runs, Indices)
    BY <2>4, <2>5, FS_Injection
  <2>7. \E r \in Invoked : index[r] = i
    BY <2>2, <2>6 DEF Surjection
  <2> QED  BY <1>1, <2>7 DEF IInv, InvokedState
<1> QED
  BY Invariance, <1>1, PTL

\* No run asserts: its index is below the number of iterations and its own, and
\* the barrier still expects its countdown.
THEOREM RunsStayApart == ApplySpec => []RunsDoNotCollide
<1>1. ASSUME IInv PROVE RunsDoNotCollide
  <2>1. N \in Nat /\ index \in [Runs -> 0..N] /\ nextIndex \in 0..N
    BY <1>1, ApplyAssumption DEF IInv, ApplyTypeInv
  <2>2. ASSUME NEW r \in Runs, r \in Fetched
        PROVE  index[r] < N /\ \A q \in Runs \ {r} : index[q] # index[r]
    BY <1>1, <2>1, <2>2 DEF IInv, IndexState
  <2>3. ASSUME NEW r \in Runs, r \in Uncounted PROVE counter > 0
    <3>1. Uncounted \in SUBSET Runs
      BY DEF Uncounted
    <3> QED  BY <1>1, <2>3, <3>1, Leaving DEF IInv, BarrierState
  <2> QED  BY <2>2, <2>3 DEF RunsDoNotCollide, Fetched, Uncounted
<1> QED
  BY Invariance, <1>1, PTL

\* The item is destroyed when the caller has returned and no run is left.
THEOREM ItemIsThere == ApplySpec => []ItemOutlivesItsUsers
<1>1. ASSUME IInv PROVE ItemOutlivesItsUsers
  <2> SUFFICES ASSUME callerPc # "before", refs = 0
               PROVE  callerPc = "after" /\ counter = 0 /\ \A r \in Runs : runPc[r] = "done"
    BY DEF ItemOutlivesItsUsers
  <2>1. Running \in SUBSET Runs
    BY DEF Running
  <2>2. N \in Nat /\ started \in 0..N /\ Cardinality(Running) \in 0..N
    BY <1>1, <2>1, Subsets, ApplyAssumption DEF IInv, RunnerState, started
  <2>3. callerPc # "inside" /\ started = N /\ Cardinality(Running) = 0
    BY <1>1, <2>2 DEF IInv, RefsState
  <2>4. callerPc = "after" /\ counter = 0
    BY <1>1, <2>3 DEF IInv, ApplyTypeInv, BarrierState
  <2>5. Running = {}
    BY <2>1, <2>3, Subsets
  <2>6. \A r \in Runs : runPc[r] # "queued"
    BY <1>1, <2>2, <2>3 DEF IInv, RunnerState, Runs
  <2>7. \A r \in Runs : runPc[r] = "done"
    BY <1>1, <2>5, <2>6 DEF IInv, ApplyTypeInv, Running
  <2> QED  BY <2>4, <2>7
<1> QED
  BY Invariance, <1>1, PTL

-----------------------------------------------------------------------------
(* Barrier by itself, for any threads and calls: what follows is about its *)
(* own specification and uses nothing of the above.                        *)

\* The threads whose countdown is still to come.
Coming == {t \in Counting(call) : pc[t] = "outside"}

\* The counter is exact.
CounterCounts == counter = Cardinality(Coming)

\* Who is past the barrier, CountDown() that did not reach zero excepted, is
\* there because the counter is zero.
PassedAtZero ==
  \A t \in Threads :
    pc[t] = "passed" \/ (pc[t] = "left" /\ call[t] # "CountDown") => counter = 0

BarrierIInv ==
  /\ TypeInv
  /\ CounterCounts
  /\ PassedAtZero
  /\ ChainUnbroken

-----------------------------------------------------------------------------

\* The set that the counter counts.
LEMMA ComingIsFinite ==
  /\ IsFiniteSet(Coming)
  /\ Cardinality(Coming) \in 0..Cardinality(Threads)
<1>1. Coming \subseteq Threads
  BY DEF Coming, Counting
<1> QED BY <1>1, BarrierAssumption, FS_Subset, FS_CardinalityType

\* The invariant holds at the start.
LEMMA BarrierInit == Init => BarrierIInv
<1> SUFFICES ASSUME Init PROVE BarrierIInv
  OBVIOUS
<1>1. Coming = Counting(call)
  BY DEF Init, Coming, Counting
<1>2. CounterCounts
  BY <1>1 DEF Init, CounterCounts
<1>3. TypeInv
  BY <1>2, ComingIsFinite DEF Init, TypeInv, CounterCounts
<1>4. PassedAtZero /\ ChainUnbroken
  BY DEF Init, PassedAtZero, ChainUnbroken
<1> QED BY <1>2, <1>3, <1>4 DEF BarrierIInv

\* A countdown that is made is no longer to come.
LEMMA Counted ==
  ASSUME BarrierIInv, NEW t \in Threads, pc[t] = "outside", call[t] # "Wait", call' = call,
         counter' = counter - 1, pc'[t] # "outside",
         \A u \in Threads \ {t} : pc'[u] = pc[u]
  PROVE  CounterCounts' /\ counter' \in 0..Cardinality(Threads)
<1>1. t \in Coming /\ Coming' = Coming \ {t}
  BY DEF Coming, Counting
<1>2. Cardinality(Coming \ {t}) = Cardinality(Coming) - 1
  BY <1>1, ComingIsFinite, FS_RemoveElement
<1>3. Cardinality(Coming) # 0
  BY <1>1, ComingIsFinite, FS_EmptySet
<1>4. Cardinality(Threads) \in Nat
  BY BarrierAssumption, FS_CardinalityType
<1> QED BY <1>1, <1>2, <1>3, <1>4, ComingIsFinite DEF CounterCounts, BarrierIInv

\* Nobody who was still to count has moved.
LEMMA NotCounted ==
  ASSUME BarrierIInv, call' = call, counter' = counter,
         \A u \in Counting(call) : pc'[u] = "outside" <=> pc[u] = "outside"
  PROVE  CounterCounts'
<1>1. Coming' = Coming
  BY DEF Coming, Counting
<1> QED BY <1>1 DEF CounterCounts, BarrierIInv

\* Every step of a thread keeps the invariant.
LEMMA BarrierStep ==
  ASSUME BarrierIInv, NEW t \in Threads, Step(t) \/ SpuriousWakeup(t)
  PROVE  BarrierIInv'
<1> USE DEF BarrierIInv
<1>0. counter \in Nat /\ Cardinality(Threads) \in Nat
  BY BarrierAssumption, FS_CardinalityType DEF TypeInv
<1>1. CASE CountDownAndWait(t)
  <2>1. /\ counter' = counter - 1 /\ counter > 0
        /\ pc'[t] = IF counter' = 0 THEN "passed" ELSE "waiting"
        /\ \A u \in Threads \ {t} : pc'[u] = pc[u]
    BY <1>1 DEF CountDownAndWait, WaitLoop, TypeInv
  <2>2. CounterCounts' /\ counter' \in 0..Cardinality(Threads)
    BY <1>1, <2>1, Counted DEF CountDownAndWait
  <2>3. TypeInv'
    BY <1>1, <2>2 DEF CountDownAndWait, WaitLoop, TypeInv
  <2>4. PassedAtZero' /\ ChainUnbroken'
    BY <1>0, <1>1, <2>1 DEF CountDownAndWait, PassedAtZero, ChainUnbroken
  <2> QED BY <2>2, <2>3, <2>4
<1>2. CASE CountDown(t)
  <2>1. /\ counter' = counter - 1 /\ counter > 0
        /\ pc'[t] = IF counter' = 0 THEN "passed" ELSE "left"
        /\ \A u \in Threads \ {t} : pc'[u] = pc[u]
    BY <1>2 DEF CountDown, TypeInv
  <2>2. CounterCounts' /\ counter' \in 0..Cardinality(Threads)
    BY <1>2, <2>1, Counted DEF CountDown
  <2>3. TypeInv'
    BY <1>2, <2>2 DEF CountDown, TypeInv
  <2>4. PassedAtZero' /\ ChainUnbroken'
    BY <1>0, <1>2, <2>1 DEF CountDown, PassedAtZero, ChainUnbroken
  <2> QED BY <2>2, <2>3, <2>4
<1>3. CASE Wait(t) \/ WakeUp(t)
  <2>1. /\ counter' = counter /\ call' = call
        /\ pc' = [pc EXCEPT ![t] = IF counter = 0 THEN "passed" ELSE "waiting"]
        /\ pc[t] = "woken" \/ (pc[t] = "outside" /\ call[t] = "Wait")
    <3>1. counter' = counter /\ call' = call /\ WaitLoop(t)
      BY <1>3 DEF Wait, WakeUp
    <3>2. pc[t] = "woken" \/ (pc[t] = "outside" /\ call[t] = "Wait")
      BY <1>3 DEF Wait, WakeUp
    <3> QED BY <3>1, <3>2 DEF WaitLoop
  <2>2. CounterCounts'
    BY <2>1, NotCounted DEF Counting, TypeInv
  <2>3. TypeInv'
    BY <2>1 DEF TypeInv
  <2>4. PassedAtZero'
    BY <2>1 DEF PassedAtZero, TypeInv
  <2>5. ChainUnbroken'
    BY <2>1 DEF ChainUnbroken, TypeInv
  <2> QED BY <2>2, <2>3, <2>4, <2>5
<1>4. CASE Notify(t)
  <2> DEFINE p == [pc EXCEPT ![t] = "left"]
             parked == {u \in Threads : p[u] = "waiting"}
  <2>1. /\ counter' = counter /\ call' = call /\ pc[t] = "passed" /\ counter = 0
        /\ p \in [Threads -> {"outside", "waiting", "woken", "passed", "left"}]
        /\ p[t] = "left" /\ \A u \in Threads \ {t} : p[u] = pc[u]
    BY <1>4 DEF Notify, PassedAtZero, TypeInv
  <2>2. \/ parked = {} /\ pc' = p
        \/ \E u \in parked : pc' = [p EXCEPT ![u] = "woken"]
    BY <1>4 DEF Notify, NotifyOne
  <2> HIDE DEF p
  <2>3. CounterCounts'
    BY <2>1, <2>2, NotCounted DEF Counting
  <2>4. TypeInv'
    BY <2>1, <2>2 DEF TypeInv
  <2>5. PassedAtZero'
    BY <2>1 DEF PassedAtZero
  <2>6. ChainUnbroken'
    BY <2>1, <2>2 DEF ChainUnbroken
  <2> QED BY <2>3, <2>4, <2>5, <2>6
<1>5. CASE SpuriousWakeup(t)
  <2>1. /\ counter' = counter /\ call' = call /\ pc[t] = "waiting"
        /\ pc' = [pc EXCEPT ![t] = "woken"]
    BY <1>5 DEF SpuriousWakeup
  <2>2. CounterCounts'
    BY <2>1, NotCounted DEF Counting, TypeInv
  <2>3. TypeInv' /\ PassedAtZero' /\ ChainUnbroken'
    BY <2>1 DEF TypeInv, PassedAtZero, ChainUnbroken
  <2> QED BY <2>2, <2>3
<1> QED BY <1>1, <1>2, <1>3, <1>4, <1>5 DEF Step

\* Every step keeps the invariant.
LEMMA BarrierNext == BarrierIInv /\ [Next]_vars => BarrierIInv'
<1> SUFFICES ASSUME BarrierIInv, [Next]_vars PROVE BarrierIInv'
  OBVIOUS
<1>1. CASE UNCHANGED vars
  BY <1>1 DEF vars, BarrierIInv, TypeInv, CounterCounts, Coming, Counting, PassedAtZero,
              ChainUnbroken
<1>2. CASE Next
  BY <1>2, BarrierStep DEF Next
<1> QED BY <1>1, <1>2

\* The invariant holds always.
LEMMA BarrierInvariance == Spec => []BarrierIInv
BY BarrierInit, BarrierNext, PTL DEF Spec

\* The counter stays within its bounds and every thread is somewhere.
THEOREM BarrierTypeCorrect == Spec => []TypeInv
<1>1. BarrierIInv => TypeInv
  BY DEF BarrierIInv
<1> QED BY <1>1, BarrierInvariance, PTL

\* A thread that waits returns only after every countdown was made.
THEOREM NobodyIsEarly == Spec => []NobodyPassesEarly
<1>1. BarrierIInv => NobodyPassesEarly
  <2> SUFFICES ASSUME BarrierIInv, NEW t \in Threads, call[t] # "CountDown",
                      pc[t] \in {"passed", "left"}, NEW u \in Counting(call)
               PROVE  pc[u] # "outside"
    BY DEF NobodyPassesEarly
  <2>1. counter = 0
    BY DEF BarrierIInv, PassedAtZero
  <2>2. Coming = {}
    BY <2>1, ComingIsFinite, FS_EmptySet DEF BarrierIInv, CounterCounts
  <2> QED BY <2>2 DEF Coming
<1> QED BY <1>1, BarrierInvariance, PTL

\* While somebody is parked though the counter is zero, somebody else is on its
\* way to notify.
THEOREM ChainStaysUnbroken == Spec => []ChainUnbroken
<1>1. BarrierIInv => ChainUnbroken
  BY DEF BarrierIInv
<1> QED BY <1>1, BarrierInvariance, PTL
=============================================================================
