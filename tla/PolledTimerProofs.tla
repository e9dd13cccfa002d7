-------------------------- MODULE PolledTimerProofs --------------------------
(***************************************************************************)
(* Proofs about PolledTimer: what the runner does with the tasks that are  *)
(* posted to it, and what the timer does with the callbacks.               *)
(*                                                                         *)
(* A task goes from the call that posts it to the queue, from there to     *)
(* pending_tasks_ and is gone when it has run as often as was asked.  The  *)
(* invariant of the runner says that it is in one of these places at a     *)
(* time; that of the timer says that a callback which it counts on is in   *)
(* one of them.                                                            *)
(***************************************************************************)
EXTENDS PolledTimer, FiniteSetTheorems, TLAPS

\* What is known of the calls that post.
CallsState ==
  /\ \A p \in Posters : call[p].task \notin TasksOf(Range(pushed))
  /\ \A p, r \in Posters : p # r /\ call[p].task = call[r].task => call[p] = NoCall
  /\ \A p \in Posters : IF postPc[p] = "insert" THEN call[p] \in Push ELSE call[p] = NoCall

\* What was pushed is in the queue, or was due when the last poll began.
PushedState ==
  /\ \A i \in DOMAIN pushed :
       \/ pushed[i].task \in atStart /\ pushed[i].timePoint <= clock
       \/ \E x \in queue : x.task = pushed[i].task /\ x.timePoint = pushed[i].timePoint
  /\ atStart \subseteq TasksOf(Range(pushed))

\* No task is in the queue twice, or in the queue and popped.
QueueState ==
  /\ IsFiniteSet(queue)
  /\ \A x \in queue : x.task \in TasksOf(Range(pushed)) \ atStart
  /\ \A x, y \in queue : x.task = y.task => x = y

\* The loop of RunPendingTasks() runs each due task once.
PendingState ==
  /\ \A i \in DOMAIN pending : pending[i].task \in atStart /\ pending[i].timePoint <= clock
  /\ \A i, j \in DOMAIN pending : pending[i].task = pending[j].task => i = j
  /\ pending # <<>> => inPoll /\ iteration <= Iterations[Head(pending).task]

RunsState ==
  \A t \in Tasks :
    runs[t] = IF t \notin atStart THEN 0
              ELSE IF pending # <<>> /\ t = Head(pending).task THEN iteration
              ELSE IF \E i \in DOMAIN pending : pending[i].task = t THEN 0
              ELSE AllRuns(t)

\* The runner.
PollState == TypeInv /\ CallsState /\ PushedState /\ QueueState /\ PendingState /\ RunsState

\* The timer by itself.
TimerState ==
  /\ Timer!TypeInv
  /\ Timer!RunningIsPending
  /\ Timer!NeverEarlyNorTwice
  /\ callbacks \subseteq 1..timerTaskId
  /\ \A k \in Ids : k > timerTaskId => timerRuns[k] = 0

\* The runner has the callbacks that the timer has not seen.
OnTheWay ==
  callbacks \subseteq TasksOf(Range(call) \cup queue \cup Range(pending))

\* The task of a callback runs while RunPendingTasks() is at that callback.
BodiesState ==
  \A i \in DOMAIN bodies :
    bodies[i].by \in Ids => pending # <<>> /\ Head(pending).task = bodies[i].by

IInv == PollState /\ TimerState /\ OnTheWay /\ BodiesState

-----------------------------------------------------------------------------
(* The runner *)

LEMMA Elements ==
  ASSUME NEW S, NEW s \in Seq(S)
  PROVE  /\ Len(s) \in Nat /\ DOMAIN s = 1..Len(s)
         /\ \A i \in DOMAIN s : s[i] \in S
         /\ s # <<>> => Len(s) > 0 /\ 1 \in DOMAIN s /\ Head(s) = s[1]
OBVIOUS

LEMMA RangeOfAppend ==
  ASSUME NEW S, NEW s \in Seq(S), NEW e \in S
  PROVE  Range(Append(s, e)) = Range(s) \cup {e}
<1>1. /\ Len(s) \in Nat /\ DOMAIN s = 1..Len(s) /\ DOMAIN Append(s, e) = 1..(Len(s) + 1)
      /\ \A i \in DOMAIN s : Append(s, e)[i] = s[i]
      /\ Append(s, e)[Len(s) + 1] = e
  OBVIOUS
<1>2. ASSUME NEW x \in Range(Append(s, e)) PROVE x \in Range(s) \cup {e}
  <2>1. PICK i \in 1..(Len(s) + 1) : x = Append(s, e)[i]
    BY <1>1 DEF Range
  <2>2. i \in DOMAIN s \/ i = Len(s) + 1
    BY <1>1
  <2> QED  BY <1>1, <2>1, <2>2 DEF Range
<1>3. ASSUME NEW x \in Range(s) \cup {e} PROVE x \in Range(Append(s, e))
  <2>1. DOMAIN s \subseteq DOMAIN Append(s, e) /\ Len(s) + 1 \in DOMAIN Append(s, e)
    BY <1>1
  <2> QED  BY <1>1, <1>3, <2>1 DEF Range
<1> QED
  BY <1>2, <1>3

\* Whatever order a heap gives its items away in, it gives away each once.
LEMMA PopsAll ==
  ASSUME NEW S, IsFiniteSet(S), NEW q \in PopOrders(S)
  PROVE  /\ q \in Seq(S)
         /\ \A x \in S : \E i \in DOMAIN q : q[i] = x
         /\ \A i, j \in DOMAIN q : q[i] = q[j] => i = j
         /\ \A i, j \in DOMAIN q : Before(q[j], q[i]) => j <= i
<1>1. Cardinality(S) \in Nat
  BY FS_CardinalityType
<1>2. q \in [1..Cardinality(S) -> S] /\ DOMAIN q = 1..Cardinality(S)
  BY DEF PopOrders
<1>3. ASSUME NEW i \in DOMAIN q, NEW j \in DOMAIN q, q[i] = q[j] PROVE i = j
  <2>1. ~(i < j) /\ ~(j < i)
    BY <1>3 DEF PopOrders
  <2> QED  BY <1>1, <1>2, <2>1
<1>4. q \in Injection(1..Cardinality(S), S)
  BY <1>2, <1>3 DEF Injection, IsInjective
<1>5. Cardinality(1..Cardinality(S)) = Cardinality(S)
  BY <1>1, FS_Interval
<1>6. q \in Surjection(1..Cardinality(S), S)
  BY <1>4, <1>5, FS_Injection
<1>7. ASSUME NEW i \in DOMAIN q, NEW j \in DOMAIN q, Before(q[j], q[i]) PROVE j <= i
  <2>1. ~(i < j)
    BY <1>7 DEF PopOrders
  <2> QED  BY <1>1, <1>2, <2>1
<1> QED
  BY <1>1, <1>2, <1>3, <1>6, <1>7 DEF Surjection

LEMMA InitPoll == Init => PollState
<1> SUFFICES ASSUME Init PROVE PollState
  OBVIOUS
<1>1. TypeInv
  <2>1. MaxTime \in Nat /\ 0 \in 0..MaxTime
    BY PollingAssumption
  <2>2. <<>> \in Seq(Item) /\ <<>> \in Seq(Push)
    OBVIOUS
  <2> QED  BY <2>1, <2>2 DEF Init, TypeInv
<1>2. CallsState
  BY PollingAssumption DEF Init, CallsState, NoCall, TasksOf, Range
<1>3. PushedState /\ QueueState
  BY FS_EmptySet DEF Init, PushedState, QueueState
<1>4. PendingState /\ RunsState
  BY DEF Init, PendingState, RunsState
<1> QED
  BY <1>1, <1>2, <1>3, <1>4 DEF PollState

LEMMA ReadClockKeeps ==
  ASSUME PollState, NEW p \in Posters, NEW t \in Tasks, ReadClock(p, t)
  PROVE  PollState' /\ call[p] = NoCall /\ call' = [call EXCEPT ![p] = call'[p]]
         /\ call'[p].task = t
<1>1. PICK d \in 0..MaxDelay :
        /\ clock + d <= MaxTime
        /\ call' = [call EXCEPT ![p] = [task |-> t, timePoint |-> clock + d]]
  BY DEF ReadClock
<1>2. /\ postPc[p] = "idle" /\ postPc' = [postPc EXCEPT ![p] = "insert"]
      /\ t \notin TasksOf(Range(pushed)) /\ t \notin TasksOf(Range(call))
      /\ UNCHANGED <<clock, queue, taskId, pending, iteration, inPoll, pushed, runs, atStart>>
  BY DEF ReadClock, Unpushed, pollVars
<1>3. [task |-> t, timePoint |-> clock + d] \in Push
  BY <1>1, PollingAssumption DEF PollState, TypeInv, Push
<1>4. /\ call \in [Posters -> Push \cup {NoCall}] /\ postPc \in [Posters -> {"idle", "insert"}]
      /\ call[p] = NoCall
  BY <1>2 DEF PollState, TypeInv, CallsState
<1>5. TypeInv'
  BY <1>1, <1>2, <1>3, <1>4 DEF PollState, TypeInv
<1>6. \A r \in Posters : call[r].task # t
  BY <1>2, <1>4 DEF TasksOf, Range
<1>7. CallsState'
  BY <1>1, <1>2, <1>3, <1>4, <1>6 DEF PollState, CallsState
<1>8. PushedState' /\ QueueState' /\ PendingState' /\ RunsState'
  BY <1>2 DEF PollState, PushedState, QueueState, PendingState, RunsState
<1> QED
  BY <1>1, <1>4, <1>5, <1>7, <1>8 DEF PollState

LEMMA InsertKeeps ==
  ASSUME PollState, NEW p \in Posters, Insert(p)
  PROVE  /\ PollState' /\ call' = [call EXCEPT ![p] = NoCall]
         /\ \E x \in queue' : queue' = queue \cup {x} /\ x.task = call[p].task
<1> DEFINE x == [task |-> call[p].task, timePoint |-> call[p].timePoint, taskId |-> taskId]
<1>1. /\ postPc[p] = "insert" /\ postPc' = [postPc EXCEPT ![p] = "idle"]
      /\ queue' = queue \cup {x} /\ taskId' = taskId + 1
      /\ pushed' = Append(pushed, call[p])
      /\ call' = [call EXCEPT ![p] = NoCall]
      /\ UNCHANGED <<clock, pending, iteration, inPoll, runs, atStart>>
  BY DEF Insert, pollVars
<1>2. /\ call[p] \in Push /\ pushed \in Seq(Push) /\ taskId \in Nat
      /\ call \in [Posters -> Push \cup {NoCall}] /\ postPc \in [Posters -> {"idle", "insert"}]
  BY <1>1 DEF PollState, TypeInv, CallsState
<1>3. x \in Item /\ x.task = call[p].task /\ x.timePoint = call[p].timePoint
  BY <1>2 DEF Item, Push
<1>4. TypeInv'
  BY <1>1, <1>2, <1>3 DEF PollState, TypeInv
<1>5. TasksOf(Range(pushed')) = TasksOf(Range(pushed)) \cup {x.task}
  <2>1. Range(Append(pushed, call[p])) = Range(pushed) \cup {call[p]}
    BY <1>2, RangeOfAppend
  <2> QED  BY <1>1, <1>3, <2>1 DEF TasksOf
<1>6. x.task \notin TasksOf(Range(pushed))
  BY <1>3 DEF PollState, CallsState
<1> HIDE DEF x
<1>7. CallsState'
  <2>1. NoCall.task \notin Tasks /\ TasksOf(Range(pushed)) \subseteq Tasks /\ x.task \in Tasks
    <3>1. Range(pushed) \subseteq Push
      BY <1>2, Elements DEF Range
    <3> QED  BY <1>2, <1>3, <3>1, PollingAssumption DEF NoCall, TasksOf, Push
  <2>2. \A r \in Posters : call'[r] = IF r = p THEN NoCall ELSE call[r]
    BY <1>1, <1>2
  <2>3. \A r \in Posters : r # p => call[r].task # x.task
    <3>1. \A r \in Posters : r # p /\ call[r].task = call[p].task => call[r] = NoCall
      BY DEF PollState, CallsState
    <3> QED  BY <1>3, <2>1, <3>1
  <2>4. \A r \in Posters : call'[r].task \notin TasksOf(Range(pushed'))
    BY <1>5, <2>1, <2>2, <2>3 DEF PollState, CallsState
  <2>5. \A r, s \in Posters : r # s /\ call'[r].task = call'[s].task => call'[r] = NoCall
    <3> SUFFICES ASSUME NEW r \in Posters, NEW s \in Posters, r # s,
                        call'[r].task = call'[s].task
                 PROVE  call'[r] = NoCall
      OBVIOUS
    <3>1. CASE r = p
      BY <2>2, <3>1
    <3>2. CASE r # p /\ s # p
      BY <2>2, <3>2 DEF PollState, CallsState
    <3>3. CASE r # p /\ s = p
      <4>1. call[r].task = NoCall.task
        BY <2>2, <3>3
      <4>2. call[r] \notin Push
        BY <2>1, <4>1 DEF Push
      <4> QED  BY <1>2, <2>2, <3>3, <4>2
    <3> QED  BY <3>1, <3>2, <3>3
  <2>6. \A r \in Posters :
          IF postPc'[r] = "insert" THEN call'[r] \in Push ELSE call'[r] = NoCall
    BY <1>1, <1>2, <2>2 DEF PollState, CallsState
  <2> QED  BY <2>4, <2>5, <2>6 DEF CallsState
<1>8. PushedState'
  <2>1. ASSUME NEW i \in DOMAIN pushed'
        PROVE  \/ pushed'[i].task \in atStart' /\ pushed'[i].timePoint <= clock'
               \/ \E y \in queue' :
                     y.task = pushed'[i].task /\ y.timePoint = pushed'[i].timePoint
    <3>1. CASE i \in DOMAIN pushed
      <4>1. pushed'[i] = pushed[i]
        BY <1>1, <1>2, <3>1
      <4> QED  BY <1>1, <3>1, <4>1 DEF PollState, PushedState
    <3>2. CASE i \notin DOMAIN pushed
      <4>1. pushed'[i] = call[p]
        BY <1>1, <1>2, <3>2
      <4> QED  BY <1>1, <1>3, <4>1
    <3> QED  BY <3>1, <3>2
  <2>2. atStart' \subseteq TasksOf(Range(pushed'))
    BY <1>1, <1>5 DEF PollState, PushedState
  <2> QED  BY <2>1, <2>2 DEF PushedState
<1>9. QueueState'
  <2>1. IsFiniteSet(queue')
    BY <1>1, FS_AddElement DEF PollState, QueueState
  <2>2. x.task \notin atStart
    BY <1>6 DEF PollState, PushedState
  <2>3. \A y \in queue : y.task # x.task
    BY <1>6 DEF PollState, QueueState
  <2>4. \A y \in queue' : y.task \in TasksOf(Range(pushed')) \ atStart'
    BY <1>1, <1>5, <2>2 DEF PollState, QueueState
  <2>5. \A y, z \in queue' : y.task = z.task => y = z
    BY <1>1, <2>3 DEF PollState, QueueState
  <2> QED  BY <2>1, <2>4, <2>5 DEF QueueState
<1>10. PendingState' /\ RunsState'
  BY <1>1 DEF PollState, PendingState, RunsState
<1> QED
  BY <1>1, <1>3, <1>4, <1>7, <1>8, <1>9, <1>10 DEF PollState

LEMMA StartPollKeeps ==
  ASSUME PollState, StartPoll
  PROVE  /\ PollState' /\ ~inPoll /\ pending = <<>>
         /\ \A x \in queue : x \in queue' \/ x \in Range(pending')
<1> DEFINE due == Due(queue, clock)
<1>1. /\ ~inPoll /\ inPoll' = TRUE /\ pending = <<>> /\ iteration' = 0
      /\ pending' \in PopOrders(due) /\ queue' = queue \ due
      /\ atStart' = {pushed[i].task : i \in {j \in DOMAIN pushed : pushed[j].timePoint <= clock}}
      /\ UNCHANGED <<clock, taskId, postPc, call, pushed, runs>>
  BY DEF StartPoll, postVars
<1>2. IsFiniteSet(queue) /\ queue \subseteq Item /\ pushed \in Seq(Push)
  BY DEF PollState, QueueState, TypeInv
<1>3. due \subseteq queue /\ \A x \in queue : x \in due <=> x.timePoint <= clock
  BY DEF Due
<1>4. IsFiniteSet(due) /\ IsFiniteSet(queue')
  BY <1>1, <1>2, <1>3, FS_Subset
<1> HIDE DEF due
<1>5. /\ pending' \in Seq(due)
      /\ \A x \in due : \E i \in DOMAIN pending' : pending'[i] = x
      /\ \A i, j \in DOMAIN pending' : pending'[i] = pending'[j] => i = j
  BY <1>1, <1>4, PopsAll
<1>6. \A i \in DOMAIN pending' : pending'[i] \in due
  BY <1>5
<1>7. \A t : t \in atStart' <=> t \in atStart \/ \E x \in due : x.task = t
  <2>1. ASSUME NEW t \in atStart PROVE t \in atStart'
    <3>1. PICK i \in DOMAIN pushed : pushed[i].task = t
      BY DEF PollState, PushedState, TasksOf, Range
    <3>2. pushed[i].timePoint <= clock
      BY <3>1 DEF PollState, PushedState, QueueState
    <3> QED  BY <1>1, <3>1, <3>2
  <2>2. ASSUME NEW x \in due PROVE x.task \in atStart'
    <3>1. x \in queue /\ x.timePoint <= clock /\ x.task \notin atStart
      BY <1>3 DEF PollState, QueueState
    <3>2. PICK i \in DOMAIN pushed : pushed[i].task = x.task
      BY <3>1 DEF PollState, QueueState, TasksOf, Range
    <3>3. PICK y \in queue : y.task = pushed[i].task /\ y.timePoint = pushed[i].timePoint
      BY <3>1, <3>2 DEF PollState, PushedState
    <3>4. y = x
      BY <3>1, <3>2, <3>3 DEF PollState, QueueState
    <3> QED  BY <1>1, <3>1, <3>2, <3>3, <3>4
  <2>3. ASSUME NEW t \in atStart', t \notin atStart PROVE \E x \in due : x.task = t
    <3>1. PICK i \in DOMAIN pushed : pushed[i].task = t /\ pushed[i].timePoint <= clock
      BY <1>1, <2>3
    <3>2. PICK y \in queue : y.task = pushed[i].task /\ y.timePoint = pushed[i].timePoint
      BY <2>3, <3>1 DEF PollState, PushedState
    <3> QED  BY <1>3, <3>1, <3>2
  <2> QED  BY <2>1, <2>2, <2>3
<1>8. TypeInv'
  <2>1. atStart' \subseteq Tasks
    <3>1. \A i \in DOMAIN pushed : pushed[i] \in Push
      BY <1>2, Elements
    <3> QED  BY <1>1, <3>1 DEF Push
  <2>2. pending' \in Seq(Item) /\ queue' \subseteq Item
    BY <1>1, <1>2, <1>3, <1>5
  <2> QED  BY <1>1, <2>1, <2>2 DEF PollState, TypeInv
<1>9. CallsState'
  BY <1>1 DEF PollState, CallsState
<1>10. PushedState'
  <2>1. ASSUME NEW i \in DOMAIN pushed, NEW x \in queue,
               x.task = pushed[i].task, x.timePoint = pushed[i].timePoint
        PROVE  (pushed[i].task \in atStart' /\ pushed[i].timePoint <= clock) \/ x \in queue'
    BY <1>1, <1>3, <1>7, <2>1
  <2>2. \A i \in DOMAIN pushed' :
          \/ pushed'[i].task \in atStart' /\ pushed'[i].timePoint <= clock'
          \/ \E x \in queue' : x.task = pushed'[i].task /\ x.timePoint = pushed'[i].timePoint
    BY <1>1, <1>7, <2>1 DEF PollState, PushedState
  <2>3. atStart' \subseteq TasksOf(Range(pushed'))
    BY <1>1 DEF TasksOf, Range
  <2> QED  BY <2>2, <2>3 DEF PushedState
<1>11. QueueState'
  BY <1>1, <1>3, <1>4, <1>7 DEF PollState, QueueState
<1>12. PendingState'
  <2>1. \A i \in DOMAIN pending' : pending'[i].task \in atStart' /\ pending'[i].timePoint <= clock'
    BY <1>1, <1>3, <1>6, <1>7
  <2>2. \A i, j \in DOMAIN pending' : pending'[i].task = pending'[j].task => i = j
    BY <1>3, <1>5, <1>6 DEF PollState, QueueState
  <2>3. ASSUME pending' # <<>> PROVE inPoll' /\ iteration' <= Iterations[Head(pending').task]
    <3>1. Head(pending').task \in Tasks
      BY <1>2, <1>3, <1>5, <2>3 DEF Item
    <3> QED  BY <1>1, <3>1, PollingAssumption
  <2> QED  BY <2>1, <2>2, <2>3 DEF PendingState
<1>13. RunsState'
  <2> SUFFICES ASSUME NEW t \in Tasks
      PROVE runs'[t] = IF t \notin atStart' THEN 0
                       ELSE IF pending' # <<>> /\ t = Head(pending').task THEN iteration'
                       ELSE IF \E i \in DOMAIN pending' : pending'[i].task = t THEN 0
                       ELSE AllRuns(t)
    BY DEF RunsState, AllRuns
  <2>1. runs'[t] = IF t \in atStart THEN AllRuns(t) ELSE 0
    BY <1>1 DEF PollState, RunsState
  <2>2. t \in atStart => \A i \in DOMAIN pending' : pending'[i].task # t
    BY <1>3, <1>6 DEF PollState, QueueState
  <2>3. t \in atStart' /\ t \notin atStart => \E i \in DOMAIN pending' : pending'[i].task = t
    BY <1>5, <1>7
  <2>4. pending' # <<>> => 1 \in DOMAIN pending' /\ Head(pending') = pending'[1]
    BY <1>5
  <2> QED  BY <1>1, <1>7, <2>1, <2>2, <2>3, <2>4
<1> QED
  BY <1>1, <1>3, <1>5, <1>8, <1>9, <1>10, <1>11, <1>12, <1>13 DEF PollState, Range

LEMMA RunTaskKeeps ==
  ASSUME PollState, RunTask
  PROVE  /\ PollState' /\ pending # <<>>
         /\ \A x \in Range(pending) : x \in Range(pending') \/ x = Head(pending)
<1> DEFINE t == Head(pending).task
<1>1. /\ inPoll /\ pending # <<>>
      /\ runs' = [runs EXCEPT ![t] = @ + 1]
      /\ UNCHANGED <<clock, queue, taskId, inPoll, postPc, call, pushed, atStart>>
  BY DEF RunTask, postVars
<1>2. \/ iteration < Iterations[t] /\ iteration' = iteration + 1 /\ pending' = pending
      \/ iteration = Iterations[t] /\ iteration' = 0 /\ pending' = Tail(pending)
  BY DEF RunTask
<1>3. /\ pending \in Seq(Item) /\ Len(pending) > 0 /\ Head(pending) = pending[1]
      /\ 1 \in DOMAIN pending /\ t \in Tasks /\ t = pending[1].task
  <2>1. pending \in Seq(Item)
    BY DEF PollState, TypeInv
  <2>2. Len(pending) > 0 /\ 1 \in DOMAIN pending /\ Head(pending) = pending[1] /\ pending[1] \in Item
    BY <1>1, <2>1, Elements
  <2> QED  BY <2>1, <2>2 DEF Item
<1>4. /\ iteration \in Nat /\ runs \in [Tasks -> Nat] /\ Iterations \in [Tasks -> Nat]
  BY PollingAssumption DEF PollState, TypeInv
<1>5. runs[t] = iteration /\ t \in atStart
  BY <1>1, <1>3 DEF PollState, RunsState, PendingState
<1> HIDE DEF t
<1>6. \A s \in Tasks : runs'[s] = IF s = t THEN iteration + 1 ELSE runs[s]
  BY <1>1, <1>3, <1>4, <1>5
<1>7. TypeInv'
  <2>1. pending' \in Seq(Item) /\ iteration' \in Nat
    <3>1. CASE pending' = pending /\ iteration' = iteration + 1
      BY <1>3, <1>4, <3>1
    <3>2. CASE pending' = Tail(pending) /\ iteration' = 0
      BY <1>1, <1>3, <3>2
    <3> QED  BY <1>2, <3>1, <3>2
  <2>2. runs' \in [Tasks -> Nat]
    BY <1>1, <1>3, <1>4
  <2> QED  BY <1>1, <2>1, <2>2 DEF PollState, TypeInv
<1>8. CallsState' /\ PushedState' /\ QueueState'
  BY <1>1 DEF PollState, CallsState, PushedState, QueueState
<1>9. CASE pending' = pending /\ iteration < Iterations[t] /\ iteration' = iteration + 1
  <2>1. PendingState'
    BY <1>1, <1>3, <1>4, <1>9 DEF PollState, PendingState
  <2>2. RunsState'
    BY <1>1, <1>3, <1>5, <1>6, <1>9 DEF PollState, RunsState, AllRuns
  <2> QED  BY <1>1, <1>7, <1>8, <1>9, <2>1, <2>2 DEF PollState
<1>10. CASE pending' = Tail(pending) /\ iteration = Iterations[t] /\ iteration' = 0
  <2>1. /\ DOMAIN pending = 1..Len(pending) /\ DOMAIN pending' = 1..(Len(pending) - 1)
        /\ \A i \in DOMAIN pending' : i + 1 \in DOMAIN pending /\ pending'[i] = pending[i + 1]
        /\ Len(pending) \in Nat /\ pending' \in Seq(Item)
    BY <1>3, <1>10
  <2>2. \A i \in DOMAIN pending : i # 1 => i - 1 \in DOMAIN pending' /\ pending'[i - 1] = pending[i]
    BY <2>1
  <2>3. pending' # <<>> => 1 \in DOMAIN pending' /\ Head(pending') = pending'[1]
    BY <2>1
  <2>4. PendingState'
    <3>1. \A i \in DOMAIN pending' : pending'[i].task \in atStart' /\ pending'[i].timePoint <= clock'
      BY <1>1, <2>1 DEF PollState, PendingState
    <3>2. ASSUME NEW i \in DOMAIN pending', NEW j \in DOMAIN pending',
                 pending'[i].task = pending'[j].task
          PROVE  i = j
      <4>1. pending[i + 1].task = pending[j + 1].task /\ i + 1 \in DOMAIN pending
            /\ j + 1 \in DOMAIN pending
        BY <2>1, <3>2
      <4>2. i + 1 = j + 1
        BY <4>1 DEF PollState, PendingState
      <4> QED  BY <2>1, <4>2
    <3>3. ASSUME pending' # <<>> PROVE iteration' <= Iterations[Head(pending').task]
      <4>1. Head(pending').task \in Tasks
        <5>1. Head(pending') \in Item
          BY <2>1, <3>3, Elements
        <5> QED  BY <5>1 DEF Item
      <4>2. Iterations[Head(pending').task] \in Nat
        BY <1>4, <4>1
      <4>3. iteration' = 0
        BY <1>10
      <4> QED  BY <4>2, <4>3
    <3> QED  BY <1>1, <3>1, <3>2, <3>3 DEF PendingState
  <2>5. RunsState'
    <3> SUFFICES ASSUME NEW s \in Tasks
        PROVE runs'[s] = IF s \notin atStart' THEN 0
                         ELSE IF pending' # <<>> /\ s = Head(pending').task THEN iteration'
                         ELSE IF \E i \in DOMAIN pending' : pending'[i].task = s THEN 0
                         ELSE AllRuns(s)
      BY DEF RunsState, AllRuns
    <3>1. CASE s = t
      <4>1. \A i \in DOMAIN pending' : pending'[i].task # t
        <5> SUFFICES ASSUME NEW i \in DOMAIN pending', pending'[i].task = t PROVE FALSE
          OBVIOUS
        <5>1. i + 1 \in DOMAIN pending /\ pending[i + 1].task = pending[1].task
          BY <1>3, <2>1
        <5>2. i + 1 = 1
          BY <1>3, <5>1 DEF PollState, PendingState
        <5> QED  BY <2>1, <5>2
      <4>2. ~(pending' # <<>> /\ s = Head(pending').task)
        BY <2>3, <3>1, <4>1
      <4> QED  BY <1>1, <1>5, <1>6, <1>10, <3>1, <4>1, <4>2 DEF AllRuns
    <3>2. CASE s # t
      <4>1. (\E i \in DOMAIN pending : pending[i].task = s)
              <=> (\E i \in DOMAIN pending' : pending'[i].task = s)
        BY <1>3, <2>1, <2>2, <3>2
      <4>2. runs'[s] = IF s \notin atStart THEN 0
                       ELSE IF \E i \in DOMAIN pending : pending[i].task = s THEN 0
                       ELSE AllRuns(s)
        BY <1>3, <1>6, <3>2 DEF PollState, RunsState
      <4>3. pending' # <<>> /\ s = Head(pending').task
              => \E i \in DOMAIN pending' : pending'[i].task = s
        BY <2>3
      <4> QED  BY <1>1, <1>10, <4>1, <4>2, <4>3
    <3> QED  BY <3>1, <3>2
  <2>6. \A x \in Range(pending) : x \in Range(pending') \/ x = Head(pending)
    BY <1>3, <2>2 DEF Range
  <2> QED  BY <1>1, <1>7, <1>8, <2>4, <2>5, <2>6 DEF PollState
<1> QED
  BY <1>2, <1>9, <1>10

LEMMA EndPollKeeps ==
  ASSUME PollState, EndPoll
  PROVE  PollState'
<1>1. /\ pending = <<>> /\ inPoll' = FALSE
      /\ UNCHANGED <<clock, queue, taskId, pending, iteration, postPc, call, pushed, runs, atStart>>
  BY DEF EndPoll, postVars
<1>2. TypeInv' /\ CallsState'
  BY <1>1 DEF PollState, TypeInv, CallsState
<1>3. PushedState' /\ QueueState' /\ RunsState'
  BY <1>1 DEF PollState, PushedState, QueueState, RunsState
<1>4. PendingState'
  BY <1>1 DEF PollState, PendingState
<1> QED
  BY <1>2, <1>3, <1>4 DEF PollState

LEMMA TickKeeps ==
  ASSUME PollState, Tick
  PROVE  PollState'
<1>1. /\ clock' = clock + 1 /\ clock < MaxTime
      /\ UNCHANGED <<queue, taskId, pending, iteration, inPoll, postPc, call, pushed, runs, atStart>>
  BY DEF Tick, pollVars, postVars
<1>2. clock \in 0..MaxTime /\ MaxTime \in Nat /\ pushed \in Seq(Push) /\ pending \in Seq(Item)
  BY PollingAssumption DEF PollState, TypeInv
<1>3. TypeInv'
  BY <1>1, <1>2 DEF PollState, TypeInv
<1>4. CallsState' /\ QueueState' /\ RunsState'
  BY <1>1 DEF PollState, CallsState, QueueState, RunsState
<1>5. PushedState'
  <2>1. \A i \in DOMAIN pushed : pushed[i].timePoint \in Nat
    <3>1. \A i \in DOMAIN pushed : pushed[i] \in Push
      BY <1>2, Elements
    <3> QED  BY <3>1 DEF Push
  <2> QED  BY <1>1, <1>2, <2>1 DEF PollState, PushedState
<1>6. PendingState'
  <2>1. \A i \in DOMAIN pending : pending[i].timePoint \in Nat
    <3>1. \A i \in DOMAIN pending : pending[i] \in Item
      BY <1>2, Elements
    <3> QED  BY <3>1 DEF Item
  <2> QED  BY <1>1, <1>2, <2>1 DEF PollState, PendingState
<1> QED
  BY <1>3, <1>4, <1>5, <1>6 DEF PollState

-----------------------------------------------------------------------------
(* The timer *)

LEMMA InitTimer == Timer!Init => TimerState
<1> SUFFICES ASSUME Timer!Init PROVE TimerState
  OBVIOUS
<1>1. Timer!TypeInv
  <2>1. <<>> \in Seq(Timer!Body) /\ 0 \in 0..MaxStarts
    BY TimerAssumption
  <2> QED  BY <2>1 DEF Timer!Init, Timer!TypeInv, Timer!EmptyTask
<1>2. Timer!RunningIsPending
  BY DEF Timer!Init, Timer!RunningIsPending
<1>3. Timer!NeverEarlyNorTwice
  BY DEF Timer!Init, Timer!NeverEarlyNorTwice
<1>4. callbacks \subseteq 1..timerTaskId /\ \A k \in Ids : k > timerTaskId => timerRuns[k] = 0
  BY DEF Timer!Init, Timer!Ids, Ids
<1> QED
  BY <1>1, <1>2, <1>3, <1>4 DEF TimerState

LEMMA Prepended ==
  ASSUME NEW S, NEW s \in Seq(S), NEW e \in S
  PROVE  /\ <<e>> \o s \in Seq(S)
         /\ (<<e>> \o s)[1] = e
         /\ \A i \in DOMAIN (<<e>> \o s) :
              i # 1 => i - 1 \in DOMAIN s /\ (<<e>> \o s)[i] = s[i - 1]
OBVIOUS

\* RunTask() runs the task of the last Start(), which has not run before.
LEMMA RunTaskIsRight ==
  ASSUME TimerState, alive, isRunning, NEW by \in {0, timerTaskId}, Timer!RunTask(by),
         callbacks' \subseteq callbacks, UNCHANGED <<timerTaskId, alive>>
  PROVE  /\ TimerState'
         /\ \A k \in Ids : timerRuns'[k] # timerRuns[k] => k = timerTaskId
         /\ \A i \in DOMAIN bodies' : \/ bodies'[i].by = by
                                      \/ i - 1 \in DOMAIN bodies /\ bodies'[i] = bodies[i - 1]
<1> DEFINE b == [by |-> by, task |-> timerTask]
<1>1. /\ timerTask' = 0 /\ isRunning' = FALSE /\ bodies' = <<b>> \o bodies
      /\ timerRuns' = [timerRuns EXCEPT ![timerTask] = @ + 1]
  BY DEF Timer!RunTask, Timer!EmptyTask
<1>2. /\ timerTask = timerTaskId /\ timerTaskId \in Ids /\ timerRuns[timerTaskId] = 0
      /\ callbacks \subseteq Ids
  <2>1. timerTask = timerTaskId /\ timerTaskId \in callbacks /\ timerRuns[timerTaskId] = 0
    BY DEF TimerState, Timer!RunningIsPending
  <2>2. callbacks \subseteq Ids
    BY DEF TimerState, Timer!TypeInv, Timer!Ids, Ids
  <2> QED  BY <2>1, <2>2
<1>3. /\ bodies \in Seq(Timer!Body) /\ timerRuns \in [Ids -> Nat] /\ timerTaskId \in 0..MaxStarts
      /\ alive \in BOOLEAN
  BY DEF TimerState, Timer!TypeInv, Timer!Ids, Ids
<1>4. b \in Timer!Body /\ b.by = by /\ b.by \in {Timer!FromFireNow, b.task}
  BY <1>2 DEF Timer!Body, Timer!Ids, Timer!FromFireNow, Ids
<1> HIDE DEF b
<1>5. /\ bodies' \in Seq(Timer!Body) /\ bodies'[1] = b
      /\ \A i \in DOMAIN bodies' : i # 1 => i - 1 \in DOMAIN bodies /\ bodies'[i] = bodies[i - 1]
  BY <1>1, <1>3, <1>4, Prepended
<1>6. \A k \in Ids : timerRuns'[k] = IF k = timerTaskId THEN 1 ELSE timerRuns[k]
  BY <1>1, <1>2, <1>3
<1>7. Timer!TypeInv'
  <2>1. timerRuns' \in [Ids -> Nat]
    BY <1>1, <1>2, <1>3
  <2> QED  BY <1>1, <1>2, <1>3, <1>5, <2>1 DEF Timer!TypeInv, Timer!Ids, Timer!EmptyTask, Ids
<1>8. Timer!RunningIsPending'
  BY <1>1 DEF Timer!RunningIsPending
<1>9. Timer!NeverEarlyNorTwice'
  <2>1. \A i \in DOMAIN bodies' : bodies'[i].by \in {Timer!FromFireNow, bodies'[i].task}
    BY <1>4, <1>5 DEF TimerState, Timer!NeverEarlyNorTwice
  <2>2. \A k \in Ids : timerRuns'[k] <= 1
    BY <1>6 DEF TimerState, Timer!NeverEarlyNorTwice, Timer!Ids, Ids
  <2> QED  BY <2>1, <2>2 DEF Timer!NeverEarlyNorTwice, Timer!Ids, Ids
<1>10. /\ callbacks' \subseteq 1..timerTaskId'
       /\ \A k \in Ids : k > timerTaskId' => timerRuns'[k] = 0
  BY <1>3, <1>6 DEF TimerState, Ids
<1>11. TimerState'
  BY <1>7, <1>8, <1>9, <1>10 DEF TimerState
<1>12. ASSUME NEW i \in DOMAIN bodies'
       PROVE  \/ bodies'[i].by = by
              \/ i - 1 \in DOMAIN bodies /\ bodies'[i] = bodies[i - 1]
  <2>1. CASE i = 1
    BY <1>4, <1>5, <2>1
  <2>2. CASE i # 1
    BY <1>5, <2>2
  <2> QED  BY <2>1, <2>2
<1> QED
  BY <1>6, <1>11, <1>12

LEMMA StartKeeps ==
  ASSUME TimerState, Timer!Start
  PROVE  TimerState' /\ timerTaskId' \in Ids
<1>1. /\ timerTaskId < MaxStarts /\ timerTask' = timerTaskId + 1
      /\ isRunning' = TRUE /\ timerTaskId' = timerTaskId + 1
      /\ callbacks' = callbacks \cup {timerTaskId + 1}
      /\ UNCHANGED <<alive, bodies, timerRuns>>
  BY DEF Timer!Start
<1>2. /\ timerTaskId \in 0..MaxStarts /\ callbacks \subseteq Ids /\ MaxStarts \in Nat
      /\ timerTaskId + 1 \in Ids
  BY <1>1, TimerAssumption DEF TimerState, Timer!TypeInv, Timer!Ids, Ids
<1>3. Timer!TypeInv'
  BY <1>1, <1>2 DEF TimerState, Timer!TypeInv, Timer!Ids, Timer!EmptyTask, Ids
<1>4. Timer!RunningIsPending'
  BY <1>1, <1>2 DEF TimerState, Timer!RunningIsPending
<1>5. Timer!NeverEarlyNorTwice'
  BY <1>1 DEF TimerState, Timer!NeverEarlyNorTwice
<1>6. /\ callbacks' \subseteq 1..timerTaskId'
      /\ \A k \in Ids : k > timerTaskId' => timerRuns'[k] = 0
  BY <1>1, <1>2 DEF TimerState, Ids
<1> QED
  BY <1>1, <1>2, <1>3, <1>4, <1>5, <1>6 DEF TimerState

LEMMA RunCallbackKeeps ==
  ASSUME TimerState, NEW id \in Ids, Timer!RunCallback(id)
  PROVE  /\ TimerState'
         /\ \A k \in Ids : timerRuns'[k] # timerRuns[k] => k = timerTaskId /\ alive
         /\ bodies = <<>> /\ callbacks' = callbacks \ {id}
         /\ \A i \in DOMAIN bodies' : bodies'[i].by = id
<1>1. /\ callbacks' = callbacks \ {id} /\ bodies = <<>>
      /\ UNCHANGED <<timerTaskId, alive>>
      /\ \/ alive /\ Timer!IsCurrent(id) /\ Timer!RunTask(id)
         \/ /\ ~(alive /\ Timer!IsCurrent(id))
            /\ UNCHANGED <<timerTask, isRunning, bodies, timerRuns>>
  BY DEF Timer!RunCallback
<1>2. CASE alive /\ Timer!IsCurrent(id) /\ Timer!RunTask(id)
  <2>1. isRunning /\ id = timerTaskId
    BY <1>2 DEF Timer!IsCurrent
  <2>2. DOMAIN bodies = {}
    BY <1>1
  <2> QED  BY <1>1, <1>2, <2>1, <2>2, RunTaskIsRight
<1>3. CASE /\ ~(alive /\ Timer!IsCurrent(id))
           /\ UNCHANGED <<timerTask, isRunning, bodies, timerRuns>>
  <2>1. Timer!TypeInv'
    BY <1>1, <1>3 DEF TimerState, Timer!TypeInv
  <2>2. Timer!RunningIsPending'
    BY <1>1, <1>3 DEF TimerState, Timer!RunningIsPending, Timer!IsCurrent
  <2>3. Timer!NeverEarlyNorTwice'
    BY <1>1, <1>3 DEF TimerState, Timer!NeverEarlyNorTwice
  <2>4. /\ callbacks' \subseteq 1..timerTaskId'
        /\ \A k \in Ids : k > timerTaskId' => timerRuns'[k] = 0
    BY <1>1, <1>3 DEF TimerState
  <2>5. DOMAIN bodies' = {}
    BY <1>1, <1>3
  <2> QED  BY <1>1, <1>3, <2>1, <2>2, <2>3, <2>4, <2>5 DEF TimerState
<1> QED
  BY <1>1, <1>2, <1>3

LEMMA FireNowKeeps ==
  ASSUME TimerState, Timer!FireNow
  PROVE  /\ TimerState' /\ callbacks' = callbacks /\ alive
         /\ \A k \in Ids : timerRuns'[k] # timerRuns[k] => k = timerTaskId
         /\ \A i \in DOMAIN bodies' : \/ bodies'[i].by = 0
                                      \/ i - 1 \in DOMAIN bodies /\ bodies'[i] = bodies[i - 1]
<1>1. /\ alive /\ isRunning /\ Timer!RunTask(0)
      /\ UNCHANGED <<timerTaskId, alive, callbacks>>
  BY DEF Timer!FireNow, Timer!FromFireNow
<1> QED
  BY <1>1, RunTaskIsRight

LEMMA ReturnKeeps ==
  ASSUME TimerState, Timer!Return
  PROVE  /\ TimerState' /\ UNCHANGED <<callbacks, timerRuns>>
         /\ \A i \in DOMAIN bodies' : i + 1 \in DOMAIN bodies /\ bodies'[i] = bodies[i + 1]
<1>1. /\ bodies # <<>> /\ bodies' = Tail(bodies)
      /\ isRunning' = (isRunning /\ Head(bodies).by # Timer!FromFireNow)
      /\ UNCHANGED <<timerTask, timerTaskId, alive, callbacks, timerRuns>>
  BY DEF Timer!Return
<1>2. bodies \in Seq(Timer!Body) /\ isRunning \in BOOLEAN
  BY DEF TimerState, Timer!TypeInv
<1>3. /\ bodies' \in Seq(Timer!Body)
      /\ \A i \in DOMAIN bodies' : i + 1 \in DOMAIN bodies /\ bodies'[i] = bodies[i + 1]
  BY <1>1, <1>2
<1>4. isRunning' \in BOOLEAN /\ (isRunning' => isRunning)
  BY <1>1, <1>2
<1>5. Timer!TypeInv'
  BY <1>1, <1>3, <1>4 DEF TimerState, Timer!TypeInv
<1>6. Timer!RunningIsPending'
  BY <1>1, <1>4 DEF TimerState, Timer!RunningIsPending
<1>7. Timer!NeverEarlyNorTwice'
  BY <1>1, <1>3 DEF TimerState, Timer!NeverEarlyNorTwice
<1>8. /\ callbacks' \subseteq 1..timerTaskId'
      /\ \A k \in Ids : k > timerTaskId' => timerRuns'[k] = 0
  BY <1>1 DEF TimerState
<1> QED
  BY <1>1, <1>3, <1>5, <1>6, <1>7, <1>8 DEF TimerState

LEMMA DestroyKeeps ==
  ASSUME TimerState, Timer!Destroy
  PROVE  TimerState' /\ UNCHANGED <<callbacks, bodies, timerRuns>>
<1>1. /\ alive' = FALSE
      /\ UNCHANGED <<timerTask, timerTaskId, isRunning, callbacks, bodies, timerRuns>>
  BY DEF Timer!Destroy
<1>2. Timer!TypeInv'
  BY <1>1 DEF TimerState, Timer!TypeInv
<1>3. Timer!RunningIsPending' /\ Timer!NeverEarlyNorTwice'
  BY <1>1 DEF TimerState, Timer!RunningIsPending, Timer!NeverEarlyNorTwice
<1> QED
  BY <1>1, <1>2, <1>3 DEF TimerState

-----------------------------------------------------------------------------
(* Both together *)

\* The timer stays as it is.
LEMMA TimerStays ==
  ASSUME UNCHANGED timerVars
  PROVE  /\ TimerState => TimerState'
         /\ UNCHANGED <<callbacks, bodies, timerRuns>>
<1>1. UNCHANGED <<timerTask, timerTaskId, isRunning, alive, callbacks, bodies, timerRuns>>
  BY DEF timerVars
<1>2. TimerState => Timer!TypeInv'
  BY <1>1 DEF TimerState, Timer!TypeInv
<1>3. TimerState => Timer!RunningIsPending' /\ Timer!NeverEarlyNorTwice'
  BY <1>1 DEF TimerState, Timer!RunningIsPending, Timer!NeverEarlyNorTwice
<1> QED
  BY <1>1, <1>2, <1>3 DEF TimerState

\* The runner stays as it is.
LEMMA PollStays ==
  ASSUME UNCHANGED vars
  PROVE  PollState => PollState'
<1>1. /\ UNCHANGED <<clock, queue, taskId, pending, iteration, inPoll>>
      /\ UNCHANGED <<postPc, call, pushed, runs, atStart>>
  BY DEF vars, pollVars, postVars
<1>2. PollState => TypeInv' /\ CallsState'
  BY <1>1 DEF PollState, TypeInv, CallsState
<1>3. PollState => PushedState' /\ QueueState'
  BY <1>1 DEF PollState, PushedState, QueueState
<1>4. PollState => PendingState' /\ RunsState'
  BY <1>1 DEF PollState, PendingState, RunsState
<1> QED
  BY <1>2, <1>3, <1>4 DEF PollState

\* A step that loses no callback the timer still waits for keeps it on its way.
LEMMA StaysOnTheWay ==
  ASSUME OnTheWay,
         \A k \in callbacks' : k \in callbacks,
         \A x \in Range(call) \cup queue \cup Range(pending) :
            \/ x.task \notin callbacks'
            \/ \E y \in Range(call') \cup queue' \cup Range(pending') : y.task = x.task
  PROVE  OnTheWay'
BY DEF OnTheWay, TasksOf

LEMMA CallbacksAreTasks == TimerState => callbacks \subseteq Ids /\ Ids \subseteq Tasks
BY TimerAssumption DEF TimerState, Timer!TypeInv, Timer!Ids, Ids

\* Another call of PostDelayedTaskWithIterations().
LEMMA PostsOnTheWay ==
  ASSUME IInv, NEW p \in Posters, NEW t \in Tasks, ReadClock(p, t)
  PROVE  /\ t \in TasksOf(Range(call') \cup queue' \cup Range(pending'))
         /\ \A x \in Range(call) \cup queue \cup Range(pending) :
              \/ x.task \notin Tasks
              \/ x \in Range(call') \cup queue' \cup Range(pending')
<1>1. /\ call[p] = NoCall /\ call' = [call EXCEPT ![p] = call'[p]] /\ call'[p].task = t
      /\ call \in [Posters -> Push \cup {NoCall}]
  BY ReadClockKeeps DEF IInv, PollState, TypeInv
<1>2. UNCHANGED <<queue, pending>>
  BY DEF ReadClock, pollVars
<1>3. NoCall.task \notin Tasks
  BY PollingAssumption DEF NoCall
<1>4. DOMAIN call = Posters /\ DOMAIN call' = Posters
  BY <1>1
<1>5. t \in TasksOf(Range(call'))
  BY <1>1, <1>4 DEF TasksOf, Range
<1>6. ASSUME NEW x \in Range(call), x.task \in Tasks PROVE x \in Range(call')
  <2>1. PICK r \in Posters : x = call[r]
    BY <1>4 DEF Range
  <2>2. r # p
    BY <1>1, <1>3, <1>6, <2>1
  <2>3. call'[r] = x
    BY <1>1, <2>1, <2>2
  <2> QED  BY <1>4, <2>3 DEF Range
<1> QED
  BY <1>2, <1>5, <1>6 DEF TasksOf

LEMMA InitIInv == TimerInit => IInv
<1> SUFFICES ASSUME TimerInit PROVE IInv
  OBVIOUS
<1>1. PollState /\ TimerState
  BY InitPoll, InitTimer DEF TimerInit
<1>2. OnTheWay /\ BodiesState
  BY DEF TimerInit, Timer!Init, OnTheWay, BodiesState
<1> QED
  BY <1>1, <1>2 DEF IInv

\* Every step keeps the invariant, and runs none but the last task.
LEMMA NextIInv ==
  ASSUME IInv, [TimerNext]_<<vars, timerVars>>
  PROVE  /\ IInv'
         /\ \A k \in Ids : timerRuns'[k] # timerRuns[k] => k = timerTaskId /\ alive
<1> DEFINE P == /\ IInv'
                /\ \A k \in Ids : timerRuns'[k] # timerRuns[k] => k = timerTaskId /\ alive
<1>1. PollState /\ TimerState /\ OnTheWay /\ BodiesState
  BY DEF IInv
<1>2. callbacks \subseteq Ids /\ Ids \subseteq Tasks
  BY <1>1, CallbacksAreTasks
<1>3. ASSUME NEW p \in Posters, FinishPost(p) PROVE P
  <2>1. Insert(p) /\ UNCHANGED timerVars
    BY <1>3 DEF FinishPost
  <2>2. PollState' /\ TimerState' /\ UNCHANGED <<callbacks, bodies, timerRuns>>
    BY <1>1, <2>1, InsertKeeps, TimerStays
  <2>3. PICK x \in queue' : queue' = queue \cup {x} /\ x.task = call[p].task
    BY <1>1, <2>1, InsertKeeps
  <2>4. /\ call' = [call EXCEPT ![p] = NoCall] /\ pending' = pending
        /\ call \in [Posters -> Push \cup {NoCall}]
    BY <1>1, <2>1 DEF Insert, pollVars, PollState, TypeInv
  <2>5. ASSUME NEW y \in Range(call) PROVE y \in Range(call') \/ y.task = x.task
    <3>1. PICK r \in Posters : y = call[r]
      BY <2>4 DEF Range
    <3>2. r # p => call'[r] = y
      BY <2>4, <3>1
    <3>3. DOMAIN call' = Posters
      BY <2>4
    <3> QED  BY <2>3, <3>1, <3>2, <3>3 DEF Range
  <2>6. OnTheWay'
    BY <1>1, <2>2, <2>3, <2>4, <2>5, StaysOnTheWay
  <2>7. BodiesState'
    BY <1>1, <2>2, <2>4 DEF BodiesState
  <2> QED  BY <2>2, <2>6, <2>7 DEF IInv
<1>4. ASSUME NEW p \in Posters, NEW t \in Tasks \ Ids, Post(p, t) PROVE P
  <2>1. ReadClock(p, t) /\ UNCHANGED timerVars
    BY <1>4 DEF Post
  <2>2. PollState' /\ TimerState' /\ UNCHANGED <<callbacks, bodies, timerRuns>>
    BY <1>1, <2>1, ReadClockKeeps, TimerStays
  <2>3. pending' = pending
    BY <2>1 DEF ReadClock, pollVars
  <2>4. OnTheWay'
    BY <1>1, <1>2, <2>1, <2>2, PostsOnTheWay, StaysOnTheWay
  <2>5. BodiesState'
    BY <1>1, <2>2, <2>3 DEF BodiesState
  <2> QED  BY <2>2, <2>4, <2>5 DEF IInv
<1>5. ASSUME StartTimer PROVE P
  <2>1. Timer!Start /\ ReadClock(Poller, timerTaskId') /\ Poller \in Posters
    BY <1>5 DEF StartTimer, Posters
  <2>2. TimerState' /\ timerTaskId' \in Ids
    BY <1>1, <2>1, StartKeeps
  <2>3. /\ callbacks' = callbacks \cup {timerTaskId'}
        /\ UNCHANGED <<bodies, timerRuns>>
    BY <2>1 DEF Timer!Start
  <2>4. timerTaskId' \in Tasks
    BY <1>2, <2>2
  <2>5. PICK t \in Tasks : t = timerTaskId'
    BY <2>4
  <2>6. PollState'
    BY <1>1, <2>1, <2>5, ReadClockKeeps
  <2>7. pending' = pending
    BY <2>1 DEF ReadClock, pollVars
  <2>8. OnTheWay'
    <3>1. /\ t \in TasksOf(Range(call') \cup queue' \cup Range(pending'))
          /\ \A x \in Range(call) \cup queue \cup Range(pending) :
                x.task \notin Tasks \/ x \in Range(call') \cup queue' \cup Range(pending')
      BY <2>1, <2>5, PostsOnTheWay
    <3> QED  BY <1>1, <1>2, <2>3, <2>5, <3>1 DEF OnTheWay, TasksOf
  <2>9. BodiesState'
    BY <1>1, <2>3, <2>7 DEF BodiesState
  <2> QED  BY <2>2, <2>3, <2>6, <2>8, <2>9 DEF IInv
<1>6. ASSUME FireNow PROVE P
  <2>1. Timer!FireNow /\ UNCHANGED vars
    BY <1>6 DEF FireNow
  <2>2. /\ TimerState' /\ callbacks' = callbacks /\ alive
        /\ \A k \in Ids : timerRuns'[k] # timerRuns[k] => k = timerTaskId
        /\ \A i \in DOMAIN bodies' : \/ bodies'[i].by = 0
                                     \/ i - 1 \in DOMAIN bodies /\ bodies'[i] = bodies[i - 1]
    BY <1>1, <2>1, FireNowKeeps
  <2>3. PollState' /\ UNCHANGED <<call, queue, pending>>
    BY <1>1, <2>1, PollStays DEF vars, pollVars, postVars
  <2>4. OnTheWay'
    BY <1>1, <2>2, <2>3 DEF OnTheWay
  <2>5. BodiesState'
    BY <1>1, <2>2, <2>3 DEF BodiesState, Ids
  <2> QED  BY <2>2, <2>3, <2>4, <2>5 DEF IInv
<1>7. ASSUME Return PROVE P
  <2>1. Timer!Return /\ UNCHANGED vars
    BY <1>7 DEF Return
  <2>2. /\ TimerState' /\ UNCHANGED <<callbacks, timerRuns>>
        /\ \A i \in DOMAIN bodies' : i + 1 \in DOMAIN bodies /\ bodies'[i] = bodies[i + 1]
    BY <1>1, <2>1, ReturnKeeps
  <2>3. PollState' /\ UNCHANGED <<call, queue, pending>>
    BY <1>1, <2>1, PollStays DEF vars, pollVars, postVars
  <2>4. OnTheWay'
    BY <1>1, <2>2, <2>3 DEF OnTheWay
  <2>5. BodiesState'
    BY <1>1, <2>2, <2>3 DEF BodiesState
  <2> QED  BY <2>2, <2>3, <2>4, <2>5 DEF IInv
<1>8. ASSUME DestroyTimer PROVE P
  <2>1. Timer!Destroy /\ UNCHANGED vars
    BY <1>8 DEF DestroyTimer
  <2>2. TimerState' /\ UNCHANGED <<callbacks, bodies, timerRuns>>
    BY <1>1, <2>1, DestroyKeeps
  <2>3. PollState' /\ UNCHANGED <<call, queue, pending>>
    BY <1>1, <2>1, PollStays DEF vars, pollVars, postVars
  <2>4. OnTheWay' /\ BodiesState'
    BY <1>1, <2>2, <2>3 DEF OnTheWay, BodiesState
  <2> QED  BY <2>2, <2>3, <2>4 DEF IInv
<1>9. ASSUME NEW id \in Ids, CallBack(id) PROVE P
  <2>1. Timer!RunCallback(id) /\ UNCHANGED vars /\ pending # <<>> /\ Head(pending).task = id
    BY <1>9 DEF CallBack, NextCallback
  <2>2. /\ TimerState' /\ bodies = <<>> /\ callbacks' = callbacks \ {id}
        /\ \A k \in Ids : timerRuns'[k] # timerRuns[k] => k = timerTaskId /\ alive
        /\ \A i \in DOMAIN bodies' : bodies'[i].by = id
    BY <1>1, <2>1, RunCallbackKeeps
  <2>3. PollState' /\ UNCHANGED <<call, queue, pending>>
    BY <1>1, <2>1, PollStays DEF vars, pollVars, postVars
  <2>4. OnTheWay'
    BY <1>1, <2>2, <2>3 DEF OnTheWay
  <2>5. BodiesState'
    BY <2>1, <2>2, <2>3 DEF BodiesState
  <2> QED  BY <2>2, <2>3, <2>4, <2>5 DEF IInv
<1>10. ASSUME Poll PROVE P
  <2>1. StartPoll /\ bodies = <<>> /\ UNCHANGED timerVars
    BY <1>10 DEF Poll
  <2>2. /\ PollState' /\ pending = <<>>
        /\ \A x \in queue : x \in queue' \/ x \in Range(pending')
    BY <1>1, <2>1, StartPollKeeps
  <2>3. TimerState' /\ UNCHANGED <<callbacks, bodies, timerRuns, call>>
    BY <1>1, <2>1, TimerStays DEF StartPoll, postVars
  <2>4. Range(pending) = {}
    BY <2>2 DEF Range
  <2>5. OnTheWay'
    BY <1>1, <2>2, <2>3, <2>4, StaysOnTheWay
  <2>6. BodiesState'
    BY <2>1, <2>3 DEF BodiesState
  <2> QED  BY <2>2, <2>3, <2>5, <2>6 DEF IInv
<1>11. ASSUME GoOn PROVE P
  <2>1. RunTask /\ bodies = <<>> /\ UNCHANGED timerVars /\ ~\E id \in Ids : NextCallback(id)
    BY <1>11 DEF GoOn
  <2>2. /\ PollState' /\ pending # <<>>
        /\ \A x \in Range(pending) : x \in Range(pending') \/ x = Head(pending)
    BY <1>1, <2>1, RunTaskKeeps
  <2>3. TimerState' /\ UNCHANGED <<callbacks, bodies, timerRuns, call, queue>>
    BY <1>1, <2>1, TimerStays DEF RunTask, postVars
  <2>4. Head(pending).task \notin callbacks
    BY <1>2, <2>1, <2>2 DEF NextCallback
  <2>5. OnTheWay'
    BY <1>1, <2>2, <2>3, <2>4, StaysOnTheWay
  <2>6. BodiesState'
    BY <2>1, <2>3 DEF BodiesState
  <2> QED  BY <2>2, <2>3, <2>5, <2>6 DEF IInv
<1>12. ASSUME StopPoll \/ Wait PROVE P
  <2>1. (EndPoll \/ Tick) /\ UNCHANGED timerVars
    BY <1>12 DEF StopPoll, Wait
  <2>2. PollState'
    BY <1>1, <2>1, EndPollKeeps, TickKeeps
  <2>3. TimerState' /\ UNCHANGED <<callbacks, bodies, timerRuns>>
    BY <1>1, <2>1, TimerStays
  <2>4. UNCHANGED <<call, queue, pending>>
    BY <2>1 DEF EndPoll, Tick, pollVars, postVars
  <2>5. OnTheWay' /\ BodiesState'
    BY <1>1, <2>3, <2>4 DEF OnTheWay, BodiesState
  <2> QED  BY <2>2, <2>3, <2>5 DEF IInv
<1>13. ASSUME UNCHANGED <<vars, timerVars>> PROVE P
  <2>1. PollState' /\ TimerState' /\ UNCHANGED <<callbacks, bodies, timerRuns>>
    BY <1>1, <1>13, PollStays, TimerStays
  <2>2. UNCHANGED <<call, queue, pending>>
    BY <1>13 DEF vars, pollVars, postVars
  <2>3. OnTheWay' /\ BodiesState'
    BY <1>1, <2>1, <2>2 DEF OnTheWay, BodiesState
  <2> QED  BY <2>1, <2>3 DEF IInv
<1> HIDE DEF P
<1>14. P
  BY <1>3, <1>4, <1>5, <1>6, <1>7, <1>8, <1>9, <1>10, <1>11, <1>12, <1>13 DEF TimerNext
<1> QED
  BY <1>14 DEF P

LEMMA Invariance == TimerSpec => []IInv
<1>1. TimerInit => IInv
  BY InitIInv
<1>2. IInv /\ [TimerNext]_<<vars, timerVars>> => IInv'
  BY NextIInv
<1> QED
  BY <1>1, <1>2, PTL DEF TimerSpec

\* The variables of the runner and of the timer stay in their types.
THEOREM TypeCorrect == TimerSpec => [](TypeInv /\ Timer!TypeInv)
<1>1. IInv => TypeInv /\ Timer!TypeInv
  BY DEF IInv, PollState, TimerState
<1> QED
  BY Invariance, <1>1, PTL

\* For any number of threads, tasks and iterations: a call of
\* RunPendingTasks() runs what was due when it began, and nothing else.
THEOREM PollsAreExact == TimerSpec => []PollRunsExactlyWhatIsDue
<1>1. ASSUME IInv PROVE PollRunsExactlyWhatIsDue
  <2> SUFFICES ASSUME ~inPoll, NEW t \in Tasks
               PROVE  runs[t] = IF t \in atStart THEN AllRuns(t) ELSE 0
    BY DEF PollRunsExactlyWhatIsDue
  <2>1. pending = <<>> /\ DOMAIN pending = {}
    BY <1>1 DEF IInv, PollState, PendingState
  <2> QED  BY <1>1, <2>1 DEF IInv, PollState, RunsState
<1> QED
  BY Invariance, <1>1, PTL

\* Of a timer that is running, the runner has the callback.
THEOREM RunningTimersArePending == TimerSpec => []RunningIsPending
<1>1. IInv => RunningIsPending
  <2>1. TimerState /\ alive /\ isRunning => timerTaskId \in callbacks
    BY DEF TimerState, Timer!RunningIsPending
  <2> QED  BY <2>1 DEF IInv, TimerState, OnTheWay, RunningIsPending
<1> QED
  BY Invariance, <1>1, PTL

\* However a timer is started, fired, restarted and destroyed, a callback runs
\* its own task only, once, and not before its time.
THEOREM TimersAreExact == TimerSpec => []NeverEarlyNorTwice
<1>1. ASSUME IInv PROVE NeverEarlyNorTwice
  <2>1. Timer!NeverEarlyNorTwice
    BY <1>1 DEF IInv, TimerState
  <2>2. ASSUME NEW i \in DOMAIN bodies, bodies[i].by \in Ids
        PROVE  /\ inPoll /\ Head(pending).task = bodies[i].by
               /\ Head(pending).timePoint <= clock
    <3>1. pending # <<>> /\ Head(pending).task = bodies[i].by
      BY <1>1, <2>2 DEF IInv, BodiesState
    <3>2. Head(pending) = pending[1] /\ 1 \in DOMAIN pending
      BY <1>1, <3>1, Elements DEF IInv, PollState, TypeInv
    <3>3. inPoll /\ pending[1].timePoint <= clock
      BY <1>1, <3>1, <3>2 DEF IInv, PollState, PendingState
    <3> QED  BY <3>1, <3>2, <3>3
  <2> QED  BY <2>1, <2>2 DEF NeverEarlyNorTwice
<1> QED
  BY Invariance, <1>1, PTL

\* What was replaced by a later Start() or cancelled by the destructor does not
\* run, whatever the runner still has of it.
THEOREM ReplacedDoesNotRun == TimerSpec => OnlyTheLastRuns
<1>1. IInv /\ [TimerNext]_<<vars, timerVars>>
        => [\A k \in Timer!Ids : timerRuns'[k] # timerRuns[k]
                                   => k = timerTaskId /\ alive]_Timer!vars
  BY NextIInv DEF Timer!Ids, Ids
<1> QED
  BY Invariance, <1>1, PTL DEF TimerSpec, OnlyTheLastRuns, Timer!OnlyTheLastRuns

-----------------------------------------------------------------------------
(* The order of the polls *)

\* An item has the number of its task in the order of the insertions.
Numbered(x) ==
  /\ x.taskId + 1 \in DOMAIN pushed
  /\ pushed[x.taskId + 1] = [task |-> x.task, timePoint |-> x.timePoint]

\* What waits in pending_tasks_ is in order, and what was inserted before it and
\* is still in the queue is due later.
OrderState ==
  /\ taskId = Len(pushed)
  /\ \A i, j \in DOMAIN pushed : pushed[i].task = pushed[j].task => i = j
  /\ \A x \in queue : Numbered(x)
  /\ \A k \in DOMAIN pending : Numbered(pending[k])
  /\ \A k, l \in DOMAIN pending : Before(pending[l], pending[k]) => l <= k
  /\ \A x \in queue, k \in DOMAIN pending :
        x.taskId < pending[k].taskId => pending[k].timePoint < x.timePoint

LEMMA InsertOrders ==
  ASSUME PollState, OrderState, NEW p \in Posters, Insert(p)
  PROVE  OrderState' /\ DueTasks!Post
<1>x. PICK x :
        x = [task |-> call[p].task, timePoint |-> call[p].timePoint, taskId |-> taskId]
  OBVIOUS
<1>1. /\ postPc[p] = "insert" /\ queue' = queue \cup {x} /\ taskId' = taskId + 1
      /\ pushed' = Append(pushed, call[p])
      /\ UNCHANGED <<clock, pending, runs>>
  BY <1>x DEF Insert, pollVars
<1>2. /\ call[p] \in Push /\ pushed \in Seq(Push)
      /\ call[p].task \notin TasksOf(Range(pushed))
  BY <1>1 DEF PollState, TypeInv, CallsState
<1>3. /\ Len(pushed) \in Nat /\ DOMAIN pushed = 1..Len(pushed) /\ taskId = Len(pushed)
      /\ Len(pushed') = Len(pushed) + 1 /\ DOMAIN pushed' = 1..(Len(pushed) + 1)
      /\ \A i \in DOMAIN pushed : pushed'[i] = pushed[i] /\ i \in DOMAIN pushed'
      /\ pushed'[Len(pushed) + 1] = call[p]
  BY <1>1, <1>2 DEF OrderState
<1>4. \A i \in DOMAIN pushed : pushed[i].task # call[p].task
  BY <1>2 DEF TasksOf, Range
<1>5. \A y : Numbered(y) => Numbered(y)'
  BY <1>3 DEF Numbered
<1>6. call[p] = [task |-> x.task, timePoint |-> x.timePoint] /\ x.taskId = taskId
  BY <1>x, <1>2 DEF Push
<1>7. Numbered(x)'
  BY <1>3, <1>6 DEF Numbered
<1>8. taskId' = Len(pushed')
  BY <1>1, <1>3
<1>9. \A i, j \in DOMAIN pushed' : pushed'[i].task = pushed'[j].task => i = j
  <2>1. \A i \in DOMAIN pushed' : i \in DOMAIN pushed \/ i = Len(pushed) + 1
    BY <1>3
  <2> QED  BY <1>3, <1>4, <2>1 DEF OrderState
<1>10. \A k \in DOMAIN pending : pending[k] \in Item /\ pending[k].taskId < taskId
  <2>1. \A k \in DOMAIN pending : pending[k] \in Item
    BY Elements DEF PollState, TypeInv
  <2>2. \A k \in DOMAIN pending :
           pending[k].taskId \in Nat /\ pending[k].taskId + 1 \in 1..Len(pushed)
    BY <1>3, <2>1 DEF OrderState, Numbered, Item
  <2> QED  BY <1>3, <2>1, <2>2
<1>11. \A y \in queue', k \in DOMAIN pending' :
          y.taskId < pending'[k].taskId => pending'[k].timePoint < y.timePoint
  <2>1. \A k \in DOMAIN pending : ~(x.taskId < pending[k].taskId)
    BY <1>3, <1>6, <1>10 DEF Item
  <2> QED  BY <1>1, <2>1 DEF OrderState
<1>12. OrderState'
  BY <1>1, <1>5, <1>7, <1>8, <1>9, <1>11 DEF OrderState
<1>13. call[p] \in DueTasks!Push
  BY <1>2 DEF Push, DueTasks!Push
<1> QED
  BY <1>1, <1>4, <1>12, <1>13 DEF DueTasks!Post

LEMMA StartPollOrders ==
  ASSUME PollState, OrderState, StartPoll
  PROVE  OrderState' /\ UNCHANGED <<clock, pushed, runs>>
<1> DEFINE due == Due(queue, clock)
<1>1. /\ pending' \in PopOrders(due) /\ queue' = queue \ due
      /\ UNCHANGED <<clock, taskId, pushed, runs>>
  BY DEF StartPoll
<1>2. IsFiniteSet(queue) /\ queue \subseteq Item /\ clock \in Nat
  BY PollingAssumption DEF PollState, QueueState, TypeInv
<1>3. due \subseteq queue /\ \A x \in queue : x \in due <=> x.timePoint <= clock
  BY DEF Due
<1>4. IsFiniteSet(due)
  BY <1>2, <1>3, FS_Subset
<1> HIDE DEF due
<1>5. /\ \A i \in DOMAIN pending' : pending'[i] \in due
      /\ \A i, j \in DOMAIN pending' : Before(pending'[j], pending'[i]) => j <= i
  BY <1>1, <1>4, PopsAll
<1>6. \A x \in queue : Numbered(x)'
  BY <1>1 DEF OrderState, Numbered
<1>7. \A x \in queue', k \in DOMAIN pending' : pending'[k].timePoint < x.timePoint
  <2>1. \A x \in queue : x.timePoint \in Nat
    BY <1>2, PollingAssumption DEF Item
  <2> QED  BY <1>1, <1>2, <1>3, <1>5, <2>1
<1> QED
  BY <1>1, <1>3, <1>5, <1>6, <1>7 DEF OrderState

\* The head of pending_tasks_ is the task whose turn it is.
LEMMA RunTaskOrders ==
  ASSUME PollState, OrderState, RunTask
  PROVE  OrderState' /\ \E t \in Tasks : DueTasks!Run(t)
<1> DEFINE x == Head(pending)
           t == x.task
           i == x.taskId + 1
<1>1. /\ pending # <<>> /\ runs' = [runs EXCEPT ![t] = @ + 1]
      /\ UNCHANGED <<clock, queue, taskId, pushed>>
      /\ \/ iteration < Iterations[t] /\ pending' = pending
         \/ iteration = Iterations[t] /\ pending' = Tail(pending)
  BY DEF RunTask
<1>2. /\ pending \in Seq(Item) /\ x = pending[1] /\ 1 \in DOMAIN pending /\ x \in Item
      /\ Len(pending) \in Nat /\ DOMAIN pending = 1..Len(pending)
  BY <1>1, Elements DEF PollState, TypeInv
<1>3. /\ t \in Tasks /\ x.taskId \in Nat /\ x.timePoint \in Nat
  BY <1>2, PollingAssumption DEF Item
<1>4. /\ i \in DOMAIN pushed /\ pushed[i].task = t /\ pushed[i].timePoint = x.timePoint
      /\ x.timePoint <= clock
  <2>1. Numbered(pending[1]) /\ pending[1].timePoint <= clock
    BY <1>2 DEF OrderState, PollState, PendingState
  <2> QED  BY <1>2, <2>1 DEF Numbered
<1>5. runs[t] < AllRuns(t) /\ runs[t] \in Nat
  <2>1. runs[t] = iteration /\ iteration <= Iterations[t]
    BY <1>1, <1>2, <1>3 DEF PollState, RunsState, PendingState
  <2> QED  BY <1>3, <2>1, PollingAssumption DEF PollState, TypeInv, AllRuns
<1> HIDE DEF x, t, i
<1>6. ASSUME NEW j \in 1..(i - 1), pushed[j].timePoint <= pushed[i].timePoint
      PROVE  DueTasks!HasRun(pushed[j].task)
  <2>1. /\ j \in DOMAIN pushed /\ j \in Nat /\ j < i /\ i = x.taskId + 1
        /\ pushed[j] \in Push /\ pushed[j].timePoint \in Nat /\ pushed[j].task \in Tasks
    <3>1. pushed \in Seq(Push) /\ i \in 1..Len(pushed) /\ Len(pushed) \in Nat
      BY <1>4 DEF PollState, TypeInv
    <3>2. j \in DOMAIN pushed /\ j \in Nat /\ j < i
      BY <3>1
    <3>3. pushed[j] \in Push
      BY <3>1, <3>2
    <3> QED  BY <3>2, <3>3, PollingAssumption DEF Push, i
  <2>2. ASSUME NEW y \in Item, Numbered(y), y.task = pushed[j].task
        PROVE  y.taskId + 1 = j /\ y.timePoint = pushed[j].timePoint /\ y.taskId < x.taskId
    <3>1. y.taskId + 1 = j
      BY <2>1, <2>2 DEF OrderState, Numbered
    <3>2. y.timePoint = pushed[j].timePoint
      BY <2>2, <3>1 DEF Numbered
    <3>3. y.taskId \in Nat
      BY DEF Item
    <3> QED  BY <1>3, <2>1, <3>1, <3>2, <3>3
  <2>3. ~\E y \in queue : y.task = pushed[j].task
    <3> SUFFICES ASSUME NEW y \in queue, y.task = pushed[j].task PROVE FALSE
      OBVIOUS
    <3>1. y \in Item /\ Numbered(y)
      BY DEF OrderState, PollState, TypeInv
    <3>2. y.taskId < x.taskId /\ y.timePoint = pushed[j].timePoint
      BY <2>2, <3>1
    <3>3. x.timePoint < y.timePoint
      BY <1>2, <3>2 DEF OrderState
    <3> QED  BY <1>3, <1>4, <1>6, <2>1, <3>2, <3>3
  <2>4. ~\E k \in DOMAIN pending : pending[k].task = pushed[j].task
    <3> SUFFICES ASSUME NEW k \in DOMAIN pending, pending[k].task = pushed[j].task
                 PROVE  FALSE
      OBVIOUS
    <3>1. pending[k] \in Item /\ Numbered(pending[k])
      BY <1>2 DEF OrderState
    <3>2. pending[k].taskId < x.taskId /\ pending[k].timePoint = pushed[j].timePoint
      BY <2>2, <3>1
    <3>3. Before(pending[k], pending[1])
      BY <1>2, <1>3, <1>4, <1>6, <2>1, <3>2 DEF Before
    <3>4. k <= 1
      BY <1>2, <3>3 DEF OrderState
    <3>5. pending[k] = x
      BY <1>2, <3>4
    <3> QED  BY <1>3, <3>2, <3>5
  <2>5. pushed[j].task \in atStart
    BY <2>1, <2>3 DEF PollState, PushedState
  <2>6. runs[pushed[j].task] = AllRuns(pushed[j].task)
    BY <1>2, <2>1, <2>4, <2>5 DEF PollState, RunsState, x
  <2> QED  BY <2>6 DEF DueTasks!HasRun, AllRuns
<1>7. DueTasks!IsNext(i)
  <2>1. Iterations[t] \in Nat
    BY <1>3, PollingAssumption
  <2>2. ~DueTasks!HasRun(t)
    BY <1>5, <2>1 DEF DueTasks!HasRun, AllRuns
  <2> QED  BY <1>4, <1>6, <2>2 DEF DueTasks!IsNext
<1>8. DueTasks!Run(t)
  BY <1>1, <1>4, <1>7 DEF DueTasks!Run
<1>9. OrderState'
  <2>1. \A y : Numbered(y) => Numbered(y)'
    BY <1>1 DEF Numbered
  <2>2. CASE pending' = pending
    BY <1>1, <2>1, <2>2 DEF OrderState
  <2>3. CASE pending' = Tail(pending)
    <3>1. \A k \in DOMAIN pending' : k \in Nat /\ k + 1 \in DOMAIN pending
                                       /\ pending'[k] = pending[k + 1]
      <4>1. pending \in Seq(Item) /\ Len(pending) > 0
        BY <1>2
      <4>2. /\ DOMAIN pending' = 1..(Len(pending) - 1)
            /\ \A k \in 1..(Len(pending) - 1) : pending'[k] = pending[k + 1]
        BY <2>3, <4>1
      <4> QED  BY <1>2, <4>2
    <3>2. ASSUME NEW k \in DOMAIN pending' PROVE Numbered(pending[k])'
      <4>1. PICK y : y = pending[k + 1]
        OBVIOUS
      <4>2. Numbered(y)' /\ pending'[k] = y
        BY <2>1, <3>1, <4>1 DEF OrderState
      <4> QED  BY <4>2 DEF Numbered
    <3>3. ASSUME NEW k \in DOMAIN pending', NEW l \in DOMAIN pending',
                 Before(pending'[l], pending'[k])
          PROVE  l <= k
      <4>1. l + 1 <= k + 1
        BY <3>1, <3>3 DEF OrderState
      <4> QED  BY <3>1, <4>1
    <3>4. \A y \in queue', k \in DOMAIN pending' :
            y.taskId < pending'[k].taskId => pending'[k].timePoint < y.timePoint
      BY <1>1, <3>1 DEF OrderState
    <3> QED  BY <1>1, <2>1, <3>2, <3>3, <3>4 DEF OrderState
  <2> QED  BY <1>1, <2>2, <2>3
<1> QED  BY <1>3, <1>8, <1>9

\* Every step keeps the order and is one of DueQueue, or none of its business.
LEMMA OrderStep ==
  ASSUME PollState, OrderState, [TimerNext]_<<vars, timerVars>>
  PROVE  OrderState' /\ [DueTasks!Next]_(DueTasks!vars)
<1> DEFINE P == OrderState' /\ (DueTasks!Next \/ UNCHANGED DueTasks!vars)
<1>1. ASSUME UNCHANGED <<queue, taskId, pending, pushed>> PROVE OrderState'
  <2>1. \A y : Numbered(y) => Numbered(y)'
    BY <1>1 DEF Numbered
  <2> QED  BY <1>1, <2>1 DEF OrderState
<1>2. ASSUME UNCHANGED <<clock, pushed, runs>> PROVE UNCHANGED DueTasks!vars
  BY <1>2 DEF DueTasks!vars
<1>3. ASSUME NEW p \in Posters, FinishPost(p) PROVE P
  BY <1>3, InsertOrders DEF FinishPost, DueTasks!Next
<1>4. ASSUME Poll PROVE P
  BY <1>2, <1>4, StartPollOrders DEF Poll
<1>5. ASSUME GoOn PROVE P
  BY <1>5, RunTaskOrders DEF GoOn, DueTasks!Next
<1>6. ASSUME Wait PROVE P
  <2>1. clock' = clock + 1 /\ UNCHANGED <<queue, taskId, pending, pushed, runs>>
    BY <1>6 DEF Wait, Tick, pollVars
  <2>2. DueTasks!Tick
    BY <2>1 DEF DueTasks!Tick
  <2> QED  BY <1>1, <2>1, <2>2 DEF DueTasks!Next
<1>7. ASSUME \/ \E p \in Posters : \E t \in Tasks \ Ids : Post(p, t)
             \/ StartTimer \/ FireNow \/ Return \/ DestroyTimer
             \/ \E id \in Ids : CallBack(id)
             \/ StopPoll
             \/ UNCHANGED <<vars, timerVars>>
      PROVE  P
  <2>1. UNCHANGED <<clock, queue, taskId, pending, pushed, runs>>
    BY <1>7 DEF Post, StartTimer, ReadClock, FireNow, Return, DestroyTimer, CallBack,
                StopPoll, EndPoll, vars, pollVars
  <2> QED  BY <1>1, <1>2, <2>1
<1> HIDE DEF P
<1>8. P
  BY <1>3, <1>4, <1>5, <1>6, <1>7 DEF TimerNext
<1> QED  BY <1>8 DEF P

\* Polling, too, is what is promised to those who post with a delay: nothing is
\* run before it is due, nor before what was posted earlier and is due no later,
\* nor more often than asked, whatever tasks and other threads post meanwhile.
THEOREM ImplementsDue == TimerSpec => ImplementsDueQueue
<1>1. TimerInit => OrderState /\ DueTasks!Init
  BY DEF TimerInit, Init, OrderState, DueTasks!Init
<1>2. IInv /\ OrderState /\ [TimerNext]_<<vars, timerVars>>
        => OrderState' /\ [DueTasks!Next]_(DueTasks!vars)
  BY OrderStep DEF IInv
<1> QED
  BY Invariance, <1>1, <1>2, PTL DEF TimerSpec, DueTasks!Spec, ImplementsDueQueue
=============================================================================
