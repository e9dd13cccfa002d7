------------------------------- MODULE Barrier -------------------------------
(***************************************************************************)
(* rst::Barrier: a counter under a mutex and one condition variable.  Each *)
(* thread makes one of the three calls.  The threads that wait are woken   *)
(* one by one: whoever gets past the barrier notifies the next one after   *)
(* it has released the mutex.                                              *)
(***************************************************************************)
EXTENDS Integers, FiniteSets

CONSTANT Threads

ASSUME BarrierAssumption == IsFiniteSet(Threads) /\ Threads # {}

VARIABLES counter,   \* counter_
          call,      \* the call each thread makes
          pc         \* where it is in that call

vars == <<counter, call, pc>>

Calls == {"CountDown", "CountDownAndWait", "Wait"}

Counting(c) == {t \in Threads : c[t] # "Wait"}

TypeInv ==
  /\ counter \in 0..Cardinality(Threads)
  /\ call \in [Threads -> Calls]
  /\ pc \in [Threads -> {"outside", "waiting", "woken", "passed", "left"}]

\* The barrier is made for as many countdowns as there will be.
Init ==
  /\ call \in [Threads -> Calls]
  /\ counter = Cardinality(Counting(call))
  /\ counter > 0
  /\ pc = [t \in Threads |-> "outside"]

-----------------------------------------------------------------------------

\* cv_.notify_one() in a state where the threads are at p.
NotifyOne(p) ==
  LET parked == {t \in Threads : p[t] = "waiting"}
  IN  IF parked = {} THEN {p} ELSE {[p EXCEPT ![t] = "woken"] : t \in parked}

\* The loop around cv_.wait(): park until the counter is zero.
WaitLoop(t) ==
  pc' = [pc EXCEPT ![t] = IF counter' = 0 THEN "passed" ELSE "waiting"]

CountDownAndWait(t) ==
  /\ pc[t] = "outside" /\ call[t] = "CountDownAndWait"
  /\ counter > 0
  /\ counter' = counter - 1
  /\ WaitLoop(t)
  /\ UNCHANGED call

\* Mutant: nobody notifies for a CountDown() that reaches zero.
CountDownSilent(t) ==
  /\ pc[t] = "outside" /\ call[t] = "CountDown"
  /\ counter > 0
  /\ counter' = counter - 1
  /\ pc' = [pc EXCEPT ![t] = "left"]
  /\ UNCHANGED call

\* Only the thread that reaches zero goes on to notify.
CountDown(t) ==
  /\ pc[t] = "outside" /\ call[t] = "CountDown"
  /\ counter > 0
  /\ counter' = counter - 1
  /\ pc' = [pc EXCEPT ![t] = IF counter' = 0 THEN "passed" ELSE "left"]
  /\ UNCHANGED call

Wait(t) ==
  /\ pc[t] = "outside" /\ call[t] = "Wait"
  /\ UNCHANGED <<counter, call>>
  /\ WaitLoop(t)

\* Mutant: `if' in place of `while' around the wait.
WakeUpOnce(t) ==
  /\ pc[t] = "woken"
  /\ UNCHANGED <<counter, call>>
  /\ pc' = [pc EXCEPT ![t] = "passed"]

\* The thread has the mutex again and looks at the counter once more.
WakeUp(t) ==
  /\ pc[t] = "woken"
  /\ UNCHANGED <<counter, call>>
  /\ WaitLoop(t)

\* Mutant: who gets past the barrier does not wake the next one.
NotifySilent(t) ==
  /\ pc[t] = "passed"
  /\ pc' = [pc EXCEPT ![t] = "left"]
  /\ UNCHANGED <<counter, call>>

\* The notify_one() at the end of each call, without the mutex.
Notify(t) ==
  /\ pc[t] = "passed"
  /\ pc' \in NotifyOne([pc EXCEPT ![t] = "left"])
  /\ UNCHANGED <<counter, call>>

SpuriousWakeup(t) ==
  /\ pc[t] = "waiting"
  /\ pc' = [pc EXCEPT ![t] = "woken"]
  /\ UNCHANGED <<counter, call>>

Step(t) ==
  \/ CountDownAndWait(t)
  \/ CountDown(t)
  \/ Wait(t)
  \/ WakeUp(t)
  \/ Notify(t)

Next == \E t \in Threads : Step(t) \/ SpuriousWakeup(t)

Spec == Init /\ [][Next]_vars

\* Every thread makes its call and is scheduled inside it.  Nothing is assumed
\* of spurious wakeups: the chain of notifications has to reach everyone.
FairSpec == Spec /\ \A t \in Threads : WF_vars(Step(t))

-----------------------------------------------------------------------------

\* A thread that waits gets past the barrier only after every countdown, and
\* the counter never misses one: "Threads block until the counter is
\* decremented to zero".
NobodyPassesEarly ==
  \A t \in Threads :
    call[t] # "CountDown" /\ pc[t] \in {"passed", "left"} =>
      \A u \in Counting(call) : pc[u] # "outside"

\* The wake-up chain is never broken: when the counter is zero and somebody is
\* parked, somebody else is still going to notify.
ChainUnbroken ==
  counter = 0 /\ (\E t \in Threads : pc[t] = "waiting") =>
    \E t \in Threads : pc[t] \in {"woken", "passed"}

\* Everybody gets through, though each notification wakes only one thread.
EveryoneLeaves == <>(\A t \in Threads : pc[t] = "left")
=============================================================================
