----------------------------- MODULE DelayedItems -----------------------------
(***************************************************************************)
(* The priority queue of internal::Item that ServiceTaskRunner and         *)
(* PollingTaskRunner keep in a vector with c_push_heap() and c_pop_heap(). *)
(* A set stands for the heap: its front is the least item.                 *)
(***************************************************************************)
EXTENDS Integers, Sequences, FiniteSets

\* Mutant: items that are due at the same time are not told apart.
BeforeByTime(x, y) == x.timePoint < y.timePoint

\* Item::operator>(), the other way round.
Before(x, y) ==
  \/ x.timePoint < y.timePoint
  \/ x.timePoint = y.timePoint /\ x.taskId < y.taskId

Front(items) == CHOOSE x \in items : \A y \in items \ {x} : ~Before(y, x)

\* Mutant: everything is popped once the loop has begun.
DueAll(items, now) == items

\* Mutant: an item that is due right now is left in the queue.
DueStrictly(items, now) == {x \in items : x.timePoint < now}

\* The items that the loop pops: the front again and again until it is not due.
Due(items, now) == {x \in items : x.timePoint <= now}

\* The orders in which a heap may give away all items of a set.
PopOrders(items) ==
  {q \in [1..Cardinality(items) -> items] :
      \A i, j \in DOMAIN q : i < j => q[i] # q[j] /\ ~Before(q[j], q[i])}
=============================================================================
