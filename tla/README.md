# A formal model of rst

`rst` is a C++ utility library (`src/rst`). The parts that carry most of its
behaviour are the task runners with the barrier and the timer that are built on
them; further out are file replacement, preferences and values, the status
objects, the pointer classes and the logger. This directory holds TLA+ modules of these parts, TLC
configurations that check them on small instances, and TLAPS proofs that hold
for every size.

Contents: [inventory](#inventory), [modules](#modules), [runs](#runs),
[fairness](#fairness), [proofs](#proofs), [findings](#findings),
[not modelled](#what-is-not-modelled), [plan](#plan).

## Inventory

| Component | State | Operations | Interacts with | What is hard | What makes it correct |
|---|---|---|---|---|---|
| `ThreadPoolTaskRunner::DelayedTaskRunner` | `tasks_`, `thread_id_to_thread_map_`, `waiting_threads_num_`, `should_exit_`, one mutex, one condition variable | `PushTask(s)`, `WaitAndRunTasks` in each worker, destructor | called by clients, by the service thread and by its own tasks | which waiter a notification releases, keep-alive timeouts, workers created on demand, the destructor sharing the condition variable | every task is started in order and as often as asked, never after the destructor has begun; thread limit; no lost wakeup; the destructor returns and leaves nobody behind |
| `ThreadPoolTaskRunner::ServiceTaskRunner` | `delayed_tasks_` (heap), `task_id_`, `should_exit_`, one thread | `PushTask`, `WaitAndScheduleTasks`, destructor | hands batches to `DelayedTaskRunner::PushTasks` | clock read outside the mutex, `wait_for` without a loop, pushes that overtake the sleep | nothing early, lost or doubled; due order; never oversleeps; can be stopped |
| `ThreadPoolTaskRunner` | the two above | `PostDelayedTaskWithIterations` | `TaskRunner` | order of destruction | delay 0 goes to the pool, the rest through the service thread |
| `TaskRunner` | the `AppliedItem` of a call | `PostTask`, `PostDelayedTask`, `ApplyTaskSync` | any runner, `Barrier` | concurrent runs of one function, lifetime of the shared item | each index once, return only after all, item outlives its users |
| `PollingTaskRunner` | `queue_` (heap), `task_id_`, `pending_tasks_` | `PostDelayedTaskWithIterations`, `RunPendingTasks` | tasks that post again, other threads that post | posts during the walk over `pending_tasks_` | a call runs exactly what was due |
| `Barrier` | `counter_`, one condition variable | `CountDown`, `CountDownAndWait`, `Wait` | `TaskRunner::ApplyTaskSync` | one notification wakes one thread, outside the mutex | nobody early, everybody in the end |
| `OneShotTimer` (with `bind`, `WeakPtr`, `TakeFunction`) | `task_`, `task_id_`, `is_running_`, validity of its `WeakPtr`s | `Start`, `FireNow`, `RunTask`, destructor | posts callbacks to a task runner | stale callbacks, re-entrant tasks | only the last started task runs, once, and only by its own callback or `FireNow` |
| `files` | the file and its temporary file | `WriteFile`, `WriteImportantFile`, `ReadFile` | file system, `guid` | failures and crashes between the steps | the file has its old or its new content, and a read sees one of them whole; temporary files may stay behind |
| `preferences`, `value` | defaults by path, a tree of values | `Register*`, `Get*`, `Set*`, `SetPath`, `FindPath`, moves, comparisons | `PreferencesStore` | paths that are prefixes, one type for all numbers | what was set is read back with its type |
| `status` | `was_checked_`, the union in `StatusOr` | construction, moves, checks, `RST_TRY` | everything that can fail | moves and assignments | no error goes unchecked |
| `not_null` | `ptr_`, `was_checked_` | construction, assignment and `Take()` of `NotNull` and `Nullable` around raw, unique and shared pointers, comparisons | everything that holds a pointer | what is left behind by a move; a check that outlives what it was about | one owner or a right count for every object; nothing is dereferenced unchecked |
| `memory`, `bind` | `flag_` of an object and of its `WeakPtr`s | `AsWeakPtr`, copies, moves, `GetNullable`, `Bind` | owners of any kind, `OneShotTimer` | addresses that are used again, the death of the object between the check and the use | a `WeakPtr` is valid as long as its object lives, and no longer; a bound body has its object |
| `logger` | `g_logger`, `level_`, the mutex and the `FILE` of each sink | `Create`, `SetLevel`, `SetGlobalLogger`, `Log` | sinks, `Format` | several threads, messages that end the program, a level filter | lines are whole and not lost |
| `strings` | none that outlives a call | `Format`, `StrCat`, `Arg` | logger, errors | braces that meet, the size computed beforehand | exactly the documented text |
| `rtti` | none (the addresses of `id_` members) | `GetClassID`, `IsA`, `dyn_cast` | `status`, errors of `files` | classes that must not share an id | an error is what its class or a parent of it says |
| `guid`, `random` | the digits of a guid | generation, formatting, validation | names of temporary files | digit positions | what is generated is a valid version 4 guid and keeps what was drawn |
| `type`, `clone`, `defer`, `stl`, `no_destructor`, `check`, `macros` | none that outlives a call | functions without state and wrappers | | | |

`PROJECT.json` lists the components with their status and, under `hazards`,
what can go wrong in each at which line.

## Modules

`TaskQueue` is the abstract specification: tasks are posted, started in order
as often as their iterations say, return, and nothing starts once the queue is
closed. It does not say who runs the tasks.

`DueQueue` is the abstract specification for tasks that are posted with a delay:
each is run when it is due, as often as it was posted for, and after every task
that was posted before it and is due no later. A runner may be late, and the
order of tasks of which the later one is due earlier is left open.

`DelayedTaskRunner` is the core. Every stretch of code that holds
`thread_mutex_` is one action, since nothing it touches is accessed without the
mutex; a `notify_one()` after the unlock is an action of its own. `pc` says
where each thread is:

| `pc` | Place in `thread_pool_task_runner.cc` |
|---|---|
| `none` | not in `thread_id_to_thread_map_` |
| `loop` | top of `while (true)`, about to take the mutex (:69) |
| `waiting` | parked in `wait_for` (:79), for the destructor in `wait` (:52) |
| `woken`, `timedOut` | released from the wait, does not have the mutex yet |
| `leaving` | has returned, the deferred block is to come (:58) |
| `notifyMore` | has a task, `had_items` is set (:101) |
| `running` | inside `task()` (:104) |
| `notifyPushed` | a pusher between unlock and `notify_one()` (:136, :163) |

The condition variable is modelled by what the standard promises: `notify_one`
releases one of the parked threads, whichever it is; a wait may return
spuriously; `wait_for` returns `timeout` at any time after the expiry, even if
the thread was notified first but got the mutex too late. Tasks are values; a
running task may post others, also during the destruction. Clients do not call
a runner that is being destroyed. A worker id that has left the map may be used
again. `posted`, `runs` and `finished` are history variables, and they are what
`TaskQueue` talks about.

`Barrier` has one action per critical section and one for the notification
after it. Each thread makes one call, and the counter starts with the number of
calls that count down.

`ApplyTaskSync` extends `Barrier`, whose threads are the runs of the task and the
caller, composes it with `TaskQueue` (the runner, whichever it is, by `INSTANCE`)
and adds the shared `AppliedItem`: the index counter,
the references, and each run's way through the lambda. Because it only uses
what `TaskQueue` promises, and `DelayedTaskRunner` implements `TaskQueue`, it
holds on the pool as long as a worker is free for the runs.

`DelayedItems` has the ordering of `internal::Item` and the popping of due
items, shared by the next two modules that keep a queue. A set stands for the
heap.

`ServiceTaskRunner` splits `PushTask` in three actions (clock, insertion,
notification) and has one action per stretch with the mutex of the service
thread, `PushTasks` for the hand-over and three for the destructor. `pushed` is a
history variable, the tasks with the times at which they are due, in the order of
their insertion.

`ThreadPoolTaskRunner` is `DelayedTaskRunner` with `ServiceTaskRunner` in front of
it. The service thread is one of the pool's clients, and `PushTasks` of the one is
`Enqueue` of the other in one step; the workers are clients of both, from the
bodies of tasks. A thread is in one call at a time. A task with a delay goes to
the service, the others (`Immediate`) to the pool. The members are destroyed in
the reverse of their order in the class, the service first, while tasks may
still run and post without a delay. The properties of both parts are checked
here, where the callers of each are the real ones. Seen by those who post with a
delay the whole implements `DueQueue`: `Insert` is its `Post`, `TakeTask` of a
delayed task its `Run`, `Destroy` of the pool its `Close`.

`PollingTaskRunner` has the same posting actions, `StartPoll` (the critical
section of `RunPendingTasks`), one `RunTask` per invocation and `EndPoll`. It
implements `DueQueue`, too, with `RunTask` for its `Run`.
`atStart` remembers what was due when the call had the mutex. A task posted
with iterations is posted again by the loop.

`OneShotTimer` keeps a stack of task bodies in progress, since a body may start
and fire the timer again. A task is named by the `task_id_` of its `Start`. The
task runner is a set of callbacks, each delivered once, in any order.

`PolledTimer` puts that timer on `PollingTaskRunner` in place of the set: the
callback of the k-th `Start` is the task k of the runner, is posted by the same
three actions as any other, and is called by `RunPendingTasks` when it is the
head of `pending_tasks_`. The timer is used by the thread that polls, between
two polls or in the body of a task; other threads only post.

`ImportantFile` has one action per call into the C library or the file system,
each of which may fail, writers and readers on one file at once, and a `Crash`
of the application at any moment. `pc` is where a writer is in
`WriteImportantFile`:

| `pc` | Place in `file_utils.cc` |
|---|---|
| `opened` | `fopen` has succeeded, exclusively (:71) |
| `filled` | `fwrite` has succeeded, the file is open (:79) |
| `closed` | `fclose` has succeeded, before `Rename` (:117) |
| `stuck` | `Rename` has failed, before `Remove` (:118) |

A file is a piece of what somebody wrote: which data, and how many bytes of it.
Until `fclose` has succeeded any number of them may be on the disk. Two writers
may make up the same temporary name. `ReadFile` is modelled pass by pass, with
the size it asks for by name, while the open file remains the one it opened.
`AtomicFile` is what this adds up to: each call acts on the file at one moment
or not at all, and nothing is said of temporary files. `ErrorInfo` has the
classes of errors as `rtti` tells them apart; a call that fails returns one of
them, and `FailedAs` asks by `dyn_cast` which it was. That no temporary file is
left by a call that succeeded, or that could not open one, is
`OnlyFailuresLeaveFiles`.

`Guid` makes, formats and checks guids out of the digits that were drawn.
`MCImportantFile` draws three pairs of numbers, two of which differ only in the
digits that the version and the variant overwrite, checks the two statements of
`Guid` on them, and names the temporary files by the results.

`Value` represents a value by its type and the members of the union whose life
has begun. Moves and assignments come in the code's branches: same type, both
without a destructor, and the others, where a member is destroyed before another
is made; a member that nobody destroyed would remain in the record (`IsSound`
says that none does). The constructors with their assertion on 64-bit integers,
typed access, `FindKey`, `SetKey`, `RemoveKey`, `FindPath` and `SetPath` follow.
Numbers are integers in units of a fraction, so that the comparison within epsilon
has neighbours that are equal and others that are not. `nullptr` is anything
without a type. `ValueTree` has what calls itself for the values inside a value:
`Clone` and the comparisons.

`Preferences` adds the registered defaults and the calls, one action for the
setters of all types. `Contents` are the values that the program makes, and all
values in them. A program also sets preferences to parts of clones of what it has
read; what `Clone` returns is a parameter here (`Cloned`), since the module is one
that is proved about and `Clone` is recursive, and the instance gives it the
`Clone` of `ValueTree`. `TypeNamesTheMember` looks at every value in the store, down
to `MaxDepth`. `PathStore` is the reference the paths are checked against: a
function from paths to what is found there, without any tree. `StoredValues` adds
`OrderIsStrictWeak`, which clones and compares all values that a program has in its
preferences. Two numbers within an epsilon may be equal and one less than the
other at once, as the code has it; the property names this exception, and what it
rules out is a tolerance in `operator<`. `GettersDoNotAssert` says when a getter whose own
checks hold is stopped by the one inside `Value`: when an int preference was set to
a number that is no int, and never otherwise.

`Status` models the objects of both classes by the place where they live; a
place may be reused. Calls whose assertions would fail are not steps: the
program ends there. `noticed` is a history variable, the errors whose present
holder was asked by `err()` or `Ignore()`; a move takes the error out of it.

`NotNull` has a variable of the program for each `NotNull` or `Nullable`, around a
raw, a unique or a shared pointer, and the memory: the object at each address
and the references to it. What a constructor, an assignment or `Take()` does is
composed of what it does to the smart pointers (`Copied`, `MovedOut`, `Store`)
and to `was_checked_`. `compared` is a history variable: somebody compared this
pointer, here or in the variable it came from, and it was not null. A raw
pointer may dangle, as in C++; `DereferencedAfterCheck` then only asks for the
comparison.

`WeakPtr` extends it with weak pointers and bound functions. Every object has a
flag, named by the object and not by its address, so that an address that is
used again has another flag. A call of a bound function is two steps, entry and
return, and anything may happen in between: a function bound to a
`std::weak_ptr` holds a reference for that time, one bound to a `WeakPtr` does
not, and whoever destroys the object meanwhile breaks the rule that `WeakPtr`
is used on the thread of its object. `BodiesHaveTheirObject` says what each
form promises.

`Text` is `Format()` as a table over the places of the format and the arguments
used, filled from the end, with the room computed beforehand and every
assertion: the result is a set with the text, or empty where the code would
abort, `format_size` not being what `strlen` says among it (`LengthIsStrlen`: a
format with a `'\0'` inside). `Logger` makes the messages with it; `FormatIsExact`
compares it with all ways to cut a format string into pairs of braces and single
characters (`Expansions`), of which a format with a `'\0'` has none. Each thread is in `Log()` at one of
the places between the level filter, the mutex of the sink, the two halves of
the `fprintf` (the line and its end), the `fflush` and the abort of a fatal
message; the C library may write out a buffer at any moment. `End` is the end
of the program at any moment, and all that the buffers hold is lost.

The `MC*` modules give constants their values for TLC. Each module with an
operator marked `Mutant` in its comment holds a variant of the definition below
it, with a plausible bug; the specification never uses it. They show that each
property can fail: replace the definition by the mutant and TLC reports the
property that `PROJECT.json` pairs with it.

## Runs

| Run | Instance | Shows |
|---|---|---|
| `pool_keep_alive` | 3 worker ids, limit 2, 1 client, 3 tasks of which one has 2 iterations, batches of up to 2, keep-alive expires | threads accounted for, nobody left behind, the destructor returns; the pool implements `TaskQueue` |
| `pool_timeout` | 2 workers, 1 client, keep-alive expires | expected violation, see [findings](#findings) |
| `thread_pool` | 2 workers, 1 client, the service thread, two tasks with delays 2 and 1 and one without, two of the three to run twice, clock up to 2, keep-alive does not expire | no lost wakeup and no dropped baton, a service thread that does not oversleep, no call into a destroyed part, every posted task runs, the destruction ends; implements the fair `TaskQueue` and `DueQueue` |
| `barrier_calls` | 4 threads, every assignment of the three calls | nobody passes early, everybody leaves |
| `apply_three` | 3 iterations | all indices once before the return, no collision, the item's lifetime, the call returns |
| `polled_timer` | 1 client and the poller, 3 calls of `Start`, 1 more task with 2 runs, delays 0 and 1, clock up to 2 | a poll runs exactly what was due and returns; implements `DueQueue`; only the last started task runs, once, not early; a running timer fires |
| `timer_fire_now` | 2 calls of `Start` | expected violation, see [findings](#findings) |
| `file_replaced` | 2 writers, 1 reader, 2 temporary names out of 3 draws, data of 0 and of 4 bytes, chunks of 1 | the file is absent or whole, no temporary file has two owners, only failures leave one behind, the calls implement `AtomicFile` |
| `preferences_set` | paths `a`, `a.b`, `a.c`, `a.b.c`, 6 values to set, 4 defaults | a preference reads back as it was set, a getter asserts in the one case in which it must, values are sound and ordered, paths behave as `PathStore` says |
| `status_moves` | 2 `Status`, 2 `StatusOr`, 3 errors | no error disappears unnoticed, an error that is announced is there |
| `pointers` | 2 `NotNull` around unique pointers, 4 `Nullable` (unique, 2 shared, raw), 2 addresses, 2 objects, 3 variables in scope, 2 `WeakPtr`, 1 function | no unchecked dereference, weak pointers see their object and no other, bodies have theirs |
| `logger_lines` | 2 threads, 2 loggers (a sink with a file of its own, one with a shared `FILE`), levels `DEBUG` and `FATAL`, 2 messages from all formats of up to 4 characters (braces, a letter, `'\0'`) with up to 2 values | `Format()` against a reference, lines are whole, what was logged is kept |

Why these bounds are enough for the interesting cases. Three tasks with one of
two iterations give a front item that is shared by two workers, a batch that is
larger than the free room for threads, and a task posted by a task. Three
worker ids against a limit of two let a thread leave and another one be created
while the first is still on its way out; with fewer ids than that the limit
could not be exceeded by mistake. In `thread_pool` a client, the service thread
and a running task give three pushes whose notifications are outstanding at
once; the clock has three readings, so that an item read at time 0 with delay 2
may be inserted after one read at time 1 with delay 1, with the same due time,
and the service thread may sleep for an item that another one overtakes. The task
without a delay runs twice, so that a worker that takes its first run leaves
something for the baton to be passed on for. In
`barrier_calls` three waiters need a chain of two notifications after the first.
Three starts of the timer give a stale callback, a replaced one and a nested restart together, and the
fourth task, with a second run, puts an item of another thread before, between
or after them in one poll. In `file_replaced` the sizes make `ReadFile` take one pass or several, also when the size it goes by is the one
of a file that has replaced the one it has open; two names are enough for a
collision and for its absence. In `preferences_set` there are siblings and paths
one and two levels apart; of the numbers one is an `int` and one is not. In
`status_moves` two objects of each class allow every move between classes, with
a third error to be made while two are held. In `pointers` two objects and two
addresses let an object die and another one take its address while a `WeakPtr`
and a raw pointer still name it; three variables are the two of an assignment and
a third owner; addresses and weak pointers are symmetric, variables are not,
being of different types. In `logger_lines` four characters hold every pair of
neighbouring braces with one on either side, and two messages on two threads
meet at a mutex, one of them fatal or not, on one sink or two. Deadlock is not
checked for the runners, the barrier, the timer and the logger, which stop when
their work is done and their owner has destroyed them or the program has ended;
it is checked for files, preferences, status and pointers.

The bounds in the modules: `MaxBatch` (tasks in one `PushTasks`), `MaxDelay`,
`MaxTime` (clock), `MaxStarts`, `MaxObjects`, `MaxInScope`, `MaxLogs`, and `Tasks`,
each posted at most once. `ImportantFile`, `Preferences` and `Status` need none for
their states: with finite constants they are finite (each error is made once).
`MaxDepth` bounds how deep `TypeNamesTheMember` looks; 5 levels are more than
paths of three keys and the values set there can make.

## Fairness

`FairSpec` of each module assumes that a thread that can take a step inside a
call is scheduled (weak fairness per thread) and that task bodies return. Weak
fairness of a thread that waits for the mutex is the fairness of the mutex. No
fairness is assumed of clients starting calls, of the owner destroying
anything, of keep-alive timeouts or of spurious wakeups: progress never depends
on them.

* `FairPoolSpec` (`ThreadPoolTaskRunner`): besides, time passes (`WF` of the clock)
  and a timed wait that is over ends.
* `FairTimerSpec` (`PolledTimer`): time passes, and its thread calls
  `RunPendingTasks()` again and again, as the example loop in
  `polling_task_runner.h` does; without polls nothing on that runner ever runs.
* `ApplyTaskSync` assumes of its runner what `TaskQueue!FairSpec` promises, which
  `thread_pool` checks of the pool.
* `timer_fire_now`: the task runner gets round to every callback. The violation
  found is of a runner that does its part.
* `ImportantFile`, `Preferences`, `Status`, `WeakPtr` and `Logger` are checked for
  safety only: their calls do not wait for one another, but for the mutex of a
  sink, which is held over `fprintf` and `fflush` alone.

## Proofs

The first part of `ThreadPoolTaskRunnerProofs` proves of `DelayedTaskRunner`, for
every number of workers, clients, tasks and iterations, from the assumptions on
the constants in `DelayedTaskRunner` only:

| Theorem | States |
|---|---|
| `TypeCorrect` | `Spec => []TypeInv` |
| `AccountsForThreads` | `Spec => []ThreadAccounting` |
| `StartsInOrder` | `Spec => []StartedInOrder` |
| `AccountsForRuns` | `Spec => []RunningAccounted` |
| `DtorWaitsForAll` | `Spec => []NobodyLeftBehind` |
| `ExitStartsNothing` | `Spec => NothingStartsOnExit` |
| `NoLostWakeup` | `~KeepAliveExpires => (Spec => []QueueServed)` |
| `ImplementsQueue` | `Spec => ImplementsTaskQueue` (the safety part of the refinement) |

The argument. `TypeInv` alone is not inductive, since `waiting_threads_num_`
could go below zero in a state that only types are known of. It becomes so
together with `ThreadAccounting`: each wait adds the worker to the set that
`waiting_threads_num_` counts and each way out of it removes it again, and a
push never creates more threads than `MaxThreads - Cardinality(threadMap)`. The
start order needs a link between the queue and the history: `Gone` is the
number of tasks that have left the queue, the queue holds the others in the
order of `posted`, and the front item's remaining iterations plus its runs are
what it was posted with (`QueueState`). From this the refinement follows, with
`TaskQueue!Start` for `TakeTask` and `TaskQueue!Finish` for `FinishTask`.
`NobodyLeftBehind` needs that no thread is created after the last one has left:
only a running worker can push by then, and it is itself in the map
(`DtorState`). `QueueServed` needs that without keep-alive timeouts a worker
leaves only on `should_exit_` (`NobodyLeaves`) and that a push into a pool
without a thread creates one. It is proved in two halves: there is a worker
(`Someone`), and unless one is about to take a task none is parked without a
notification to come (`Roused`). Any `notify_one()`, of a push or of the baton,
restores the second half by itself: it releases a worker, as nobody else is
parked before the destruction, or there is none to release (`NotifyRouses`).

The second part of `ThreadPoolTaskRunnerProofs` proves of pool and service
together, for every number of workers, clients, tasks, delays and readings of the
clock, from the assumptions of both modules and that the service may hand over all
delayed tasks at once:

| Theorem | States |
|---|---|
| `TypesCorrect` | `PoolSpec => [](TypeInv /\ Sched!TypeInv)` |
| `DestroysInOrder` | `PoolSpec => []NobodyCallsWhatIsDestroyed` |
| `ServiceWakesInTime` | `PoolSpec => []NobodyOversleeps` |
| `UsesPoolRightly` | `PoolSpec => Spec`: the whole is a pool with clients that keep its rules |
| `PoolIsKept` | `PoolSpec` implies `ImplementsTaskQueue` and the other properties proved of the pool alone |
| `NoWakeupLostBehindService` | `~KeepAliveExpires => (PoolSpec => []QueueServed)` |
| `StartsWhenDue` | `PoolSpec => []NeverStartedEarly` |
| `ImplementsDue` | `PoolSpec => ImplementsDueQueue` |

The argument. A task with a delay is in one place at a time, or was nowhere yet:
in the call that posts it (`CallState`), in the heap (`HeapState`), in the local
vector of the service thread (`TransitState`), or in `posted`, where the pool has
it. `PlacesState` ties what the service thread and the destructor are at to what
they may touch, and with it every step of the whole is a step of the pool
(`StepOfPool`), so the invariants of the pool alone hold here, too. What is
inserted is numbered in the order of `pushed`, and the heap gives its items away
by time and then by number (`PopsAll`), so what has left it, in the vector or in
`posted`, was due and is behind all that was inserted before it and is due no
later (`OrderState`, kept by `CollectKeeps` and `HandOverKeeps`). From there on the
order is that of the pool's queue, which starts in order: this is `TakenIsDue`.
That a heap has a least item is an induction over numbers (`LeastNumber`, from the
theorem on well-founded orders). What is due stays due, since the
clock runs forward; that a push reads it before it has the mutex does no harm to
this. `NobodyOversleeps` is kept because the front of the heap, for which the service
thread goes to sleep, is due no later than any other item (`FrontIsItem`), and
because what is inserted while it sleeps comes with a notification, which is still
to be made by whoever inserted it.

`StatusProofs` proves for every number of objects and errors:

| Theorem | States |
|---|---|
| `TypeCorrect` | `Spec => []TypeInv` |
| `FlagsStayTogether` | `Spec => []FlagsAgree` |
| `ErrorsStay` | `Spec => []ErrorIsThere` |
| `NoticesErrors` | `Spec => NoErrorGoesUnnoticed` |

The argument. That nothing is destroyed unnoticed needs that a holder that
counts as checked has an error that was noticed (`CheckedIsNoticed`), and this
is kept by a move only because no error has two holders (`OneHolder`). The
assertion of a `StatusOr` protects the error inside only if an object that holds
an error says so in `has_error_` (`ErrorsAreHeld`) and if the two flags agree.
The assumptions are that `nullptr` is no error and that no place is both a
`Status` and a `StatusOr`.

`ImportantFileProofs` proves for every number of writers, readers and temporary
names and for data of every size:

| Theorem | States |
|---|---|
| `TypeCorrect` | `Spec => []TypeInv` |
| `NeverTorn` | `Spec => []DestinationIsWhole` |
| `TempsStayOwned` | `Spec => []TempsAreOwned` |
| `OnlyFailuresLeave` | `Spec => OnlyFailuresLeaveFiles` |
| `ImplementsAtomic` | `Spec => ImplementsAtomicFile` |

The argument. `Rename` puts a whole file in place because the writer's temporary
file is still its own and whole when `fclose` has succeeded (`TempsAreOwned`,
which is inductive with `WritersState`: a writer at work has a temporary name).
A reader's open file was whole when it was opened, the bytes read so far never
exceed it, and the end of the file is met only when all are read, since each
pass asks for more than nothing (`ReadersState`). Then `Rename` maps to
`AtomicFile!Replace`, `OpenToRead` to `Look` and `ReadEnds` to `EndRead`;
returns with an error map to failures and everything else to stuttering. For
`OnlyFailuresLeave` the classes of errors must differ in their ids (`FileErrorIs`);
then only a step that gives a writer back without `Rename` or `Remove` leaves
its file (`WriterLeaves`), and the steps of others leave it its own
(`KeptByOthers`).

The last part of `ApplyTaskSyncProofs` proves of `Barrier`, from its own assumption
only, for every finite, non-empty set of threads and every mixture of calls:

| Theorem | States |
|---|---|
| `BarrierTypeCorrect` | `Spec => []TypeInv` |
| `NobodyIsEarly` | `Spec => []NobodyPassesEarly` |
| `ChainStaysUnbroken` | `Spec => []ChainUnbroken` |

The argument. The counter is the number of countdowns to come (`CounterCounts`),
and whoever is past the barrier got there when it was zero (`PassedAtZero`).
The chain is unbroken because the last countdown leaves its thread on the way to
notify, and a notification either wakes somebody or finds nobody parked.

Its first part proves for any number of iterations, on a runner that is a
`TaskQueue` and with that barrier:

| Theorem | States |
|---|---|
| `TypeCorrect` | `ApplySpec => []ApplyTypeInv` |
| `ReturnsAfterAll` | `ApplySpec => []AllInvokedBeforeReturn` |
| `RunsStayApart` | `ApplySpec => []RunsDoNotCollide` |
| `ItemIsThere` | `ApplySpec => []ItemOutlivesItsUsers` |

The argument counts runs. `nextIndex` is the number of runs that have drawn an
index, each below it and different from the others (`IndexState`); the counter is
the number of runs that have not counted down (`BarrierState`); the references are
the caller's, the queue's while runs are to be started, and those of the runs in
progress (`RefsState`). So the counter is zero when the last run has counted, by
then as many different indices are drawn as there are, which makes every index
drawn (`FS_Injection`), and each was invoked once (`InvokedState`). No run ever waits
at the barrier, so that a notification finds the caller or nobody (`NotifyKeeps`).
The assumption is that there is at least one iteration, that the caller is no run,
and that the threads of the barrier are the runs and the caller.

`WeakPtrProofs` proves for any number of variables, weak pointers, bound
functions, addresses and objects, and calls in any order:

| Theorem | States |
|---|---|
| `TypeCorrect` | `Spec => []TypeInv` |
| `OwnersAreRight` | `Spec => []OwnedOnce` |
| `ChecksComeFirst` | `Spec => []DereferencedAfterCheck` |
| `WeakPtrsAreRight` | `Spec => []WeakSeesItsObject` |
| `BodiesAreRight` | `Spec => []BodiesHaveTheirObject` |

The argument. `OwnedOnce` holds between calls, while a call takes a smart pointer
from one variable, puts it into another and gives up what was there. `Sound`
says of a memory that it is right when the pointer in the hand of the call is
counted, too, and each half of a call keeps it: exchanging the hand with a
variable (`SwapIsSound`), giving up what is in the hand (`UnrefIsSound`), copying
(`CopyIsSound`) and `std::weak_ptr::lock` (`LockIsSound`). Every action on a
variable is one `Call` (`HandleStepIs`, `CallKeeps`), so that the cases of the
constructors and assignments are settled once. Objects are numbered as they are
made and no two live ones have the same number (`ObjectsApart`); what refers to
an object that has lived refers to it by its number and by the address at which
it is if it is anywhere (`LeadsTo`), and this makes a reused address harmless. A
body that runs behind a `std::weak_ptr` is one of the sharers (`Locks`), since a
`std::weak_ptr` is only ever bound to a shared object (`BoundState`, `BodyState`).
The assumptions are that variables and functions are finitely many, that
`NotNull` and `Nullable` variables differ, and that neither `nullptr` nor the
place of a variable out of scope is an address.

`PolledTimerProofs` proves for any number of threads, tasks, iterations, starts and
readings of the clock:

| Theorem | States |
|---|---|
| `TypeCorrect` | `TimerSpec => [](TypeInv /\ Timer!TypeInv)` |
| `PollsAreExact` | `TimerSpec => []PollRunsExactlyWhatIsDue` |
| `RunningTimersArePending` | `TimerSpec => []RunningIsPending` |
| `TimersAreExact` | `TimerSpec => []NeverEarlyNorTwice` |
| `ReplacedDoesNotRun` | `TimerSpec => OnlyTheLastRuns` |
| `ImplementsDue` | `TimerSpec => ImplementsDueQueue` |

The argument. A task is in one place at a time: in the call that posts it
(`CallsState`), in the queue (`QueueState`), in `pending_tasks_` (`PendingState`), or it
has run as often as asked (`RunsState`); what was pushed and is not in the queue
was due when the last poll began (`PushedState`). A heap gives each item away
once, in whatever order it keeps equal ones (`PopsAll`, from the theorems about
finite sets). The timer alone keeps `TimerState`: what runs is the task of
`task_id_`, which has not run before (`RunTaskIsRight`). What the timer knows of its
callbacks and what the runner has of them are tied together by `OnTheWay`, and
`BodiesState` by the loop being at the callback whose task is running. For
`ImplementsDue` the items carry the number of their insertion; `pending_tasks_` is
ordered by time and number, and what is in the queue with a smaller number than
one of `pending_tasks_` is due later than that (`OrderState`): it was in the queue
when the poll began and was not due. So whatever comes before the task that runs
is neither pending nor queued any more, and by `RunsState` it has run. The
assumptions are those of the two modules: callbacks are tasks without further
iterations, and the bounds are numbers.

`PreferencesProofs` proves for paths of any length and number, and for values of any
size and depth:

| Theorem | States |
|---|---|
| `ReadsBackOwn` | `Spec => []OwnValueReadBack` |
| `GettersAreRight` | `Spec => []GettersDoNotAssert` |
| `SoundEverywhere` | `Spec => []TypeNamesTheMember` |
| `ImplementsPaths` | `Spec => ImplementsPathStore` |

The argument. The loops of `FindPath` and `SetPath` are recursive functions of the
place in the path; `FindPathRest` and `SetPathRest` state each as one step down by
the first key and the rest of the path. A tree of values is a set that is closed under taking
children and has only sound members (`IsTree`), so nothing has to be said about
depth. Each branch of an assignment leaves exactly the value assigned
(`ConstructedIs`, `AssignIs`, `SetKeyIs`), and a tree stays one (`SetPathTree`). What
is found at a path `q` after `SetPath` at `p` follows by induction on the length of
`p`: at `p` the new value (`FindAt`), below it what that contains (`FindBelow`), above
it an object (`FindAbove`), and if neither is a prefix of the other what was there
(`FindApart`); two paths are in one of these positions (`PathBelow`, `PathAbove`,
`PathApart`). Put together (`StoreFinds`) this is `PathStore`. The invariant says that the
store is a tree, that a preference was last set to a value of its default's type,
and what is found at the paths that are alone (`FoundWhereSet`), set or not: a path
that is registered later must find nothing either. The assumptions are that paths
are non-empty sequences of keys and that the values a program makes are sound, as
are those in them; of `Cloned` nothing is assumed, for only values in `Contents` are set.

`LoggerProofs` proves for every format string and all arguments, and for any
number of threads, loggers and calls:

| Theorem | States |
|---|---|
| `TypeCorrect` | `Spec => []TypeInv` |
| `FormatCorrect` | `Spec => []FormatIsExact` |
| `LinesCorrect` | `Spec => []LinesAreWhole` |
| `LinesKept` | `Spec => []LoggedLinesAreKept` |

The argument. First the text. The table of `FormatFrom` exists and satisfies its
equation; the ways to cut a format string from each place on are those of the next
place with one piece in front, by what stands there (`TextsAtArgument`,
`TextsAtDouble`, `TextsAtOther`, and `TextsAtStray`: none), so by induction from the
end the loop writes the texts of the cuts and no others (`AllExact`), and what it
writes is as long as the room left for it (`AllSized`), which shows that the
subtraction in `new_size` is negative only where there is no cut. There is one cut at
most (`OneCut`), hence one line for each message (`LogRenders`). Then the threads. A
thread inside `Log()` has the line of its message (`LineInv`), whoever prints to a
sink has its mutex (`MutexInv`), the file and the buffer together are the lines
flushed and what the holder has printed of the next one (`WrittenInv`), and the file
has those that were flushed (`KeptInv`). The assumptions are that levels are those of
the code, that formats and arguments are text, and that `nullptr` is no logger and
no thread.

The induction theorems of the library take an operator as a parameter, which the
provers cannot instantiate. Inductions over numbers are carried by `LeastNumber` and
`InductiveSet` instead, from the theorem on well-founded orders: the numbers with
the property form a set, and a non-empty set of numbers has a least one.

`TypeCorrect` of each module, `StartsInOrder`, `AccountsForRuns`,
`ExitStartsNothing`, `FlagsStayTogether`, `ChainStaysUnbroken`, `UsesPoolRightly`,
`StartsWhenDue`, `RunningTimersArePending` and `OwnersAreRight` state what no run
checks: `NeverStartedEarly` is a consequence of `ImplementsDueQueue`, a timer that is
running without a callback on its way would never fire (`RunningTimerFires`), and
`OwnedOnce` says of ownership what the properties of `pointers` rest on.
`thread_pool` checks its properties without keep-alive timeouts, for the sake of
the liveness properties; the theorems about it hold with them, too.
`NoLostWakeup` proves `QueueServed` of the pool alone, `NoWakeupLostBehindService`
of both parts.

Only model-checked: all liveness properties and the fair refinement (TLAPS has
neither `ENABLED` nor liveness under fairness here), and `OrderIsStrictWeak`: what
`Clone` and the comparisons compute is an induction over a tree, and they are
RECURSIVE operators, which the proof system does not take. Every safety property
that the runs check besides is proved.

## Findings

1. *A task can be left without a thread* (`pool_timeout`,
   `thread_pool_task_runner.cc:79`). A worker whose `wait_for` returns `timeout`
   returns without looking at `tasks_`. When a task is pushed between the expiry
   and the moment that worker has the mutex, `PushTask` counts it as waiting and
   creates no thread, and the notification is lost. The task stays queued until
   the next push. `thread_pool`, where the time does not expire, shows that this is
   the only cause.
2. *`FireNow` cancels a restart* (`timer_fire_now`, `one_shot_timer.cc:57`). When
   the task that `FireNow` runs calls `Start` again, the trailing
   `is_running_ = false` stops the new timer. The same task run by the task
   runner restarts the timer as expected (`RunningTimerFires` in `polled_timer`,
   which asks only about timers running outside `FireNow`).

Seen on the way, without a run: `guid.h:80` has `IsValid()` check "the version 4
GUID format", while `IsValidGuidInternal()` looks at neither the version nor the
variant, so that strings of other versions are valid, too.

## What is not modelled

* Exceptions (thread creation or a task that throws) and exhaustion of memory.
* `iterations` in `ServiceTaskRunner`, where it is only carried along.
* Overflow of 64-bit counters and of time points: out of reach in practice.
* Tasks that call `ApplyTaskSync` or post with a delay while the pool is being
  destroyed, `RunPendingTasks` called by a task, a timer destroyed during its
  `FireNow`: the code forbids or does not survive them; they are listed as
  hazards.
* The public `WriteFile` (it promises nothing when it fails), a crash of the whole
  machine, and files that others write to.
* Moving from a `Status` object that was moved from as if it held something, or
  onto itself; moving a `NotNull` or a `WeakPtr` onto itself.
* `std::hash` and `operator<` of `NotNull` and `Nullable`, which read the pointer
  and nothing else.
* The conversion of floating-point numbers to text: its digits come from the
  standard library.
* Loggers that are replaced or given another level while a thread is inside
  `Log()`: neither is synchronised, and the header leaves it to the program.
* `random`: a platform device; what is drawn from it is an input of `Guid`.
  `type`, `clone`, `no_destructor`, `check` and `macros`: resolved by the compiler,
  or without a state. `defer` and most of `stl` appear only where the runners
  and the timer use them.

## Plan

Modelled, checked and proved as described above: `TaskQueue`, `DelayedTaskRunner`,
`Barrier`, `ApplyTaskSync`, `DelayedItems`, `ServiceTaskRunner`,
`ThreadPoolTaskRunner`, `PollingTaskRunner`, `OneShotTimer`, `PolledTimer`,
`ImportantFile` with `ErrorInfo` and `Guid`, `Status`, `Value`, `Preferences`,
`NotNull`, `WeakPtr`, `Text`, `Logger`, and `DueQueue`, implemented by
`ThreadPoolTaskRunner` and `PollingTaskRunner`.

Worth adding: a timer on any runner that implements `DueQueue`, in place of
`PolledTimer`, to have it on the thread pool as well; and `Clone` and the comparisons
by levels instead of by recursion, so that `OrderIsStrictWeak` can be proved.
