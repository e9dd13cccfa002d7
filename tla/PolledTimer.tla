----------------------------- MODULE PolledTimer -----------------------------
(***************************************************************************)
(* A rst::OneShotTimer on a rst::PollingTaskRunner.  The timer belongs to  *)
(* the thread that polls: it is started, fired and destroyed between two   *)
(* polls and in the bodies of tasks, and its callbacks are tasks of the    *)
(* runner among those that other threads post.                             *)
(*                                                                         *)
(* The callback of the k-th Start() is the task k of the runner.           *)
(***************************************************************************)
EXTENDS PollingTaskRunner

CONSTANT MaxStarts    \* bound: calls of Start()

Ids == 1..MaxStarts

ASSUME TimerAssumption ==
  /\ MaxStarts \in Nat
  /\ Ids \subseteq Tasks /\ \A k \in Ids : Iterations[k] = 0

VARIABLES
  timerTask, timerTaskId, isRunning, alive, callbacks, bodies,
  timerRuns    \* the timer, see OneShotTimer

timerVars == <<timerTask, timerTaskId, isRunning, alive, callbacks, bodies, timerRuns>>

Timer == INSTANCE OneShotTimer WITH
  task <- timerTask, taskId <- timerTaskId, runs <- timerRuns

TimerInit == Init /\ Timer!Init

\* The callback that RunPendingTasks() is about to call.
NextCallback(id) == pending # <<>> /\ Head(pending).task = id /\ id \in callbacks

\* The thread of the poller executes code of the user: between two polls, in
\* the body of a task of the runner or in that of the timer's task.
InUserCode ==
  /\ postPc[Poller] = "idle"
  /\ \/ ~inPoll
     \/ bodies # <<>>
     \/ pending # <<>> /\ Head(pending).task \notin Ids

-----------------------------------------------------------------------------

Post(p, t) ==
  /\ p = Poller => InUserCode
  /\ ReadClock(p, t)
  /\ UNCHANGED timerVars

FinishPost(p) == Insert(p) /\ UNCHANGED timerVars

\* Start() posts the callback: its state is set when the clock is read, and
\* the rest of the call is FinishPost(Poller).
StartTimer ==
  /\ InUserCode
  /\ Timer!Start
  /\ ReadClock(Poller, timerTaskId')

FireNow ==
  /\ InUserCode
  /\ Timer!FireNow
  /\ UNCHANGED vars

Return ==
  /\ postPc[Poller] = "idle"
  /\ Timer!Return
  /\ UNCHANGED vars

DestroyTimer ==
  /\ InUserCode
  /\ Timer!Destroy
  /\ UNCHANGED vars

\* The loop of RunPendingTasks() calls a callback of the timer.
CallBack(id) ==
  /\ inPoll /\ NextCallback(id)
  /\ Timer!RunCallback(id)
  /\ UNCHANGED vars

Poll == StartPoll /\ bodies = <<>> /\ UNCHANGED timerVars

\* The loop goes on when the callback, or the body of the task, has returned.
GoOn ==
  /\ bodies = <<>>
  /\ ~\E id \in Ids : NextCallback(id)
  /\ RunTask
  /\ UNCHANGED timerVars

StopPoll == EndPoll /\ UNCHANGED timerVars

Wait == Tick /\ UNCHANGED timerVars

TimerNext ==
  \/ \E p \in Posters : FinishPost(p) \/ \E t \in Tasks \ Ids : Post(p, t)
  \/ StartTimer \/ FireNow \/ Return \/ DestroyTimer
  \/ \E id \in Ids : CallBack(id)
  \/ Poll \/ GoOn \/ StopPoll
  \/ Wait

TimerSpec == TimerInit /\ [][TimerNext]_<<vars, timerVars>>

\* Threads inside a call are scheduled and the bodies of tasks return.
FairCalls ==
  /\ \A p \in Posters : WF_<<vars, timerVars>>(FinishPost(p))
  /\ \A id \in Ids : WF_<<vars, timerVars>>(CallBack(id))
  /\ WF_<<vars, timerVars>>(Return)
  /\ WF_<<vars, timerVars>>(GoOn)
  /\ WF_<<vars, timerVars>>(StopPoll)

\* Time passes, and the thread polls again and again, as the example in
\* polling_task_runner.h does.
FairTimerSpec ==
  TimerSpec /\ FairCalls /\ WF_<<vars, timerVars>>(Poll) /\ WF_<<vars, timerVars>>(Wait)

-----------------------------------------------------------------------------

\* While IsRunning() returns true the last task is to come, and its callback is
\* on the way through the runner.
RunningIsPending ==
  /\ Timer!RunningIsPending
  /\ alive /\ isRunning =>
       timerTaskId \in TasksOf(Range(call) \cup queue \cup Range(pending))

\* However late the polls are and whatever is fired and started again in the
\* meantime, a callback runs the task of its own Start(), once, and when the
\* delay of that has passed.
NeverEarlyNorTwice ==
  /\ Timer!NeverEarlyNorTwice
  /\ \A i \in DOMAIN bodies : bodies[i].by \in Ids =>
       /\ inPoll /\ Head(pending).task = bodies[i].by
       /\ Head(pending).timePoint <= clock

\* What was replaced or cancelled does not run.
OnlyTheLastRuns == Timer!OnlyTheLastRuns

\* A timer that is running calls its task in the end.
RunningTimerFires == Timer!RunningTimerFires
=============================================================================
