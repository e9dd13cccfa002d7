SPECIFICATION FairTimerSpec
CONSTANTS
  Clients = {c1}
  Poller = poller
  MaxStarts = 3
  Tasks <- MCTasks
  NoTask = 0
  Iterations <- MCIterations
  MaxDelay = 1
  MaxTime = 2
INVARIANTS
  PollRunsExactlyWhatIsDue
  NeverEarlyNorTwice
PROPERTIES
  ImplementsDueQueue
  PollReturns
  OnlyTheLastRuns
  RunningTimerFires
CHECK_DEADLOCK FALSE
