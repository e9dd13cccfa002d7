SPECIFICATION FairPoolSpec
CONSTANTS
  Clients = {c1, service}
  Workers = {w1, w2}
  Service = service
  Dtor = dtor
  MaxThreads = 2
  Tasks <- MCTasks
  Delayed = {"a", "b"}
  Iterations <- MCIterations
  MaxBatch = 2
  NoTask = NoTask
  KeepAliveExpires = FALSE
  Delay <- MCDelay
  MaxTime = 2
INVARIANTS
  NobodyCallsWhatIsDestroyed
  QueueServed
  NobodyOversleeps
PROPERTIES
  EveryPostedTaskRuns
  RunnerIsDestroyed
  ImplementsFairTaskQueue
  ImplementsDueQueue
\* The runner stops for good once it has been destroyed.
CHECK_DEADLOCK FALSE
