SPECIFICATION FairSpec
CONSTANTS
  Workers = {w1, w2, w3}
  Clients = {c1}
  Dtor = dtor
  MaxThreads = 2
  Tasks <- MCTasks
  Iterations <- MCIterations
  MaxBatch = 2
  NoTask = NoTask
  KeepAliveExpires = TRUE
INVARIANTS
  ThreadAccounting
  NobodyLeftBehind
PROPERTIES
  ImplementsTaskQueue
  DestructorReturns
\* The runner stops for good once it has been destroyed.
CHECK_DEADLOCK FALSE
