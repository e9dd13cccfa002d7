SPECIFICATION FairSpec
CONSTANTS
  Workers = {w1, w2}
  Clients = {c1}
  Dtor = dtor
  MaxThreads = 2
  Tasks <- MCTasks
  Iterations <- MCIterations
  MaxBatch = 1
  NoTask = NoTask
  KeepAliveExpires = TRUE
PROPERTIES
  PostedTasksRun
\* The runner stops for good once it has been destroyed.
CHECK_DEADLOCK FALSE
