SPECIFICATION FairSpec
CONSTANTS
  MaxStarts = 2
PROPERTIES
  StartedTaskRuns
CHECK_DEADLOCK FALSE
