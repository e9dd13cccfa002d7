SPECIFICATION FairSpec
CONSTANTS
  Threads = {t1, t2, t3, t4}
INVARIANTS
  NobodyPassesEarly
PROPERTIES
  EveryoneLeaves
\* Every thread makes one call: the system stops when all have returned.
CHECK_DEADLOCK FALSE
