SPECIFICATION ApplySpec
CONSTANTS
  N = 3
  Caller = caller
  Apply = apply
  Threads <- MCThreads
INVARIANTS
  AllInvokedBeforeReturn
  RunsDoNotCollide
  ItemOutlivesItsUsers
PROPERTIES
  CallReturns
\* The model is one call: it stops when the call has returned.
CHECK_DEADLOCK FALSE
