SPECIFICATION Spec
CONSTANTS
  Threads = {t1, t2}
  Loggers = {"l1", "l2"}
  SinkKind <- MCSinkKind
  LogLevels = {1, 5}
  SetLevels = {2}
  Calls <- MCCalls
  MaxLogs = 2
  nullptr = nullptr
INVARIANTS
  FormatIsExact
  LinesAreWhole
  LoggedLinesAreKept
\* The program ends.
CHECK_DEADLOCK FALSE
