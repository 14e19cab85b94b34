SPECIFICATION MCSpec
CONSTANTS
  MaxStarts = 20
  MayTimeOut = FALSE
  Requests = {r1, r2, r3}
  WindowSize = 2
  HistorySize = 2
  LogSize = 3
  MaxCycles = 3
  MaxErrors = 2
  MaxInFlight = 2
INVARIANTS MetricsConsistent PollersJoined
PROPERTY DecisionsShown
CHECK_DEADLOCK FALSE
