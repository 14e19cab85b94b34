SPECIFICATION LoopFairSpec
CONSTANTS
  Callers = {c1, c2, c3}
  MaxTasks = 4
INVARIANT OneLoop
PROPERTY EveryStopReturns
CHECK_DEADLOCK FALSE
