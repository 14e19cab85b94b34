SPECIFICATION MCSpec
CONSTANTS
  ra = ra
  rb = rb
  ta = ta
  tb = tb
  BlockIds = {1, 2}
  RequestIds = {ra, rb}
  Attention = {}
  Importance = {}
  MemSnapshots = {}
  MaxObjects = 3
  MaxAccesses = 0
  MaxStep = 1
  Strategies = {"lru", "age"}
  MaxCandidates = 1
INVARIANTS TrackedSound StepsOrdered AttentionBounded StatsAddUp
PROPERTIES RemovedFrozen LifecycleSpec CallsAreAtomic
CHECK_DEADLOCK FALSE
