SPECIFICATION MCSpec
CONSTANTS
  MemoryPressureLow = 650
  MemoryPressureHigh = 850
  SlidingWindowBlocks = 1
  HeavyHitterFraction = 500
  SinkTokenBlocks = 1
  RecencyWeight = 400
  AttentionWeight = 400
  ReuseWeight = 200
  QuantizationEnabled = TRUE
  QuantizationMinImportance = 300
  OffloadEnabled = TRUE
  OffloadMaxFraction = 500
  OffloadThresholdScore = 150
  Ids = {1, 2, 3, 4}
  Averages = {0, 500}
  Steps = {0}
  Flags = {FALSE}
  PlacedTiers = {"GPU_QUANTIZED"}
  RawScores = {0}
  Readings <- LowMediumHigh
  Workloads = {"unknown", "code"}
  MaxBlocks = 4
INVARIANTS OneVerdictPerBlock PressureMonotone EvictionSettles ScoresDecide EvictionBudget
CHECK_DEADLOCK FALSE
