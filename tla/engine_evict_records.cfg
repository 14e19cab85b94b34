SPECIFICATION Spec
CONSTANTS
  MemoryPressureLow = 650
  MemoryPressureHigh = 850
  SlidingWindowBlocks = 1
  HeavyHitterFraction = 200
  SinkTokenBlocks = 0
  RecencyWeight = 400
  AttentionWeight = 400
  ReuseWeight = 200
  QuantizationEnabled = TRUE
  QuantizationMinImportance = 300
  OffloadEnabled = TRUE
  OffloadMaxFraction = 500
  OffloadThresholdScore = 150
  BlockIds = {1, 2}
  RequestIds = {ra}
  Attention <- Strong
  Importance = {}
  MemSnapshots = {}
  MaxObjects = 2
  MaxAccesses = 0
  MaxStep = 0
  ActivePolicies = {"sliding_window"}
  ModelStatus = "absent"
  ReuseIds = FALSE
  HistorySize = 1
  MaxCycles = 1
PROPERTY EvictionsRecorded
CHECK_DEADLOCK FALSE
