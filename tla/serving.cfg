SPECIFICATION MCFairSpec
CONSTANTS
  b1 = b1
  b2 = b2
  b3 = b3
  Calls = {a1, b1, b2, b3}
  Batch <- ThreeCalls
  BatchLimit = 2
  Ids = {i1, i2, i3, i4}
  SharedIds = FALSE
  ErrorTexts = {"out of memory"}
  Generates = {g1, g2}
  Streams = {s1}
  MaxText = 2
  MockWords = 2
  Interval = 2
  MaxTime = 5
  MaxConcurrent = 9
  MaxCompleted = 2
  Nobody = Nobody
INVARIANTS StatusTruthful RegistryExact StreamsTrue CyclesSpaced
PROPERTY BatchAnswered
CHECK_DEADLOCK FALSE
