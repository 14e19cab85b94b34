SPECIFICATION MCSpec
CONSTANTS
  b1 = b1
  b2 = b2
  b3 = b3
  Calls = {a1, a2, a3}
  Batch <- NoBatch
  BatchLimit = 1
  Ids = {i1, i2, i3}
  SharedIds = FALSE
  ErrorTexts = {"out of memory"}
  Generates = {g1, g2}
  Streams = {s1}
  MaxText = 2
  MockWords = 2
  Interval = 2
  MaxTime = 5
  MaxConcurrent = 2
  MaxCompleted = 4
  Nobody = Nobody
INVARIANT ActiveWithinLimit
CHECK_DEADLOCK FALSE
