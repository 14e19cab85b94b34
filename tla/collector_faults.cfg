SPECIFICATION MCSpec
CONSTANTS
  Backend = "parquet"
  MaxBufferSize = 2
  Days = 2
  Faults = {"refuse", "torn", "crash", "timeout"}
  MaxRecords = 6
INVARIANTS LogOrdered ReadsComplete
CHECK_DEADLOCK FALSE
