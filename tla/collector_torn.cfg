SPECIFICATION Spec
CONSTANTS
  Backend = "parquet"
  MaxBufferSize = 2
  Days = 1
  Faults = {"torn"}
  MaxRecords = 4
INVARIANT EveryRecordKept
CHECK_DEADLOCK FALSE
