SPECIFICATION FairFiles
CONSTANTS
  Backend = "parquet"
  MaxBufferSize = 2
  Days = 2
  Faults = {"refuse", "timeout"}
  MaxRecords = 6
INVARIANT EveryRecordKept
PROPERTIES StopWritesAll RecordsReachStorage StopReturns
CHECK_DEADLOCK FALSE
