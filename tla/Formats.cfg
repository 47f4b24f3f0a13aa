SPECIFICATION FormatsSpec
CONSTANTS
  kBlockSize = 8
  kHeaderSize = 3
  Sizes <- SomeSizes
  MaxRecords = 3
  MaxFlips = 2
  MaxTears = 1
  Reopens = TRUE
  MaxFailures = 1
  kWritableFileBufferSize = 2
  AppendSizes <- SomeAppends
  MaxBytes = 5
  MaxErrors = 1
  MaxFiles = 1
INVARIANTS TornIsRead WoundsStayContained TableIsRead FileIsWritten DecodesWhatWasSent HeapIsKept
CHECK_DEADLOCK FALSE
