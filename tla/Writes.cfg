SPECIFICATION QueueSpec
CONSTANTS
  a = a
  b = b
  s = s
  n = n
  Writers = {a, b, s, n}
  SyncWriters = {s}
  NullWriters = {n}
  BatchSize = 2
  MaxGroup = 2
  WriteBufferSize = 2
  kL0_CompactionTrigger = 1
  kL0_SlowdownWritesTrigger = 1
  kL0_StopWritesTrigger = 2
  MaxErrors = 1
  MaxRounds = 0
INVARIANTS QueueInv BatchesAreAtomic AcknowledgedIsKept SyncedIsDurable BackgroundIsSafe
PROPERTIES CallsReturn
CHECK_DEADLOCK FALSE
