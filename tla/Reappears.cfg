SPECIFICATION ScriptSpec
CONSTANTS
  KeyMax = 2
  kMaxSequenceNumber = 15
  kNumLevels = 3
  kL0_CompactionTrigger = 1
  kMaxMemCompactLevel = 1
  MaxFileSize = 2
  MaxGrandParentOverlapBytes = 9
  ExpandedCompactionByteSizeLimit = 6
  MaxBytesForLevel <- RoomyLevels
  WriteBufferSize = 2
  kL0_StopWritesTrigger = 3
  AllowedSeeks = 1
  MaxWrites = 6
  MaxSnapshots = 1
  ManualRequests = {}
  WriteTypes <- BothTypes
  MaxReaders = 0
INVARIANTS DeletedStaysAway
CHECK_DEADLOCK FALSE
