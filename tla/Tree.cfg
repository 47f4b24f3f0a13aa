SPECIFICATION TreeSpec
CONSTANTS
  KeyMax = 3
  kMaxSequenceNumber = 15
  kNumLevels = 4
  kL0_CompactionTrigger = 2
  kMaxMemCompactLevel = 2
  MaxFileSize = 1
  MaxGrandParentOverlapBytes = 1
  ExpandedCompactionByteSizeLimit = 6
  MaxBytesForLevel <- LevelBytes
  WriteBufferSize = 1
  kL0_StopWritesTrigger = 3
  AllowedSeeks = 1
  MaxWrites = 4
  MaxSnapshots = 0
  ManualRequests = {}
  WriteTypes <- BothTypes
  MaxReaders = 1
INVARIANTS EntriesInPlace FilesInOrder 
 
CHECK_DEADLOCK FALSE
