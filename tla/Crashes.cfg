SPECIFICATION RecoverySpec
CONSTANTS
  Fresh = FALSE
  ReuseLogs = FALSE
  WriteBufferSize = 1
  MaxWrites = 3
  MaxCrashes = 2
  MaxErrors = 0
  MaxPins = 0
  MaxFile = 7
INVARIANTS OpenHasAll SequencesCovered NothingMissing
CHECK_DEADLOCK FALSE
