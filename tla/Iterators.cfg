SPECIFICATION IteratorsSpec
CONSTANTS
  KeyMax = 3
  kMaxSequenceNumber = 9
  kMaxHeight = 2
  Types = {1}
  MaxEntries = 3
  MaxReads = 2
  Blocks <- SomeBlocks
  Targets = {1, 4, 5, 6, 7, 9, 12}
INVARIANTS NothingSkipped ReaderSeesSnapshot
PROPERTIES IsCursorOfSnapshot ErrorsStay
CHECK_DEADLOCK FALSE
