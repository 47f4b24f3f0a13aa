SPECIFICATION LiveSpec
CONSTANTS
  Keys <- FourKeys
  PAGE_SIZE = 3
  DisplayTypeOf <- FourDisplay
  CategoryOf <- FourCategory
  ImagesOf <- FewImages
  Requests = {r1, r2}
  PublishedLater = {}
  Removable <- NoKeys
  DatabaseMayCancel = FALSE
  ImagesMayFail = TRUE
  PromptImages = FALSE
INVARIANTS TrapNeedsRemovedCursor
PROPERTIES LiveEveryEntryShown
CHECK_DEADLOCK FALSE
