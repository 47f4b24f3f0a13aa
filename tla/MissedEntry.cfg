SPECIFICATION Spec
CONSTANTS
  Keys <- FiveKeys
  PAGE_SIZE = 3
  DisplayTypeOf <- FullDisplay
  CategoryOf <- FiveCategory
  ImagesOf <- FiveImages
  Requests = {r1, r2}
  PublishedLater = {}
  Removable <- FiveKeys
  DatabaseMayCancel = FALSE
  ImagesMayFail = FALSE
  PromptImages = TRUE
SYMMETRY RequestSymmetry
INVARIANTS NoGap
CHECK_DEADLOCK FALSE
