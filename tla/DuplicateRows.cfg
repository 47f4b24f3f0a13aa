SPECIFICATION Spec
CONSTANTS
  Keys <- FourKeys
  PAGE_SIZE = 3
  DisplayTypeOf <- FourDisplay
  CategoryOf <- FourCategory
  ImagesOf <- FewImages
  Requests = {r1, r2}
  PublishedLater = {}
  Removable <- NoKeys
  DatabaseMayCancel = FALSE
  ImagesMayFail = FALSE
  PromptImages = FALSE
SYMMETRY RequestSymmetry
INVARIANTS PresentedCount
CHECK_DEADLOCK FALSE
