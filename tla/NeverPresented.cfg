SPECIFICATION FairSpec
CONSTANTS
  Keys <- FourKeys
  PAGE_SIZE = 2
  DisplayTypeOf <- OddDisplay
  CategoryOf <- OddCategory
  ImagesOf <- OddImages
  Requests = {r1, r2}
  PublishedLater = {}
  Removable <- NoKeys
  DatabaseMayCancel = FALSE
  ImagesMayFail = FALSE
  PromptImages = TRUE
PROPERTIES GetListIsPresented
CHECK_DEADLOCK FALSE
