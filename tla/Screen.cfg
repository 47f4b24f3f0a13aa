SPECIFICATION ScreenSpec
CONSTANTS
  Keys <- FourKeys
  PAGE_SIZE = 3
  DisplayTypeOf <- FourDisplay
  CategoryOf <- FourCategory
  ImagesOf <- FourImages
  Requests = {r1, r2}
  PublishedLater = {5}
  Removable = {}
  DatabaseMayCancel = TRUE
  ImagesMayFail = TRUE
  PromptImages = FALSE
  a = a
  b = b
  c = c
  d = d
  noti = noti
  Entries <- FourEntries
  Noti = noti
  DisplayTypeOfEntry <- FiveTypes
  HasDisplay <- FiveHaveDisplay
  FieldsOf <- FiveFields
  Cells = {c1, c2, c3, c4}
  Window = 2
  MaxRows = 4
SYMMETRY ScreenSymmetry
INVARIANTS TypeOK OneHeader NoGap NoTrap ShowsOwnRow PanelSettles HeaderMatches
PROPERTIES ShownIsKept FeedUnderPremises
CHECK_DEADLOCK FALSE
