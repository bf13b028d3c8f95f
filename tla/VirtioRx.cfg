SPECIFICATION Spec
CONSTANTS
  QSize = 6
  BufSize = 4
  Messages = {1, 4}
  Remains = {{3, 4, 7}, {1, 2, 3, 4, 5, 6, 7, 8, 9, 10, 11, 12, 13, 14, 15}}
  PrinterIsHere = FALSE
INVARIANTS
  TypeOK
  NothingStale
  PrintedWhole
PROPERTIES
  UsedAreTaken
CHECK_DEADLOCK FALSE
