SPECIFICATION Spec
CONSTANTS
  QSize = 1
  BufSize = 4
  Messages = {1, 3, 4}
  Remains = {{}}
  PrinterIsHere = TRUE
PROPERTY
  PrintEnds
CHECK_DEADLOCK FALSE
