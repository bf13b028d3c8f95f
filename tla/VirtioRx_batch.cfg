SPECIFICATION Spec
CONSTANTS
  QSize = 2
  BufSize = 4
  Messages = {3, 4}
  Remains = {{}}
  PrinterIsHere = FALSE
INVARIANT
  AllTextsReceived
CHECK_DEADLOCK FALSE
