SPECIFICATION Spec
CONSTANTS
  Cores = {1, 2}
  IrqCore = 1
  QSize = 2
  PoolSize = 6
  Messages = {1, 2}
  EarlyReturns = {}
INVARIANT
  RoomWhenPut
CHECK_DEADLOCK FALSE
