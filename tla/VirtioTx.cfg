SPECIFICATION Spec
CONSTANTS
  Cores = {1, 2}
  IrqCore = 1
  QSize = 2
  PoolSize = 9
  Messages = {2, 4}
  EarlyReturns = {"config", "overflow"}
INVARIANTS
  TypeOK
  FreeListExact
  PoolServes
PROPERTIES
  KeepsPromise
  UsedAreReclaimed
CHECK_DEADLOCK FALSE
