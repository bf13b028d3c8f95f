SPECIFICATION FairSpec
CONSTANTS
  LogPorts = {"ttyUSB1", "ttyUSB2"}
  Master = "ttyUSB1"
  Bench = "ttyUSB2"
  NImgs = 1
  MaxRetries = 3
  HwControl = TRUE
  HostFaults = TRUE
INVARIANTS
  TypeOK
  StaleReaderNeedsEarlierTimeout
  DoneLogIsOwn
PROPERTIES
  TestLoopEnds
  LoggersExit
