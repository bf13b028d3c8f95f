SPECIFICATION Spec
CONSTANTS
  LogPorts = {"ttyUSB1", "ttyUSB2"}
  Master = "ttyUSB1"
  Bench = "ttyUSB1"
  NImgs = 2
  MaxRetries = 1
  HwControl = FALSE
  HostFaults = FALSE
INVARIANTS
  FalseSuccessNeedsEarlierTimeout
  StaleReaderNeedsEarlierTimeout
  DoneLogIsOwn
