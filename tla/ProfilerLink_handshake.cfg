SPECIFICATION Spec
CONSTANTS
  Clients = {"client.c"}
  Servers = {"server.c"}
  Retries = 2
  Attempts = 3
  Quads = 3
  NumCpus = 2
  Buffers = 2
  MaxSamples = 3
  MaxInFlight = 2
INVARIANT
  BothReady
CHECK_DEADLOCK FALSE
