SPECIFICATION Spec
CONSTANTS
  Clients = {"client.c", "other"}
  Servers = {"server.c", "other"}
  Retries = 2
  Attempts = 3
  Quads = 3
  NumCpus = 2
  Buffers = 2
  MaxSamples = 3
  MaxInFlight = 2
INVARIANTS
  TypeOK
  CrashesUnheardOnly
  FileIsFirstPacket
  SamplesInOrder
  RingTurnsUnlessLost
PROPERTIES
  ServerEndsAfterClient
  ClientDecides
CHECK_DEADLOCK FALSE
