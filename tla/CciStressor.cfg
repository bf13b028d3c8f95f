SPECIFICATION FairSpec
CONSTANTS
  NumCpus = 3
  Channels = 4
  TestFpga = TRUE
  Coherent = TRUE
  StaleReads = TRUE
INVARIANTS
  TypeOK
  StartedConfigured
  StartedOnceUnlessStale
PROPERTY
  EnginesKeepRunningUnlessStale
