SPECIFICATION FairSpec
CONSTANT Retries = 5
INVARIANTS
  TypeOK
  NoBurntClient
PROPERTIES
  KeepsPromise
  CallEnds
