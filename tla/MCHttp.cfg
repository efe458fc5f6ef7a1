SPECIFICATION FairSpec
CONSTANTS
  client1 = client1
  client2 = client2
  probe = probe
  Request <- MCRequest
  Asks <- MCAsks
  Pool = 1
  None = None
INVARIANTS
  TypeOK
  ThreadsAccounted
  RecordsAccounted
  FaultsClassified
PROPERTIES
  EveryRequestAnswered
