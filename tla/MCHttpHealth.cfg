SPECIFICATION LocalFairSpec
CONSTANTS
  client1 = client1
  client2 = client2
  probe = probe
  Request <- MCRequest
  Asks <- MCAsks
  Pool = 2
  None = None
PROPERTIES
  HealthNeedsNoAws
