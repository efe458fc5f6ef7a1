CONSTANTS
  Message = {m1, m2, m3}
  Refused = {m2}
  Escaping = {m3}
  Body <- MCBody
  MaxReceive = 2
  Process = {p1}
  MaxStops = 2
  None = None
SPECIFICATION FairSpec
PROPERTY ShutdownCompletes
PROPERTY EveryMessageSettles
INVARIANT MalformedKept
