CONSTANTS
  Message = {m1}
  Refused = {}
  Escaping = {}
  Body <- MCBody
  MaxReceive = 2
  Process = {p1}
  MaxStops = 1
  None = None
SPECIFICATION FairSpec
PROPERTY AbandonedIsOffered
