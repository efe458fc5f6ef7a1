CONSTANTS
  Message = {m1}
  Refused = {}
  Escaping = {m1}
  Body <- MCBody
  MaxReceive = 2
  Process = {p1}
  MaxStops = 0
  None = None
SPECIFICATION Spec
PROPERTY MalformedEndsNoProcess
