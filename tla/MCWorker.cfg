CONSTANTS
  Message = {m1, m2}
  Refused = {m2}
  Escaping = {}
  Body <- MCBody
  MaxReceive = 2
  Process = {p1, p2}
  MaxStops = 2
  None = None
SPECIFICATION Spec
SYMMETRY Symmetry
INVARIANT TypeOK
INVARIANT AckedAfterWork
INVARIANT MalformedKept
PROPERTY RunsOncePerDelivery
PROPERTY ShutdownStartsNothing
PROPERTY ShutdownBounded
