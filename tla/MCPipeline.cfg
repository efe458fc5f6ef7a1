CONSTANTS
  Job = {j1}
  Thread = {t1}
  MessageId = {m1, m2}
  MaxUpload = 1
  MaxLost = 1
  Process = {p1}
  MaxReceive = 2
  MaxStops = 0
  Offered <- MCOffered
  None = None
SPECIFICATION PipelineSpec
SYMMETRY Symmetry
INVARIANT AcceptedNotLost
INVARIANT ProcessedIsAcceptable
INVARIANT RepetitionBounded
PROPERTY RefinesService
