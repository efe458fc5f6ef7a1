CONSTANTS
  Job = {j1}
  Thread = {t1, t2}
  MessageId = {m1, m2, m3}
  MaxUpload = 1
  MaxLost = 1
  Offered <- MCOffered
  None = None
SPECIFICATION Spec
SYMMETRY Symmetry
INVARIANT TypeOK
INVARIANT MarkerTruthful
INVARIANT MarkerComplete
INVARIANT OnlyAcceptablePublished
INVARIANT OneCommandPerThread
INVARIANT ReplyBacked
PROPERTY RefinesHandoff
