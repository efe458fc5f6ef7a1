CONSTANTS
  Job = {j1}
  Thread = {t1, t2}
  MessageId = {m1, m2}
  MaxUpload = 1
  MaxLost = 0
  Offered <- MCOffered
  None = None
SPECIFICATION Spec
SYMMETRY Symmetry
INVARIANT AtMostOneCommandPerJob
