CONSTANTS
  Job = {j1}
  Thread = {t1}
  MessageId = {m1}
  MaxUpload = 1
  MaxLost = 0
  Offered <- MCOffered
  None = None
SPECIFICATION Spec
SYMMETRY Symmetry
INVARIANT DownloadsWithinLimit
