CONSTANTS
  Job = {j1}
  Thread = {t1, t2}
  MessageId = {m1, m2}
  MaxUpload = 1
  MaxLost = 1
  Offered <- MCOffered
  None = None
SPECIFICATION FairSpec
PROPERTY HandoffReached
PROPERTY DuplicatesNeedOverlap
