CONSTANTS
  MaxSize = 1
  MaxRows = 3
  MaxCells = 2
  None = None
  Blank = ""
  Cell <- MCCell
  Strip <- MCStrip
  File <- MCFile
  Replacement <- MCReplacement
SPECIFICATION Spec
CHECK_DEADLOCK FALSE
INVARIANT TypeOK
INVARIANT VerdictFollowsBytes
INVARIANT PathsAgree
INVARIANT SizeSound
INVARIANT CountsHonest
PROPERTY RefinesIntake
