SPECIFICATION Spec
CONSTANTS
  None = None
  box1 = box1
  box2 = box2
  Row <- MCRow
  Message <- MCMessage
  Box <- MCBox
  Start <- MCStart
  Odd <- MCOdd
  Limit = {1, 2}
  Budget = {1, 4}
  MaxMessages = 3
  ChunkSize = 2
  BatchSize = 2
  Unit = 2
  MaxEdits <- MCEdits
  MaxFileEdits = 1
INVARIANTS
  PagesSound
  CoverageTrue
PROPERTIES
  PagesEnd
CHECK_DEADLOCK FALSE
