SPECIFICATION SaveSpec
CONSTANTS
    None = None
    Kinds = {"read", "server", "page", "save"}
    Chunk = 2
    Budget = 3
    MaxChanges <- MCMaxChanges
    MaxFaults = 1
    MaxOthers = 2
INVARIANTS
  ReadSound
  SavedTrue
  CleanupSound
CHECK_DEADLOCK FALSE
