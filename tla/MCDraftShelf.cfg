SPECIFICATION ShelfSpec
CONSTANTS
    Refs = {1, 2}
    New = 1
    Target = 2
    Files = {1, 2}
    Scenes <- MCScenes
    None = None
    Faults = 1
    MaxPrunes = 2
INVARIANTS
  DraftsKept
  LeftoversSwept
  ShelfShown
CHECK_DEADLOCK FALSE
