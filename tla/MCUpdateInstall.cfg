CONSTANTS
  p1 = p1
  p2 = p2
  NoOne = NoOne
  Procs <- MCProcs
  MaxRelease = 3
  MaxFaults = 2
SYMMETRY Symmetry
SPECIFICATION Spec
INVARIANTS
  UpdateSound
PROPERTIES
  ImplementsPromise
  NoDowngrade
CHECK_DEADLOCK FALSE
