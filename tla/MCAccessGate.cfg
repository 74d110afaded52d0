SPECIFICATION Spec
CONSTANTS
  Procs = {p1, p2}
  MaxRuns = 2
  MaxPids = 2
  MaxFaults = 3
SYMMETRY Symmetric
INVARIANTS
  GateSound
  AnswersTrue
PROPERTIES
  StartsAlone
CHECK_DEADLOCK FALSE
