CONSTANTS
  Procs = {p1, p2}
  NoProc = NoProc
  Revs = {r1, r2}
  NoRev = NoRev
  Attempts = {a1, a2}
  NoAttempt = NoAttempt
  Files = 2
SPECIFICATION Spec
SYMMETRY HandoffSymmetry
INVARIANTS
  HandoffInv
  SnapshotsKept
  OutcomeTrue
PROPERTIES
  ImplementsHandoffPromise
