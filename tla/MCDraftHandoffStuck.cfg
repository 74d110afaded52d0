CONSTANTS
  Procs = {p1}
  NoProc = NoProc
  Revs = {r1}
  NoRev = NoRev
  Attempts = {a1}
  NoAttempt = NoAttempt
  Files = 2
SPECIFICATION Spec
INVARIANT CleanupResumable
