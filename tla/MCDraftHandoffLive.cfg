CONSTANTS
  Procs = {p1, p2}
  NoProc = NoProc
  Revs = {r1}
  NoRev = NoRev
  Attempts = {a1}
  NoAttempt = NoAttempt
  Files = 1
SPECIFICATION FairSpec
PROPERTY HandoffEnds
