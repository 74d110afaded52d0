CONSTANTS
  Procs = {p1, p2}
  NoProc = NoProc
  Revs = {r1, r2}
  NoRev = NoRev
  Msgs = {m1, m2}
  NoMsg = NoMsg
  Appends = {a1, a2}
  NoAppend = NoAppend
SPECIFICATION Spec
SYMMETRY SendSymmetry
INVARIANTS
  SendInv
  AtMostOneSubmission
  ReceiptTruthful
PROPERTIES
  NoSilentLoss
  ImplementsPromise
