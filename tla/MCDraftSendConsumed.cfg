CONSTANTS
  Procs = {p1, p2}
  NoProc = NoProc
  Revs = {r1}
  NoRev = NoRev
  Msgs = {m1}
  NoMsg = NoMsg
  Appends = {a1}
  NoAppend = NoAppend
SPECIFICATION Spec
INVARIANT ConsumedAnswered
