CONSTANTS
  Procs = {p1, p2, p3, p4}
  NoProc = NoProc
  Inodes = {i1, i2, i3, i4, i5}
  NoInode = NoInode
  Faults = TRUE
SPECIFICATION Spec
SYMMETRY LeaseSymmetry
INVARIANTS
  LeaseExclusive
PROPERTIES
  ImplementsMutex
