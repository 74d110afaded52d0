SPECIFICATION Spec
CONSTANTS
  Procs = {p1, p2}
  Requests <- MCRequests
  Offers <- MCOffers
  MaxRuns = 2
  MaxFaults = 2
SYMMETRY Symmetric
INVARIANTS
  OnlyNamedMessage
  ReportsHonest
  MessageKept
  TransferredOnce
CHECK_DEADLOCK FALSE
