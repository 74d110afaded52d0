SPECIFICATION Spec
CONSTANTS
  Procs = {p1, p2}
  Accounts = {"acc1", "acc2"}
  Addresses = {"x", "y", "z"}
  provider <- MCProvider
  owners <- MCOwners
  Requests <- MCRequests
  MaxRuns = 2
  MaxFaults = 2
SYMMETRY Symmetric
INVARIANTS
  BindingsKept
  SetupTrue
PROPERTIES
  SeenOrAsked
CHECK_DEADLOCK FALSE
