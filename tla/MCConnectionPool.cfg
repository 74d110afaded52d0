CONSTANTS
  c1 = c1
  o1 = o1
  o2 = o2
  o3 = o3
  Clients = {c1}
  Ops = {o1, o2, o3}
  Home <- OneClient
  Does <- Mixed
  NoOp = NoOp
  Pools = {k1, k2}
  NoPool = NoPool
  Conns = {n1, n2, n3, n4}
  NoConn = NoConn
  Limit = 2
  MaxCloses = 1
  MaxChanges = 1
SPECIFICATION Spec
SYMMETRY PoolSymmetry
INVARIANTS
  GateInv
  ConnectionsUsable
  ConnectionsAccounted
PROPERTIES
  ImplementsGate
