CONSTANTS
  c1 = c1
  o1 = o1
  o2 = o2
  o3 = o3
  Clients = {c1}
  Ops = {o1, o2, o3}
  Home <- OneClient
  Does <- Crowd
  NoOp = NoOp
  Pools = {k1}
  NoPool = NoPool
  Conns = {n1, n2}
  NoConn = NoConn
  Limit = 2
  MaxCloses = 1
  MaxChanges = 0
SPECIFICATION FairSpec
PROPERTIES
  EveryOperationReturns
