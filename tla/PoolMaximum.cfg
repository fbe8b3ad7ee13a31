SPECIFICATION Spec
CONSTANTS
  t1 = t1
  t2 = t2
  t3 = t3
  c1 = c1
  c2 = c2
  Clients = {t1, t2, t3}
  Conns = {c1, c2}
  NoConn = NoConn
  Hash <- DistinctHash
  Standby = {}
  MinConnection = 2
  MaxConnection = 4
  OpenFails = FALSE
  CloseFails = FALSE
  StopJoins = FALSE
PROPERTY WaitsOnlyAtMaximum
