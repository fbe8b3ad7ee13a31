SPECIFICATION Spec
CONSTANTS
  t1 = t1
  t2 = t2
  c1 = c1
  Clients = {t1, t2}
  Conns = {c1}
  NoConn = NoConn
  Hash <- DistinctHash
  Standby = {}
  MinConnection = 1
  MaxConnection = 1
  OpenFails = FALSE
  CloseFails = FALSE
  StopJoins = FALSE
PROPERTY WaitHonoured
