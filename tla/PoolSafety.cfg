SPECIFICATION Spec
CONSTANTS
  t1 = t1
  t2 = t2
  t3 = t3
  c1 = c1
  c2 = c2
  c3 = c3
  c4 = c4
  Clients = {t1, t2, t3}
  Conns = {c1, c2, c3, c4}
  NoConn = NoConn
  Hash <- CollidingHash
  Standby = {}
  MinConnection = 2
  MaxConnection = 4
  OpenFails = TRUE
  CloseFails = FALSE
  StopJoins = FALSE
SYMMETRY ClientSymmetry
INVARIANT TypeOK
INVARIANT NoConnectionLost
INVARIANT StopResetsPool
INVARIANT StopFindsConnections
