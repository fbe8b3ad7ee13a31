SPECIFICATION FairSpec
CONSTANTS
  t1 = t1
  t2 = t2
  c1 = c1
  c2 = c2
  c3 = c3
  Clients = {t1, t2}
  Conns = {c1, c2, c3}
  NoConn = NoConn
  Hash <- CollidingHash
  Standby = {c1}
  MinConnection = 1
  MaxConnection = 2
  OpenFails = TRUE
  CloseFails = TRUE
  StopJoins = FALSE
PROPERTY AcquireReturns
PROPERTY MutexReleased
INVARIANT UsableConnections
