SPECIFICATION Spec
CONSTANTS
  t1 = t1
  t2 = t2
  c1 = c1
  c2 = c2
  c3 = c3
  c4 = c4
  Clients = {t1, t2}
  Conns = {c1, c2, c3, c4}
  NoConn = NoConn
  Hash <- DistinctHash
  Standby = {c1}
  MinConnection = 2
  MaxConnection = 4
  OpenFails = TRUE
  CloseFails = TRUE
  StopJoins = FALSE
SYMMETRY ClientSymmetry
INVARIANT NodesValid
INVARIANT ExclusiveLease
INVARIANT WaiterSurvivesStop
PROPERTY ImplementsLeases
