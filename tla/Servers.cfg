SPECIFICATION Spec
CONSTANTS
  t1 = t1
  t2 = t2
  t3 = t3
  c1 = c1
  c2 = c2
  c3 = c3
  c4 = c4
  h1 = h1
  h2 = h2
  Threads = {t1, t2, t3}
  Conns = {c1, c2, c3, c4}
  NoConn = NoConn
  Clusters <- SameLogin
  Grants <- AllGrant
  Minimum = 2
  Maximum = 4
SYMMETRY Symmetry
INVARIANT TypeOK
INVARIANT DriverOutlivesTransaction
INVARIANT SessionsBelongToPool
INVARIANT UnopenedPerFailure
PROPERTY FallsBack
PROPERTY ConnectErrorsCaught
