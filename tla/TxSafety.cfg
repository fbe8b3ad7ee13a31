SPECIFICATION Spec
CONSTANTS
  t1 = t1
  t2 = t2
  c1 = c1
  c2 = c2
  Clients = {t1, t2}
  Conns = {c1, c2}
  NoConn = NoConn
  NoClient = NoClient
  Modes = {"ReadWrite", "ReadCommitted", "NonTransaction", "Unknown"}
  Queries = {"insert", "delete", "select", "typo"}
  hash_fn <- MCHash
  Writes = {"insert", "delete"}
  Invalid = {"typo"}
  Breaks = TRUE
SYMMETRY Symmetry
INVARIANT TypeOK
INVARIANT ConnectionsNotShared
INVARIANT PendingWritesOwned
INVARIANT FreeConnectionIsClean
PROPERTY EndedOnlyByOwner
PROPERTY PreparedOnce
