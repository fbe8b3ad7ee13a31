SPECIFICATION Spec
CONSTANTS
  t1 = t1
  c1 = c1
  Clients = {t1}
  Conns = {c1}
  NoConn = NoConn
  NoClient = NoClient
  Modes = {"ReadWrite"}
  Queries = {"insert", "select"}
  hash_fn <- MCHash
  Writes = {"insert"}
  Invalid = {}
  Breaks = FALSE
SYMMETRY Symmetry
INVARIANT RecordedIsPrepared
