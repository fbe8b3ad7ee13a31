SPECIFICATION Spec
CONSTANTS
  t1 = t1
  t2 = t2
  c1 = c1
  Clients = {t1, t2}
  Conns = {c1}
  NoConn = NoConn
  NoClient = NoClient
  Modes = {"ReadWrite"}
  Queries = {"insert"}
  hash_fn <- MCHash
  Writes = {"insert"}
  Invalid = {}
  Breaks = FALSE
SYMMETRY Symmetry
INVARIANT NothingStranded
