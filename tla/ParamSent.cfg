SPECIFICATION Spec
CONSTANTS
  Variables = {a}
  Types = {"int32_t"}
  Values = {"x"}
  MaxParams = 1
  Handles = {r}
  Addresses = {m1, m2}
  Null = Null
  Tables <- NoRows
  MaxVisited = 1
  Names = {}
  Members <- NoMembers
  MemberTypes <- NoMembers
  LocalOffsets = {}
PROPERTY
  SentAsMade
