SPECIFICATION FairSpec
CONSTANTS
  Variables = {a, b}
  Types = {"int32_t", "float", "string", "time_point"}
  Values = {"x", "y"}
  MaxParams = 2
  Handles = {r, s}
  Addresses = {m1, m2, m3}
  Null = Null
  Tables <- MCTables
  MaxVisited = 4
  Names <- MCNames
  Members <- MCMembers
  MemberTypes <- MCMemberTypes
  LocalOffsets <- MCLocalOffsets
INVARIANTS
  TypeOK
  VisitsEveryRow
  ColumnsFoundAreRead
  ModelsFillByPosition
  TimesKeepTheirDistance
PROPERTIES
  SentInOrder
  LoopEnds
