------------------------------ MODULE RowValues ------------------------------
(***************************************************************************)
(* Reading the values of a row: RowResult::As<T>, GetColumn and the Mapper *)
(* (row_result.h, pg_row_result.cc, mapper.h).  A row is a sequence of     *)
(* fields, a name and a value; a value is told apart by what pqxx can      *)
(* convert it to.  Nothing here keeps any state.                           *)
(***************************************************************************)
EXTENDS Timestamps, Sequences, FiniteSetsExt

Field(name, value) == [name |-> name, value |-> value]

\* The kinds of text that pqxx converts to each type; none of them is NULL.
\* "small", "medium" and "large" are the integers that need the width of
\* int16_t, int32_t and int64_t.
Converts ==
  LET numbers == {"small", "medium", "large", "fraction"}
  IN [int16_t |-> {"small"}, int32_t |-> {"small", "medium"},
      int64_t |-> {"small", "medium", "large"}, float |-> numbers, double |-> numbers,
      string |-> numbers \cup {"text", "timestamp"}]

SqlNull == [kind |-> "null"]

\* The rows that a query may return.
FieldValue ==
  {SqlNull} \cup [kind : {"small", "medium", "large", "fraction", "text"}] \cup TimestampText
Row == Seq([name : STRING, value : FieldValue])

\* row::at of pqxx by index, which starts at 0: an index that is negative
\* gives a field that is NULL.
FieldAt(row, index) ==
  IF index < 0 THEN Returned(SqlNull)
  ELSE IF index >= Len(row) THEN Thrown("range_error")
  ELSE Returned(row[index + 1].value)

\* row::at of pqxx by name: the first column of that name.
ColumnNumber(row, name) ==
  LET named == {i \in DOMAIN row : row[i].name = name}
  IN IF named = {} THEN Thrown("argument_error") ELSE Returned(Min(named) - 1)

\* field::as of pqxx.
Convert(type, field) ==
  IF Returns(field) /\ field.returned.kind \in Converts[type]
  THEN field ELSE Thrown("invalid_argument")

\* AsImpl_* by index.
AsImpl(type, row, index) == Convert(type, FieldAt(row, index))

\* AsImpl_* by name.
AsImplNamed(type, row, name) ==
  LET number == ColumnNumber(row, name)
  IN IF Returns(number) THEN Convert(type, FieldAt(row, number.returned))
                                     ELSE Thrown("invalid_argument")

\* RowResult::As<T>(index): bool and the rest compile, and throw.
As(type, row, index) ==
  IF type \in DOMAIN Converts THEN AsImpl(type, row, index) ELSE Thrown("invalid_argument")

\* RowResult::As<T>(column_name): the other types do not compile.
AsNamed(type, row, name) == AsImplNamed(type, row, name)

\* AsImpl_DateTime_*, by index and by name.  std::get_time stops at a text that
\* is no timestamp, which nobody looks at, and some time comes out.
IsTimestamp(field) == Returns(field) /\ field.returned.kind = "timestamp"
Unparsed(field) == IF Returns(field) THEN Returned("some time") ELSE field

AsImplTimestampz(field, local) ==
  IF IsTimestamp(field) THEN ParseTimestampz(field.returned, local) ELSE Unparsed(field)
AsImplTimestamp(field, local) ==
  IF IsTimestamp(field) THEN ParseTimestamp(field.returned, local) ELSE Unparsed(field)

AsDateTimeOffset(row, index, local) == AsImplTimestampz(AsImpl("string", row, index), local)
AsDateTimeOffsetNamed(row, name, local) ==
  AsImplTimestampz(AsImplNamed("string", row, name), local)
AsDateTime(row, index, local) == AsImplTimestamp(AsImpl("string", row, index), local)
AsDateTimeNamed(row, name, local) == AsImplTimestamp(AsImplNamed("string", row, name), local)

(***************************************************************************)
(* GetColumn returns a Column by value: the PgColumn is sliced, and what   *)
(* is left has no name (Column::Name() is empty) and no value.             *)
(***************************************************************************)
Column == "Column"

Size(row) == Len(row)

ColumnOf(field) == IF Returns(field) THEN Returned(Column) ELSE field

\* Mutant: a negative index goes on to pqxx.
GetColumnNegative(row, index) ==
  IF index >= Size(row) THEN Thrown("OutOfBoundException") ELSE ColumnOf(FieldAt(row, index))

GetColumn(row, index) ==
  IF index < 0 \/ index >= Size(row) THEN Thrown("OutOfBoundException")
                                  ELSE ColumnOf(FieldAt(row, index))

GetColumnNamed(row, name) ==
  Returned(IF Returns(ColumnNumber(row, name)) THEN Column ELSE "nullopt")

(***************************************************************************)
(* The Mapper.  column_names has to be as long as the types.               *)
(***************************************************************************)
Dynamic(types, row, column_names) ==
  LET values == [i \in DOMAIN types |-> AsNamed(types[i], row, column_names[i])]
  IN IF \A i \in DOMAIN types : Returns(values[i])
     THEN Returned([i \in DOMAIN types |-> values[i].returned])
     ELSE Thrown("invalid_argument")

\* Mutant: the index sequence runs backwards.
MapBackwards(members, tuple) ==
  [m \in {members[i] : i \in DOMAIN members} |->
     tuple[Len(tuple) + 1 - (CHOOSE i \in DOMAIN members : members[i] = m)]]

\* TModel{std::get<Is>(tuple)...}: the members in the order of declaration.
Map(members, tuple) ==
  [m \in {members[i] : i \in DOMAIN members} |->
     tuple[CHOOSE i \in DOMAIN members : members[i] = m]]
=============================================================================
