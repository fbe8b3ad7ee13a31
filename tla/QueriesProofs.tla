---------------------------- MODULE QueriesProofs ----------------------------
(***************************************************************************)
(* Theorems about Queries: what reading a row gives, the loops over the    *)
(* results and the parameters sent, for every set of results, rows, names, *)
(* time zones and parameters.                                              *)
(***************************************************************************)
EXTENDS Queries, NumberSets, SequenceTheorems, TLAPS

LEMMA OutcomesDiffer ==
  /\ \A x : Returns(Returned(x)) /\ Returned(x).returned = x
  /\ \A e : ~Returns(Thrown(e))
BY DEF Returns, Returned, Thrown

-----------------------------------------------------------------------------
(***************************************************************************)
(* Reading a row.                                                          *)
(***************************************************************************)
LEMMA RowShape ==
  ASSUME NEW row \in Row
  PROVE  /\ Len(row) \in Nat /\ DOMAIN row = 1..Len(row)
         /\ \A i \in DOMAIN row : row[i].value \in FieldValue
<1> DEFINE Fields == [name : STRING, value : FieldValue]
<1>1. row \in Seq(Fields)
  BY DEF Row
<1>2. \A field \in Fields : field.value \in FieldValue
  OBVIOUS
<1> HIDE DEF Fields
<1> QED BY <1>1, <1>2

\* Fields that exist are read without an error of pqxx::row.
LEMMA FieldAtReturns ==
  ASSUME NEW row \in Row, NEW i \in DOMAIN row
  PROVE  FieldAt(row, i - 1) = Returned(row[i].value)
BY RowShape DEF FieldAt

\* A name finds the first of the columns of that name, or none.
LEMMA SomeFirst ==
  ASSUME NEW row \in Row, NEW name, NEW i \in DOMAIN row, row[i].name = name
  PROVE  \E first \in DOMAIN row : FirstNamed(row, name, first)
<1> DEFINE same == {j \in DOMAIN row : row[j].name = name}
<1>1. same \in SUBSET Nat /\ same # {}
  BY RowShape
<1>2. PICK first \in same : \A m \in same : first <= m
  <2> HIDE DEF same
  <2> QED BY <1>1, LeastNumber
<1>3. ASSUME NEW j \in 1..(first - 1) PROVE row[j].name # name
  BY <1>2, RowShape
<1> QED BY <1>2, <1>3 DEF FirstNamed

LEMMA ColumnNumberIsFirst ==
  ASSUME NEW row \in Row, NEW name, NEW i \in DOMAIN row, FirstNamed(row, name, i)
  PROVE  ColumnNumber(row, name) = Returned(i - 1)
<1> DEFINE same == {j \in DOMAIN row : row[j].name = name}
<1>1. same \in SUBSET Nat /\ i \in same /\ \A j \in same : i <= j
  BY RowShape DEF FirstNamed
<1>2. ColumnNumber(row, name) = Returned(Min(same) - 1)
  BY <1>1 DEF ColumnNumber
<1>3. Min(same) = i
  <2> HIDE DEF same
  <2>1. Min(same) \in same /\ \A j \in same : Min(same) <= j
    BY <1>1 DEF Min
  <2>2. Min(same) \in Nat /\ i \in Nat /\ i <= Min(same) /\ Min(same) <= i
    BY <1>1, <2>1
  <2> QED BY <2>2
<1> QED BY <1>2, <1>3

LEMMA NoColumn ==
  ASSUME NEW row, NEW name, \A i \in DOMAIN row : row[i].name # name
  PROVE  ColumnNumber(row, name) = Thrown("argument_error")
BY DEF ColumnNumber

\* A conversion returns the value of the field, or throws.
LEMMA ConvertOutcome ==
  ASSUME NEW type, NEW value
  PROVE  Convert(type, Returned(value)) =
           IF value.kind \in Converts[type] THEN Returned(value) ELSE Thrown("invalid_argument")
BY OutcomesDiffer DEF Convert

\* What a name reads is the value of the first column of that name, or nothing.
LEMMA NamedOutcome ==
  ASSUME NEW row \in Row, NEW name, NEW type, NEW i \in DOMAIN row, FirstNamed(row, name, i)
  PROVE  AsNamed(type, row, name) =
           IF row[i].value.kind \in Converts[type]
           THEN Returned(row[i].value) ELSE Thrown("invalid_argument")
<1>1. AsNamed(type, row, name) = Convert(type, Returned(row[i].value))
  BY ColumnNumberIsFirst, FieldAtReturns, OutcomesDiffer DEF AsNamed, AsImplNamed
<1> QED BY <1>1, ConvertOutcome

LEMMA NothingNamed ==
  ASSUME NEW row, NEW name, NEW type, \A i \in DOMAIN row : row[i].name # name
  PROVE  ~Returns(AsNamed(type, row, name))
BY NoColumn, OutcomesDiffer DEF AsNamed, AsImplNamed

LEMMA OneFirst ==
  ASSUME NEW row \in Row, NEW name, NEW i \in DOMAIN row, NEW j \in DOMAIN row,
         FirstNamed(row, name, i), FirstNamed(row, name, j)
  PROVE  i = j
<1>1. i \in Nat \ {0} /\ j \in Nat \ {0} /\ row[i].name = name /\ row[j].name = name
  BY RowShape DEF FirstNamed
<1>2. ~(j < i) /\ ~(i < j)
  BY <1>1 DEF FirstNamed
<1> QED BY <1>1, <1>2

\* Any value but NULL is a string.
LEMMA AllButNull ==
  ASSUME NEW value \in FieldValue
  PROVE  value.kind \in Converts["string"] <=> value # SqlNull
<1>1. SqlNull.kind = "null"
  BY DEF SqlNull
<1>2. "null" \notin Converts["string"]
  BY DEF Converts
<1>3. value # SqlNull => value.kind \in Converts["string"]
  BY DEF FieldValue, TimestampText, Converts
<1> QED BY <1>1, <1>2, <1>3

LEMMA ReadByIndex ==
  ASSUME NEW row \in Row, NEW index \in -1..Len(row)
  PROVE  Returns(As("string", row, index)) <=>
           /\ Returns(GetColumn(row, index))
           /\ index + 1 \notin {i \in DOMAIN row : row[i].value = SqlNull}
<1>0. Len(row) \in Nat /\ DOMAIN row = 1..Len(row) /\ "string" \in DOMAIN Converts
  BY RowShape DEF Converts
<1>1. CASE index = -1
  <2>1. FieldAt(row, index) = Returned(SqlNull) /\ ~Returns(GetColumn(row, index))
    BY <1>1, OutcomesDiffer DEF FieldAt, GetColumn
  <2>2. ~Returns(As("string", row, index))
    BY <1>0, <2>1, ConvertOutcome, AllButNull, OutcomesDiffer DEF As, AsImpl, FieldValue
  <2> QED BY <2>1, <2>2
<1>2. CASE index = Len(row)
  <2>1. FieldAt(row, index) = Thrown("range_error") /\ ~Returns(GetColumn(row, index))
    BY <1>0, <1>2, OutcomesDiffer DEF FieldAt, GetColumn, Size
  <2>2. ~Returns(As("string", row, index))
    BY <1>0, <2>1, OutcomesDiffer DEF As, AsImpl, Convert
  <2> QED BY <2>1, <2>2
<1>3. CASE index \in 0..(Len(row) - 1)
  <2>1. PICK i \in DOMAIN row : i = index + 1 /\ index = i - 1
    BY <1>0, <1>3
  <2>2. Returns(GetColumn(row, index))
    <3>1. FieldAt(row, index) = Returned(row[i].value)
      BY <2>1, FieldAtReturns
    <3>2. GetColumn(row, index) = ColumnOf(FieldAt(row, index))
      BY <1>0, <1>3 DEF GetColumn, Size
    <3> QED BY <3>1, <3>2, OutcomesDiffer DEF ColumnOf
  <2>3. As("string", row, index) = Convert("string", Returned(row[i].value))
    BY <1>0, <2>1, FieldAtReturns DEF As, AsImpl
  <2>4. Returns(As("string", row, index)) <=> row[i].value # SqlNull
    BY <2>3, RowShape, ConvertOutcome, AllButNull, OutcomesDiffer
  <2> QED BY <2>1, <2>2, <2>4
<1>4. index = -1 \/ index = Len(row) \/ index \in 0..(Len(row) - 1)
  <2>1. PICK size \in Nat : size = Len(row)
    BY <1>0
  <2>2. index \in Int /\ -1 <= index /\ index <= size
    BY <2>1
  <2>3. index = -1 \/ index = size \/ index \in 0..(size - 1)
    BY <2>2
  <2> QED BY <2>1, <2>3
<1> QED BY <1>1, <1>2, <1>3, <1>4

LEMMA ReadByName ==
  ASSUME NEW row \in Row, NEW name
  PROVE  LET first == {i \in DOMAIN row : FirstNamed(row, name, i)}
             nulls == {i \in DOMAIN row : row[i].value = SqlNull}
         IN /\ GetColumnNamed(row, name) = Returned(IF first = {} THEN "nullopt" ELSE Column)
            /\ Returns(AsNamed("string", row, name)) <=> first \ nulls # {}
<1>1. CASE \E i \in DOMAIN row : FirstNamed(row, name, i)
  <2>1. PICK i \in DOMAIN row : FirstNamed(row, name, i)
    BY <1>1
  <2>2. GetColumnNamed(row, name) = Returned(Column)
    BY <2>1, ColumnNumberIsFirst, OutcomesDiffer DEF GetColumnNamed
  <2>3. Returns(AsNamed("string", row, name)) <=> row[i].value # SqlNull
    BY <2>1, NamedOutcome, RowShape, AllButNull, OutcomesDiffer
  <2>4. {j \in DOMAIN row : FirstNamed(row, name, j)} = {i}
    BY <2>1, OneFirst
  <2> QED BY <2>2, <2>3, <2>4
<1>2. CASE ~\E i \in DOMAIN row : FirstNamed(row, name, i)
  <2>1. \A i \in DOMAIN row : row[i].name # name
    BY <1>2, SomeFirst
  <2>2. GetColumnNamed(row, name) = Returned("nullopt") /\ ~Returns(AsNamed("string", row, name))
    BY <2>1, NoColumn, NothingNamed, OutcomesDiffer DEF GetColumnNamed
  <2> QED BY <1>2, <2>2
<1> QED BY <1>1, <1>2

\* The tuple and the struct of the Mapper.
LEMMA ModelFills ==
  ASSUME NEW row \in Row, NEW names \in [DOMAIN Members -> Names]
  PROVE  ModelFillsByPosition(row, names)
<1> DEFINE columns == [n \in DOMAIN Members |-> AsNamed(MemberTypes[n], row, names[n])]
           tuple == Dynamic(MemberTypes, row, names)
           Fits(n, i) == /\ FirstNamed(row, names[n], i)
                         /\ row[i].value.kind \in Converts[MemberTypes[n]]
<1>1. DOMAIN MemberTypes = DOMAIN Members
  <2>1. DOMAIN MemberTypes = 1..Len(MemberTypes) /\ DOMAIN Members = 1..Len(Members)
        /\ Len(MemberTypes) = Len(Members)
    BY QueriesAssumption
  <2> QED BY <2>1
<1>2. tuple = IF \A n \in DOMAIN Members : Returns(columns[n])
              THEN Returned([n \in DOMAIN Members |-> columns[n].returned])
              ELSE Thrown("invalid_argument")
  BY <1>1, Zenon DEF Dynamic
<1>3. ASSUME NEW n \in DOMAIN Members, NEW i \in DOMAIN row, Fits(n, i)
      PROVE  columns[n] = Returned(row[i].value)
  BY <1>3, NamedOutcome
<1>4. ASSUME NEW n \in DOMAIN Members, Returns(columns[n])
      PROVE  \E i \in DOMAIN row : Fits(n, i)
  <2>1. PICK j \in DOMAIN row : row[j].name = names[n]
    BY <1>4, NothingNamed
  <2>2. PICK i \in DOMAIN row : FirstNamed(row, names[n], i)
    BY <2>1, SomeFirst
  <2> QED BY <1>4, <2>2, NamedOutcome, OutcomesDiffer
<1>5. CASE \E n \in DOMAIN Members : ~Returns(columns[n])
  <2>1. PICK n \in DOMAIN Members : ~Returns(columns[n])
    BY <1>5
  <2>2. ~\E i \in DOMAIN row : Fits(n, i)
    BY <1>3, <2>1, OutcomesDiffer
  <2>3. ~Returns(tuple)
    BY <1>2, <2>1, OutcomesDiffer
  <2> QED BY <2>2, <2>3 DEF ModelFillsByPosition
<1>6. CASE \A n \in DOMAIN Members : Returns(columns[n])
  <2> DEFINE values == [n \in DOMAIN Members |-> columns[n].returned]
  <2>1. Returns(tuple) /\ tuple.returned = values
    BY <1>2, <1>6, OutcomesDiffer, Zenon
  <2>2. ASSUME NEW n \in DOMAIN Members
        PROVE  \E i \in DOMAIN row :
                 Fits(n, i) /\ Map(Members, values)[Members[n]] = row[i].value
    <3>1. Map(Members, values)[Members[n]] =
            values[CHOOSE m \in DOMAIN Members : Members[m] = Members[n]]
      BY DEF Map
    <3>2. (CHOOSE m \in DOMAIN Members : Members[m] = Members[n]) = n
      BY QueriesAssumption
    <3>3. PICK i \in DOMAIN row : Fits(n, i)
      BY <1>4, <1>6
    <3>4. columns[n].returned = row[i].value
      BY <1>3, <3>3, OutcomesDiffer
    <3> QED BY <3>1, <3>2, <3>3, <3>4
  <2> QED BY <2>1, <2>2 DEF ModelFillsByPosition
<1> QED BY <1>5, <1>6

-----------------------------------------------------------------------------
(***************************************************************************)
(* Timestamps.                                                             *)
(***************************************************************************)
LEMMA TextShape ==
  ASSUME NEW text \in TimestampText
  PROVE  /\ text.wall \in Int /\ text.fraction \in BOOLEAN
         /\ \/ ~text.zone.given
            \/ /\ text.zone.given /\ text.zone.sign \in {-1, 1}
               /\ text.zone.hours \in Nat /\ text.zone.minutes \in Nat
<1>1. /\ text.wall \in Int /\ text.fraction \in BOOLEAN
      /\ \/ text.zone = NoZone
         \/ text.zone \in [given : {TRUE}, sign : {-1, 1}, hours : Nat, minutes : Nat]
  BY DEF TimestampText
<1>2. CASE text.zone = NoZone
  BY <1>1, <1>2 DEF NoZone
<1>3. CASE text.zone \in [given : {TRUE}, sign : {-1, 1}, hours : Nat, minutes : Nat]
  BY <1>1, <1>3
<1> QED BY <1>1, <1>2, <1>3

\* What ParseTimestampz makes of any text of Postgres: it throws for a fraction
\* and for an offset of whole hours; else it is off the instant that Postgres
\* means by the offset of the machine, and west of Greenwich by twice the minutes
\* of the text's offset too, since their sign is wrong.
THEOREM ParseOutcome ==
  ASSUME NEW text \in TimestampText, NEW local \in Int
  PROVE  LET west == text.zone.given /\ text.zone.sign < 0
             whole == text.zone.given /\ text.zone.minutes = 0
         IN ParseTimestampz(text, local) =
              IF text.fraction \/ whole THEN Fails
              ELSE Returned(Instant(text) - local -
                     (IF west THEN 2 * text.zone.minutes ELSE 0))
<1>1. text.wall \in Int /\ text.fraction \in BOOLEAN
  BY TextShape
<1>2. CASE ~text.zone.given
  <2>1. CASE text.fraction
    BY <1>2, <2>1 DEF ParseTimestampz
  <2>2. CASE ~text.fraction
    BY <1>1, <1>2, <2>2 DEF ParseTimestampz, MakeTime, Instant
  <2> QED BY <1>1, <2>1, <2>2
<1>3. CASE text.zone.given
  <2>1. /\ text.zone.given /\ text.zone.sign \in {-1, 1}
        /\ text.zone.hours \in Nat /\ text.zone.minutes \in Nat
    BY <1>3, TextShape
  <2>2. CASE text.fraction \/ text.zone.minutes = 0
    BY <2>1, <2>2 DEF ParseTimestampz
  <2>3. CASE ~text.fraction /\ text.zone.minutes # 0
    <3>1. ParseTimestampz(text, local) =
            Returned(text.wall - text.zone.sign * text.zone.hours * 60
                       - text.zone.minutes - local)
      BY <2>1, <2>3 DEF ParseTimestampz, MakeTime
    <3>2. Instant(text) =
            text.wall - text.zone.sign * (text.zone.hours * 60 + text.zone.minutes)
      BY <2>1 DEF Instant
    <3>3. CASE text.zone.sign = 1
      <4>1. text.wall - text.zone.sign * text.zone.hours * 60 - text.zone.minutes - local =
              Instant(text) - local - 0
        BY <1>1, <2>1, <3>2, <3>3
      <4> QED BY <2>3, <3>1, <3>3, <4>1
    <3>4. CASE text.zone.sign = -1
      <4>1. text.wall - text.zone.sign * text.zone.hours * 60 - text.zone.minutes - local =
              Instant(text) - local - 2 * text.zone.minutes
        BY <1>1, <2>1, <3>2, <3>4
      <4> QED BY <2>1, <2>3, <3>1, <3>4, <4>1
    <3> QED BY <2>1, <3>3, <3>4
  <2> QED BY <2>2, <2>3
<1> QED BY <1>2, <1>3

LEMMA TimeIsRead ==
  ASSUME NEW row \in Row, NEW i \in DOMAIN row, row[i].value.kind = "timestamp", NEW local
  PROVE  /\ row[i].value \in TimestampText
         /\ AsDateTimeOffset(row, i - 1, local) = ParseTimestampz(row[i].value, local)
         /\ AsDateTime(row, i - 1, local) = ParseTimestamp(row[i].value, local)
<1> DEFINE text == row[i].value
<1>1. text \in TimestampText
  <2>1. text \in FieldValue
    BY RowShape
  <2> HIDE DEF text
  <2> QED BY <2>1 DEF FieldValue, SqlNull, text
<1>2. AsImpl("string", row, i - 1) = Returned(text)
  BY FieldAtReturns, ConvertOutcome DEF AsImpl, Converts
<1>3. /\ AsDateTimeOffset(row, i - 1, local) = ParseTimestampz(text, local)
      /\ AsDateTime(row, i - 1, local) = ParseTimestamp(text, local)
  BY <1>2, OutcomesDiffer
     DEF AsDateTimeOffset, AsDateTime, AsImplTimestampz, AsImplTimestamp, IsTimestamp
<1> QED BY <1>1, <1>3

\* Two comparable times are off by the same.
LEMMA ParsedApart ==
  ASSUME NEW text \in TimestampText, NEW text2 \in TimestampText, NEW local \in Int,
         Comparable(text.zone, text2.zone)
  PROVE  LET apart == Instant(text) - Instant(text2)
         IN /\ SameDistance(ParseTimestampz(text, local), ParseTimestampz(text2, local), apart)
            /\ ~text.zone.given =>
                 SameDistance(ParseTimestamp(text, local), ParseTimestamp(text2, local), apart)
<1> DEFINE Late(t) == IF t.zone.given /\ t.zone.sign < 0 THEN 2 * t.zone.minutes ELSE 0
<1>1. ASSUME NEW t \in TimestampText
      PROVE  /\ Instant(t) \in Int /\ Late(t) \in Int
             /\ Returns(ParseTimestampz(t, local)) =>
                  ParseTimestampz(t, local).returned = Instant(t) - local - Late(t)
  <2>1. /\ t.wall \in Int
        /\ \/ ~t.zone.given
           \/ /\ t.zone.given /\ t.zone.sign \in {-1, 1}
              /\ t.zone.hours \in Nat /\ t.zone.minutes \in Nat
    BY TextShape
  <2>2. Instant(t) \in Int /\ Late(t) \in Int
    BY <2>1 DEF Instant
  <2> QED BY <2>2, ParseOutcome, OutcomesDiffer DEF Fails
<1>2. Late(text) = Late(text2)
  BY DEF Comparable
<1> HIDE DEF Late
<1>3. SameDistance(ParseTimestampz(text, local), ParseTimestampz(text2, local),
                   Instant(text) - Instant(text2))
  <2> SUFFICES ASSUME Returns(ParseTimestampz(text, local)), Returns(ParseTimestampz(text2, local))
               PROVE  ParseTimestampz(text, local).returned - ParseTimestampz(text2, local).returned
                        = Instant(text) - Instant(text2)
    BY DEF SameDistance
  <2> QED BY <1>1, <1>2
<1>4. ASSUME ~text.zone.given
      PROVE  SameDistance(ParseTimestamp(text, local), ParseTimestamp(text2, local),
                          Instant(text) - Instant(text2))
  <2>1. /\ ParseTimestamp(text, local).returned = Instant(text) - local
        /\ ParseTimestamp(text2, local).returned = Instant(text2) - local
    BY <1>4, OutcomesDiffer DEF Comparable, ParseTimestamp, MakeTime, Instant
  <2> QED BY <1>1, <2>1 DEF SameDistance
<1> QED BY <1>3, <1>4

-----------------------------------------------------------------------------
(***************************************************************************)
(* Results and loops.                                                      *)
(***************************************************************************)
CursorsTypeOK ==
  /\ table \in [Addresses -> Seq(Row)]
  /\ \A a \in Addresses : table[a] \in Tables \cup {<<>>}
  /\ handle \in [Handles -> Addresses \cup {Null}]
  /\ cursor \in Addresses \cup {Null}
  /\ loop \in [at : {"none", "test", "body", "ended", "left"}, index : Nat, end : Nat]
  /\ visited \in Seq(Row)
  /\ intact \in BOOLEAN /\ fault \in BOOLEAN

\* The index never passes the end, and the body runs for an index before it.
IndexInv ==
  /\ loop.index <= loop.end
  /\ loop.at = "body" => loop.index < loop.end

\* While the result of the cursor lives, the loop has read what lies before
\* its index, and its end is that of the result.
VisitedInv ==
  intact =>
    /\ ~fault /\ cursor \in Live
    /\ Len(visited) <= Len(table[cursor])
    /\ \A i \in 1..Len(visited) : visited[i] = table[cursor][i]
    /\ loop.at = "none" => visited = <<>>
    /\ loop.at \in {"test", "body", "ended"} => loop.end = Len(table[cursor])
    /\ loop.at = "test" => Len(visited) = loop.index
    /\ loop.at = "body" => Len(visited) = loop.index + 1
    /\ loop.at = "ended" => Len(visited) = loop.end

CursorsInv == CursorsTypeOK /\ IndexInv /\ VisitedInv

LEMMA CursorsInvInit == CursorsInit => CursorsInv
<1>1. <<>> \in Seq(Row)
  OBVIOUS
<1>2. CursorsInit => CursorsTypeOK
  <2> SUFFICES ASSUME CursorsInit PROVE CursorsTypeOK
    OBVIOUS
  <2>1. loop \in [at : {"none", "test", "body", "ended", "left"}, index : Nat, end : Nat]
    BY DEF CursorsInit, NoLoop
  <2>2. table \in [Addresses -> Seq(Row)] /\ visited \in Seq(Row)
    BY <1>1 DEF CursorsInit
  <2> QED BY <2>1, <2>2 DEF CursorsInit, CursorsTypeOK
<1>3. CursorsInit => IndexInv /\ VisitedInv
  BY DEF CursorsInit, NoLoop, IndexInv, VisitedInv
<1> QED BY <1>2, <1>3 DEF CursorsInv

LEMMA TablesBounded ==
  ASSUME CursorsTypeOK, NEW a \in Addresses
  PROVE  Len(table[a]) \in Nat /\ Len(table[a]) <= MaxVisited
BY CursorsAssumption DEF CursorsTypeOK

\* A result that is shared, and the loop over it, survive the destruction of
\* the others.
LEMMA DestroyKeeps ==
  ASSUME CursorsInv, NEW tables \in [Addresses -> Seq(Row)], Destroy(tables),
         \A a \in Addresses : tables[a] \in Tables \cup {<<>>},
         intact => tables[cursor] = table[cursor],
         handle' \in [Handles -> Addresses \cup {Null}],
         UNCHANGED <<cursor, loop, visited, fault>>
  PROVE  CursorsInv'
<1>1. CursorsTypeOK'
  BY DEF CursorsInv, CursorsTypeOK, Destroy
<1>2. IndexInv'
  BY DEF CursorsInv, IndexInv
<1>3. VisitedInv'
  <2> SUFFICES ASSUME intact' PROVE VisitedInv'
    BY DEF VisitedInv
  <2>1. intact /\ cursor \in Live'
    BY DEF Destroy
  <2>2. cursor \in Addresses
    BY <2>1 DEF CursorsInv, VisitedInv, CursorsTypeOK, Live
  <2>3. table'[cursor] = table[cursor]
    BY <2>1, <2>2 DEF Destroy
  <2> QED BY <2>1, <2>3 DEF CursorsInv, VisitedInv
<1> QED BY <1>1, <1>2, <1>3 DEF CursorsInv

LEMMA NewResultKeeps ==
  ASSUME CursorsInv, NEW h \in Handles, NewResult(h)
  PROVE  CursorsInv'
<1>1. PICK a \in Addresses \ Live, rows \in Tables :
        /\ handle' = [handle EXCEPT ![h] = a]
        /\ Destroy([table EXCEPT ![a] = rows])
  BY DEF NewResult
<1> DEFINE tables == [table EXCEPT ![a] = rows]
<1>2. rows \in Seq(Row)
  BY QueriesAssumption
<1>3. /\ tables \in [Addresses -> Seq(Row)]
      /\ \A b \in Addresses : tables[b] \in Tables \cup {<<>>}
  BY <1>2 DEF CursorsInv, CursorsTypeOK
<1>4. intact => tables[cursor] = table[cursor]
  BY DEF CursorsInv, CursorsTypeOK, VisitedInv
<1>5. handle' \in [Handles -> Addresses \cup {Null}]
  BY <1>1 DEF CursorsInv, CursorsTypeOK
<1> HIDE DEF tables
<1> QED BY <1>1, <1>3, <1>4, <1>5, DestroyKeeps DEF NewResult, tables

LEMMA AssignResultKeeps ==
  ASSUME CursorsInv, NEW h \in Handles, NEW other \in Live \cup {Null}, AssignResult(h, other)
  PROVE  CursorsInv'
<1>1. other \in Addresses \cup {Null}
  BY DEF Live, CursorsInv, CursorsTypeOK
<1>2. handle' \in [Handles -> Addresses \cup {Null}]
  BY <1>1 DEF AssignResult, CursorsInv, CursorsTypeOK
<1> QED BY <1>2, DestroyKeeps DEF AssignResult, CursorsInv, CursorsTypeOK

LEMMA MakeCursorKeeps ==
  ASSUME CursorsInv, NEW a \in Addresses, MakeCursor(a)
  PROVE  CursorsInv'
<1>1. Len(table[a]) \in Nat
  BY DEF CursorsInv, CursorsTypeOK
<1>2. CursorsTypeOK'
  BY DEF MakeCursor, NoLoop, CursorsInv, CursorsTypeOK
<1>3. IndexInv'
  BY DEF MakeCursor, NoLoop, IndexInv
<1>4. VisitedInv'
  <2>1. /\ cursor' = a /\ visited' = <<>> /\ loop'.at = "none" /\ ~fault'
        /\ intact' = (a \in Live) /\ UNCHANGED <<table, handle>>
    BY DEF MakeCursor, NoLoop, ClientRuns, CursorsInv, CursorsTypeOK
  <2>2. /\ Len(visited') = 0 /\ Len(table'[cursor']) \in Nat
        /\ \A i \in 1..Len(visited') : FALSE
    BY <1>1, <2>1
  <2>3. Live' = Live
    BY <2>1 DEF Live
  <2>4. /\ Len(visited') <= Len(table'[cursor'])
        /\ loop'.at \notin {"test", "body", "ended"}
    BY <2>1, <2>2
  <2> QED BY <2>1, <2>2, <2>3, <2>4 DEF VisitedInv
<1> QED BY <1>2, <1>3, <1>4 DEF CursorsInv

LEMMA BeginLoopKeeps ==
  ASSUME CursorsInv, BeginLoop
  PROVE  CursorsInv'
<1>1. cursor \in Addresses /\ UNCHANGED <<table, handle, cursor, intact>>
  BY DEF BeginLoop, CursorsInv, CursorsTypeOK
<1>2. Len(table[cursor]) \in Nat
  BY <1>1 DEF CursorsInv, CursorsTypeOK
<1>3. CASE cursor \in Live
  <2>1. /\ loop' = [at |-> "test", index |-> 0, end |-> Len(table[cursor])]
        /\ visited' = <<>> /\ UNCHANGED fault
    BY <1>3 DEF BeginLoop, Use, End
  <2>2. CursorsTypeOK'
    BY <1>1, <1>2, <2>1 DEF CursorsInv, CursorsTypeOK
  <2>3. IndexInv'
    BY <1>2, <2>1 DEF IndexInv
  <2>4. VisitedInv'
    BY <1>1, <1>2, <2>1 DEF CursorsInv, VisitedInv, Live
  <2> QED BY <2>2, <2>3, <2>4 DEF CursorsInv
<1>4. CASE cursor \notin Live
  <2>1. fault' = TRUE /\ UNCHANGED <<loop, visited>> /\ ~intact
    BY <1>4 DEF BeginLoop, Use, CursorsInv, VisitedInv
  <2> QED BY <1>1, <2>1 DEF CursorsInv, CursorsTypeOK, IndexInv, VisitedInv
<1> QED BY <1>3, <1>4

LEMMA VisitKeeps ==
  ASSUME CursorsInv, Visit
  PROVE  CursorsInv'
<1>1. /\ loop.at = "test" /\ loop.index # loop.end /\ ~fault
      /\ UNCHANGED <<table, handle, cursor, intact>>
  BY DEF Visit
<1>2. loop.index \in Nat /\ loop.end \in Nat /\ loop.index < loop.end
  BY <1>1 DEF CursorsInv, CursorsTypeOK, IndexInv
<1>3. CASE cursor \notin Live
  <2>1. fault' = TRUE /\ UNCHANGED <<loop, visited>> /\ ~intact
    BY <1>3 DEF Visit, Use, CursorsInv, VisitedInv
  <2> QED BY <1>1, <2>1 DEF CursorsInv, CursorsTypeOK, IndexInv, VisitedInv
<1>4. CASE cursor \in Live /\ loop.index < Len(table[cursor])
  <2>1. /\ visited' = IF Len(visited) = MaxVisited THEN visited
                      ELSE Append(visited, table[cursor][loop.index + 1])
        /\ loop' = [loop EXCEPT !.at = "body"] /\ UNCHANGED fault
    BY <1>4 DEF Visit, Use
  <2>2. cursor \in Addresses
    BY <1>4 DEF Live, CursorsInv, CursorsTypeOK
  <2>3. table[cursor] \in Seq(Row) /\ loop.index + 1 \in 1..Len(table[cursor])
    BY <1>2, <1>4, <2>2 DEF CursorsInv, CursorsTypeOK
  <2>4. table[cursor][loop.index + 1] \in Row /\ visited \in Seq(Row)
    BY <2>3 DEF CursorsInv, CursorsTypeOK
  <2>5. /\ loop'.at = "body" /\ loop'.index = loop.index /\ loop'.end = loop.end
        /\ loop' \in [at : {"none", "test", "body", "ended", "left"}, index : Nat, end : Nat]
    BY <2>1 DEF CursorsInv, CursorsTypeOK
  <2>6. CursorsTypeOK'
    BY <1>1, <2>1, <2>4, <2>5 DEF CursorsInv, CursorsTypeOK
  <2>7. IndexInv'
    BY <1>2, <2>5 DEF IndexInv
  <2>8. VisitedInv'
    <3> SUFFICES ASSUME intact PROVE VisitedInv'
      BY <1>1 DEF VisitedInv
    <3>1. /\ Len(visited) = loop.index /\ loop.end = Len(table[cursor]) /\ ~fault
          /\ \A i \in 1..Len(visited) : visited[i] = table[cursor][i]
      BY <1>1 DEF CursorsInv, VisitedInv
    <3>2. Len(visited) # MaxVisited
      BY <1>2, <2>2, <3>1, TablesBounded, CursorsAssumption DEF CursorsInv
    <3>3. visited' = Append(visited, table[cursor][loop.index + 1])
      BY <2>1, <3>2
    <3>4. /\ Len(visited') = loop.index + 1
          /\ \A i \in 1..loop.index + 1 : visited'[i] = table[cursor][i]
      BY <1>2, <2>4, <3>1, <3>3, AppendProperties
    <3> QED BY <1>1, <1>2, <1>4, <2>1, <2>3, <2>5, <3>1, <3>4 DEF VisitedInv, Live
  <2> QED BY <2>6, <2>7, <2>8 DEF CursorsInv
<1>5. CASE cursor \in Live /\ ~(loop.index < Len(table[cursor]))
  <2>1. loop' = [loop EXCEPT !.at = "left"] /\ UNCHANGED <<visited, fault>>
    BY <1>5 DEF Visit, Use
  <2>2. ~intact
    BY <1>1, <1>2, <1>5 DEF CursorsInv, VisitedInv
  <2> QED BY <1>1, <1>2, <2>1, <2>2 DEF CursorsInv, CursorsTypeOK, IndexInv, VisitedInv
<1> QED BY <1>3, <1>4, <1>5

LEMMA LoopNextKeeps ==
  ASSUME CursorsInv, LoopNext
  PROVE  CursorsInv'
<1> USE DEF CursorsInv
<1>1. CASE EndLoop
  <2>1. /\ loop.at = "test" /\ loop.index = loop.end
        /\ loop' = [loop EXCEPT !.at = "ended"]
        /\ UNCHANGED <<table, handle, cursor, visited, intact, fault>>
    BY <1>1 DEF EndLoop
  <2> QED BY <2>1 DEF CursorsTypeOK, IndexInv, VisitedInv, Live
<1>2. CASE Advance
  <2>1. /\ loop.at = "body" /\ loop' = [loop EXCEPT !.at = "test", !.index = @ + 1]
        /\ UNCHANGED <<table, handle, cursor, visited, intact, fault>>
    BY <1>2 DEF Advance, Increment
  <2>2. /\ loop'.at = "test" /\ loop'.index = loop.index + 1 /\ loop'.end = loop.end
        /\ loop.index \in Nat /\ loop.end \in Nat /\ loop.index < loop.end
        /\ loop' = [at |-> "test", index |-> loop.index + 1, end |-> loop.end]
    BY <2>1 DEF CursorsTypeOK, IndexInv
  <2> QED BY <2>1, <2>2 DEF CursorsTypeOK, IndexInv, VisitedInv, Live
<1>3. CASE LeaveLoop
  <2>1. /\ loop.at = "body" /\ loop' = [loop EXCEPT !.at = "left"]
        /\ UNCHANGED <<table, handle, cursor, visited, intact, fault>>
    BY <1>3 DEF LeaveLoop
  <2> QED BY <2>1 DEF CursorsTypeOK, IndexInv, VisitedInv, Live
<1> QED BY <1>1, <1>2, <1>3, VisitKeeps DEF LoopNext

LEMMA CursorsStutterKeeps == CursorsInv /\ UNCHANGED cursorVars => CursorsInv'
BY DEF cursorVars, CursorsInv, CursorsTypeOK, IndexInv, VisitedInv, Live

-----------------------------------------------------------------------------
(***************************************************************************)
(* Parameters.                                                             *)
(***************************************************************************)
Variable == [type : Types, value : Values]
ParamOf ==
  [type : {DataType(type) : type \in Types}, data : Types,
   place : Variables \cup {"temporary"}, made : Values]

ParamsTypeOK ==
  /\ DOMAIN memory \subseteq Variables /\ memory \in [DOMAIN memory -> Variable]
  /\ params \in Seq(ParamOf) /\ Len(params) <= MaxParams

\* The tag of a Param is that of the type it refers to, which is still the type
\* of the variable.
TagsInv ==
  \A i \in 1..Len(params) :
    /\ params[i].type = DataType(params[i].data)
    /\ Alive(params[i].place) => memory[params[i].place].type = params[i].data

ParamsInv == ParamsTypeOK /\ TagsInv

LEMMA NoParams ==
  ASSUME params = <<>>
  PROVE  TagsInv /\ params \in Seq(ParamOf) /\ Len(params) <= MaxParams
BY ParamsAssumption DEF TagsInv

LEMMA ParamsInvInit == ParamsInit => ParamsInv
<1> SUFFICES ASSUME ParamsInit PROVE ParamsInv
  OBVIOUS
<1>1. memory = <<>> /\ params = <<>>
  BY DEF ParamsInit
<1>2. DOMAIN memory = {} /\ memory \in [DOMAIN memory -> Variable]
  BY <1>1
<1> QED BY <1>1, <1>2, NoParams DEF ParamsInv, ParamsTypeOK

\* A step that changes no Param, nor the type of a variable that is still alive.
LEMMA SameParamsKeep ==
  ASSUME ParamsInv, UNCHANGED params,
         DOMAIN memory' \subseteq Variables, memory' \in [DOMAIN memory' -> Variable],
         \A v \in DOMAIN memory' : v \in DOMAIN memory /\ memory'[v].type = memory[v].type
  PROVE  ParamsInv'
BY DEF ParamsInv, ParamsTypeOK, TagsInv, Alive

LEMMA DeclareKeeps ==
  ASSUME ParamsInv, NEW v \in Variables, NEW type \in Types, NEW x \in Values,
         Declare(v, type, x)
  PROVE  ParamsInv'
<1>1. params' = <<>>
  BY DEF Declare
<1>2. /\ DOMAIN memory' = DOMAIN memory \cup {v}
      /\ memory' \in [DOMAIN memory' -> Variable]
  BY DEF Declare, ParamsInv, ParamsTypeOK, Variable
<1>3. TagsInv' /\ params' \in Seq(ParamOf) /\ Len(params') <= MaxParams
  BY <1>1, ParamsAssumption DEF TagsInv
<1> QED BY <1>2, <1>3 DEF ParamsInv, ParamsTypeOK

LEMMA AssignKeeps ==
  ASSUME ParamsInv, NEW v \in Variables, NEW x \in Values, Assign(v, x)
  PROVE  ParamsInv'
<1>1. v \in DOMAIN memory /\ memory' = [memory EXCEPT ![v].value = x] /\ UNCHANGED params
  BY DEF Assign, Alive
<1>2. memory' \in [DOMAIN memory' -> Variable] /\ DOMAIN memory' = DOMAIN memory
  BY <1>1 DEF ParamsInv, ParamsTypeOK, Variable
<1>3. \A w \in DOMAIN memory : memory'[w].type = memory[w].type
  BY <1>1 DEF ParamsInv, ParamsTypeOK, Variable
<1> QED BY <1>1, <1>2, <1>3, SameParamsKeep DEF ParamsInv, ParamsTypeOK

LEMMA EndScopeKeeps ==
  ASSUME ParamsInv, NEW v \in Variables, EndScope(v)
  PROVE  ParamsInv'
<1>1. memory' = [w \in DOMAIN memory \ {v} |-> memory[w]] /\ UNCHANGED params
  BY DEF EndScope
<1>2. /\ DOMAIN memory' = DOMAIN memory \ {v} /\ memory' \in [DOMAIN memory' -> Variable]
      /\ \A w \in DOMAIN memory' : memory'[w] = memory[w]
  BY <1>1 DEF ParamsInv, ParamsTypeOK
<1> QED BY <1>1, <1>2, SameParamsKeep DEF ParamsInv, ParamsTypeOK

LEMMA ParamIsTagged ==
  ASSUME NEW type \in Types, NEW place \in Variables \cup {"temporary"}, NEW value \in Values
  PROVE  /\ Param(type, place, value) \in ParamOf
         /\ Param(type, place, value).type = DataType(type)
         /\ Param(type, place, value).data = type
         /\ Param(type, place, value).place = place
BY DEF Param, ParamOf

\* A Param is added, whose value is a temporary or a variable of its type.
LEMMA AppendKeeps ==
  ASSUME ParamsInv, Len(params) < MaxParams, UNCHANGED memory,
         NEW type \in Types, NEW place \in Variables \cup {"temporary"}, NEW value \in Values,
         params' = Append(params, Param(type, place, value)),
         Alive(place) => memory[place].type = type
  PROVE  ParamsInv'
<1> DEFINE p == Param(type, place, value)
<1>1. /\ p \in ParamOf /\ p.type = DataType(type) /\ p.data = type /\ p.place = place
  BY ParamIsTagged
<1>2. params \in Seq(ParamOf) /\ Len(params) \in Nat /\ MaxParams \in Nat
  BY ParamsAssumption DEF ParamsInv, ParamsTypeOK
<1> HIDE DEF p
<1>3. /\ params' \in Seq(ParamOf) /\ Len(params') = Len(params) + 1
      /\ \A i \in 1..Len(params) : params'[i] = params[i]
      /\ params'[Len(params) + 1] = p
  BY <1>1, <1>2, AppendProperties DEF p
<1>4. TagsInv'
  BY <1>1, <1>2, <1>3 DEF ParamsInv, TagsInv, Alive
<1> QED BY <1>2, <1>3, <1>4 DEF ParamsInv, ParamsTypeOK

LEMMA MakeParamKeeps ==
  ASSUME ParamsInv, NEW v \in Variables, MakeParam(v)
  PROVE  ParamsInv'
<1>1. memory[v].type \in Types /\ memory[v].value \in Values
  BY DEF MakeParam, Alive, ParamsInv, ParamsTypeOK, Variable
<1> QED BY <1>1, AppendKeeps DEF MakeParam

LEMMA MakeParamOfTemporaryKeeps ==
  ASSUME ParamsInv, NEW type \in Types, NEW x \in Values, MakeParamOfTemporary(type, x)
  PROVE  ParamsInv'
<1>1. ~Alive("temporary")
  BY ParamsAssumption DEF ParamsInv, ParamsTypeOK, Alive
<1> QED BY <1>1, AppendKeeps DEF MakeParamOfTemporary

LEMMA ParamsNextKeeps ==
  ASSUME ParamsInv, ParamsNext
  PROVE  ParamsInv'
BY DeclareKeeps, AssignKeeps, EndScopeKeeps, MakeParamKeeps, MakeParamOfTemporaryKeeps
   DEF ParamsNext

LEMMA SendKeeps ==
  ASSUME ParamsInv, Send
  PROVE  ParamsInv'
<1>1. params' = <<>> /\ UNCHANGED memory
  BY DEF Send
<1>2. TagsInv' /\ params' \in Seq(ParamOf) /\ Len(params') <= MaxParams
  BY <1>1, ParamsAssumption DEF TagsInv
<1> QED BY <1>1, <1>2 DEF ParamsInv, ParamsTypeOK

-----------------------------------------------------------------------------
(***************************************************************************)
(* The client.                                                             *)
(***************************************************************************)
QueriesInv == ParamsInv /\ CursorsInv

LEMMA QueriesInvInit == Init => QueriesInv
BY ParamsInvInit, CursorsInvInit DEF Init, QueriesInv

LEMMA QueriesInvNext == QueriesInv /\ [Next]_queryVars => QueriesInv'
<1> SUFFICES ASSUME QueriesInv, [Next]_queryVars PROVE QueriesInv'
  OBVIOUS
<1>1. ASSUME UNCHANGED <<memory, params>> PROVE ParamsInv'
  BY <1>1 DEF QueriesInv, ParamsInv, ParamsTypeOK, TagsInv, Alive
<1>2. ASSUME UNCHANGED cursorVars PROVE CursorsInv'
  BY <1>2, CursorsStutterKeeps DEF QueriesInv
<1>3. ASSUME NEW h \in Handles, Execute(h) PROVE QueriesInv'
  <2>1. ParamsInv'
    BY <1>3, SendKeeps DEF Execute, QueriesInv
  <2>2. CursorsInv'
    BY <1>2, <1>3, NewResultKeeps DEF Execute, QueriesInv
  <2> QED BY <2>1, <2>2 DEF QueriesInv
<1>4. ASSUME BindParams PROVE QueriesInv'
  BY <1>2, <1>4, ParamsNextKeeps DEF BindParams, QueriesInv
<1>5. ASSUME EndScopes PROVE QueriesInv'
  BY <1>2, <1>5, EndScopeKeeps DEF EndScopes, QueriesInv
<1>6. ASSUME ReadResults PROVE QueriesInv'
  <2>1. CursorsInv'
    BY <1>6, AssignResultKeeps, MakeCursorKeeps, BeginLoopKeeps, LoopNextKeeps
       DEF ReadResults, CursorsNext, QueriesInv
  <2> QED BY <1>1, <1>6, <2>1 DEF ReadResults, QueriesInv
<1>7. ASSUME UNCHANGED queryVars PROVE QueriesInv'
  BY <1>1, <1>2, <1>7 DEF queryVars, paramVars, QueriesInv
<1> QED BY <1>3, <1>4, <1>5, <1>6, <1>7 DEF Next, Halted

\* QueriesInv is inductive.
THEOREM QueriesInvariant == Spec => []QueriesInv
BY QueriesInvInit, QueriesInvNext, PTL DEF Spec

\* Variables, Params, results and the loop are type correct, and the index of a
\* loop stays within its end.
THEOREM QueriesTypeCorrect == Spec => []TypeOK
<1>1. QueriesInv => TypeOK
  <2> SUFFICES ASSUME QueriesInv PROVE TypeOK
    OBVIOUS
  <2>1. \A v \in DOMAIN memory : memory[v] \in [type : Types, value : Values]
    BY DEF QueriesInv, ParamsInv, ParamsTypeOK, Variable
  <2>2. loop.end \in Nat /\ loop.index \in 0..loop.end
    BY DEF QueriesInv, CursorsInv, CursorsTypeOK, IndexInv
  <2> QED BY <2>1, <2>2 DEF QueriesInv, ParamsInv, ParamsTypeOK, CursorsInv, CursorsTypeOK, TypeOK
<1> QED BY <1>1, QueriesInvariant, PTL

\* A loop over a result that lives reads every row of it once, in the order of
\* At, whatever the client executes meanwhile.
THEOREM LoopsVisitEveryRow == Spec => []VisitsEveryRow
<1>1. QueriesInv => VisitsEveryRow
  <2> SUFFICES ASSUME QueriesInv, intact PROVE VisitsEveryRow
    BY DEF VisitsEveryRow
  <2>1. cursor \in Addresses
    BY DEF QueriesInv, CursorsInv, CursorsTypeOK, VisitedInv, Live
  <2> DEFINE rows == table[cursor]
  <2>2. /\ rows \in Seq(Row) /\ visited \in Seq(Row)
        /\ loop.index \in Nat /\ loop.index <= loop.end
        /\ loop.at = "body" => loop.index < loop.end
    BY <2>1 DEF QueriesInv, CursorsInv, CursorsTypeOK, IndexInv
  <2>3. /\ ~fault /\ Len(visited) <= Len(rows)
        /\ \A i \in 1..Len(visited) : visited[i] = rows[i]
        /\ loop.at \in {"body", "ended"} => loop.end = Len(rows)
        /\ loop.at = "ended" => Len(visited) = loop.end
    BY DEF QueriesInv, CursorsInv, VisitedInv
  <2> HIDE DEF rows
  <2>4. \A i \in DOMAIN visited : At(rows, i - 1) = Returned(visited[i])
    BY <2>2, <2>3 DEF At
  <2>5. loop.at = "ended" => At(rows, Len(visited)) = Thrown("OutOfBoundException")
    BY <2>2, <2>3 DEF At
  <2>6. loop.at = "body" => ~Empty(rows)
    BY <2>2, <2>3 DEF Empty
  <2> QED BY <2>3, <2>4, <2>5, <2>6 DEF VisitsEveryRow, rows
<1> QED BY <1>1, QueriesInvariant, PTL

LEMMA RowsReadAreRows ==
  ASSUME QueriesInv
  PROVE  RowsRead \subseteq Row
BY DEF QueriesInv, CursorsInv, CursorsTypeOK, RowsRead

\* What GetColumn finds can be read, unless it is NULL, and nothing else, for any
\* row, index and name.
THEOREM FoundColumnsAreRead == Spec => []ColumnsFoundAreRead
<1>1. QueriesInv => ColumnsFoundAreRead
  BY RowsReadAreRows, ReadByIndex, ReadByName DEF ColumnsFoundAreRead
<1> QED BY <1>1, QueriesInvariant, PTL

\* The struct of the Mapper holds the columns in the order in which they were
\* named, for any row, names and model.
THEOREM ModelsFilledByPosition == Spec => []ModelsFillByPosition
<1>1. QueriesInv => ModelsFillByPosition
  BY RowsReadAreRows, ModelFills DEF ModelsFillByPosition
<1> QED BY <1>1, QueriesInvariant, PTL

\* Times of one side of Greenwich whose offsets have the same minutes are as far
\* apart, when they are read, as Postgres means, whatever the time zone of the
\* machine.
THEOREM TimesStayApart == Spec => []TimesKeepTheirDistance
<1>1. QueriesInv => TimesKeepTheirDistance
  <2> SUFFICES ASSUME QueriesInv, NEW row \in RowsRead, NEW other \in RowsRead,
                      NEW local \in LocalOffsets, NEW i \in DOMAIN row, NEW j \in DOMAIN other,
                      row[i].value.kind = "timestamp", other[j].value.kind = "timestamp",
                      Comparable(row[i].value.zone, other[j].value.zone)
               PROVE  LET text == row[i].value
                          apart == Instant(text) - Instant(other[j].value)
                      IN /\ SameDistance(AsDateTimeOffset(row, i - 1, local),
                                         AsDateTimeOffset(other, j - 1, local), apart)
                         /\ ~text.zone.given =>
                              SameDistance(AsDateTime(row, i - 1, local),
                                           AsDateTime(other, j - 1, local), apart)
    BY DEF TimesKeepTheirDistance
  <2>1. row \in Row /\ other \in Row /\ local \in Int
    BY RowsReadAreRows, QueriesAssumption
  <2> QED BY <2>1, TimeIsRead, ParsedApart
<1> QED BY <1>1, QueriesInvariant, PTL

\* TranslateParams finds each type under the tag of its constructor; only that
\* of a timestamp without time zone is missing.
LEMMA TagsFindTypes ==
  ASSUME NEW type \in Types
  PROVE  IF DataType(type) = "Timestamp" THEN DataType(type) \notin DOMAIN AsType
         ELSE DataType(type) \in DOMAIN AsType /\ AsType[DataType(type)] = type
<1>1. type \in {"int16_t", "int32_t", "int64_t", "double", "float", "string", "bool",
                "time_point", "NvDateTime"}
  BY ParamsAssumption
<1>2. CASE type \in {"int16_t", "int32_t", "int64_t", "double"}
  BY <1>2 DEF DataType, AsType
<1>3. CASE type \in {"float", "string", "bool", "time_point", "NvDateTime"}
  BY <1>3 DEF DataType, AsType
<1> QED BY <1>1, <1>2, <1>3

\* What Send gives when every Param refers to a variable that is alive.
LEMMA SentValues ==
  ASSUME ParamsInv, Send, \A i \in DOMAIN params : Alive(params[i].place)
  PROVE  IF \E i \in DOMAIN params : params[i].type = "Timestamp"
         THEN sent' = Thrown("invalid_argument")
         ELSE sent' = Returned([i \in DOMAIN params |-> memory[params[i].place].value])
<1>1. \A i \in DOMAIN params :
        /\ params[i].data \in Types /\ params[i].type = DataType(params[i].data)
        /\ ParamAs(params[i]) = {memory[params[i].place].value}
  <2>1. params \in Seq(ParamOf) /\ DOMAIN params = 1..Len(params)
    BY DEF ParamsInv, ParamsTypeOK
  <2>2. \A i \in DOMAIN params : params[i] \in ParamOf
    BY <2>1
  <2> QED BY <2>1, <2>2 DEF ParamsInv, TagsInv, ParamOf, ParamAs
<1>2. CASE \E i \in DOMAIN params : params[i].type = "Timestamp"
  <2>1. \E i \in DOMAIN params : Unsupported(params[i])
    BY <1>1, <1>2, TagsFindTypes DEF Unsupported
  <2> QED BY <1>2, <2>1 DEF Send, TranslateParams
<1>3. CASE ~\E i \in DOMAIN params : params[i].type = "Timestamp"
  <2>1. \A i \in DOMAIN params : ~Unsupported(params[i]) /\ ~Mismatched(params[i])
    BY <1>1, <1>3, TagsFindTypes DEF Unsupported, Mismatched
  <2>2. sent' \in Sent(params)
    BY <2>1 DEF Send, TranslateParams
  <2>3. PICK s \in [DOMAIN params -> Values \cup {"garbage"}] :
          sent' = Returned(s) /\ \A i \in DOMAIN params : s[i] \in ParamAs(params[i])
    BY <2>2 DEF Sent
  <2>4. s = [i \in DOMAIN params |-> memory[params[i].place].value]
    BY <1>1, <2>3
  <2> QED BY <1>3, <2>3, <2>4
<1> QED BY <1>2, <1>3

\* Execute sends one value for each parameter, in their order, as the variables
\* have them now, or nothing when one of them is a timestamp.
THEOREM ParamsSentInOrder == Spec => SentInOrder
<1> DEFINE A == params # <<>> /\ params' = <<>>
                  /\ (\A i \in DOMAIN params : Alive(params[i].place)) =>
                  IF \E i \in DOMAIN params : params[i].type = "Timestamp"
                  THEN sent' = Thrown("invalid_argument")
                  ELSE sent' = Returned([i \in DOMAIN params |-> memory[params[i].place].value])
<1>1. QueriesInv /\ [Next]_queryVars => A \/ UNCHANGED paramVars
  <2> SUFFICES ASSUME QueriesInv, Next, params # <<>>, params' = <<>>,
                      \A i \in DOMAIN params : Alive(params[i].place)
               PROVE  A
    BY DEF queryVars
  <2>1. CASE Send
    BY <2>1, SentValues DEF QueriesInv
  <2>2. params \in Seq(ParamOf)
    BY DEF QueriesInv, ParamsInv, ParamsTypeOK
  <2>3. ASSUME ParamsNext PROVE FALSE
    <3>1. \A p : Append(params, p) # <<>>
      BY <2>2
    <3> QED BY <2>3, <3>1 DEF ParamsNext, EndScope, MakeParam, Assign,
               MakeParamOfTemporary, Declare
  <2>4. Send
    BY <2>3 DEF Next, Execute, BindParams, EndScopes, EndScope, ReadResults, Reading, Halted,
       queryVars, paramVars
  <2> QED BY <2>1, <2>4
<1> QED BY <1>1, QueriesInvariant, PTL DEF Spec, SentInOrder
=============================================================================
