------------------------------- MODULE Queries -------------------------------
(***************************************************************************)
(* A client that binds parameters, executes statements, keeps their        *)
(* results, loops over them and reads the rows: Params, ResultCursors and  *)
(* RowValues together.  What Execute does on the connection is in          *)
(* PgTransactions.                                                         *)
(***************************************************************************)
EXTENDS Params, ResultCursors, RowValues

CONSTANTS
  Names,        \* names to look columns up by
  Members,      \* the members of the client's struct, in their order
  MemberTypes,
  LocalOffsets  \* offsets of the machine's time zone

ASSUME QueriesAssumption ==
  /\ Tables \subseteq Seq(Row)
  /\ MemberTypes \in Seq(DOMAIN Converts) /\ Len(MemberTypes) = Len(Members)
  /\ Members \in Seq(Names)
  /\ \A i, j \in DOMAIN Members : Members[i] = Members[j] => i = j
  /\ LocalOffsets \subseteq Int

queryVars == <<paramVars, cursorVars>>

Init == ParamsInit /\ CursorsInit

\* Bounds: variables and Params are made only while there is neither a result
\* nor a Cursor, and results are used only when there is no variable.
Binding == Live = {} /\ cursor = Null
Reading == memory = <<>> /\ params = <<>>

\* Transaction::Execute; when TranslateParams throws, "result = ..." does not
\* happen.
Execute(h) ==
  /\ Binding \/ Reading
  /\ Send
  /\ IF Returns(sent') THEN NewResult(h) ELSE ClientRuns /\ UNCHANGED cursorVars

BindParams == ClientRuns /\ Binding /\ ParamsNext /\ UNCHANGED cursorVars

EndScopes == ClientRuns /\ (\E v \in Variables : EndScope(v)) /\ UNCHANGED cursorVars

ReadResults == Reading /\ CursorsNext /\ sent' = Nothing /\ UNCHANGED <<memory, params>>

Halted == fault /\ UNCHANGED queryVars

Next ==
  \/ \E h \in Handles : Execute(h)
  \/ BindParams \/ EndScopes \/ ReadResults \/ Halted

Spec == Init /\ [][Next]_queryVars

\* The loop of the client goes on, whatever its body does.
FairSpec == Spec /\ WF_queryVars(ReadResults /\ LoopNext)

-----------------------------------------------------------------------------
TypeOK ==
  /\ \A v \in DOMAIN memory : memory[v] \in [type : Types, value : Values]
  /\ Len(params) <= MaxParams
  /\ handle \in [Handles -> Addresses \cup {Null}]
  /\ cursor \in Addresses \cup {Null}
  /\ \A a \in Addresses : table[a] \in Tables \cup {<<>>}
  /\ loop.at \in {"none", "test", "body", "ended", "left"}
  /\ loop.end \in Nat /\ loop.index \in 0..loop.end
  /\ intact \in BOOLEAN /\ fault \in BOOLEAN

RowsRead == {visited[k] : k \in DOMAIN visited}

FirstNamed(row, name, i) ==
  row[i].name = name /\ \A j \in 1..(i - 1) : row[j].name # name

\* What GetColumn finds, by its own test of the index, is what As can read by that
\* of pqxx, but for NULL; and a name finds a column, for GetColumn as for As,
\* exactly if a column has it, the first one if several have.
ColumnsFoundAreRead ==
  \A row \in RowsRead :
    LET nulls == {i \in DOMAIN row : row[i].value = SqlNull}
    IN /\ \A index \in -1..Len(row) :
            Returns(As("string", row, index)) <=>
              Returns(GetColumn(row, index)) /\ index + 1 \notin nulls
       /\ \A name \in Names :
            LET first == {i \in DOMAIN row : FirstNamed(row, name, i)}
            IN /\ GetColumnNamed(row, name) = Returned(IF first = {} THEN "nullopt" ELSE Column)
               /\ Returns(AsNamed("string", row, name)) <=> first \ nulls # {}

\* README.md, "User: {user_id, username, status}": whatever columns a client names,
\* in whatever order, twice or although the row has two or none of that name, the
\* struct that Map builds from the tuple of Dynamic holds in its i-th member the
\* first column of the i-th name; Dynamic throws only when one of them is missing
\* or is no value of its type.
ModelFillsByPosition(row, names) ==
  LET tuple == Dynamic(MemberTypes, row, names)
      Fits(n, i) == /\ FirstNamed(row, names[n], i)
                    /\ row[i].value.kind \in Converts[MemberTypes[n]]
  IN IF Returns(tuple)
     THEN \A n \in DOMAIN Members : \E i \in DOMAIN row :
            Fits(n, i) /\ Map(Members, tuple.returned)[Members[n]] = row[i].value
     ELSE \E n \in DOMAIN Members : ~\E i \in DOMAIN row : Fits(n, i)

ModelsFillByPosition ==
  \A row \in RowsRead, names \in [DOMAIN Members -> Names] : ModelFillsByPosition(row, names)

\* Two times that are read are as far apart as Postgres means them to be, when
\* both have no offset, or offsets that differ by whole hours on one side of
\* Greenwich, as those of one session's time zone do in summer and winter.
Comparable(zone, other) ==
  IF zone.given /\ other.given
  THEN zone.sign = other.sign /\ zone.minutes = other.minutes
  ELSE ~zone.given /\ ~other.given

SameDistance(one, other, apart) ==
  Returns(one) /\ Returns(other) => one.returned - other.returned = apart

TimesKeepTheirDistance ==
  \A row \in RowsRead, other \in RowsRead, local \in LocalOffsets :
    \A i \in DOMAIN row, j \in DOMAIN other :
      LET text == row[i].value
          text2 == other[j].value
          apart == Instant(text) - Instant(text2)
      IN (text.kind = "timestamp" /\ text2.kind = "timestamp"
            /\ Comparable(text.zone, text2.zone)) =>
           /\ SameDistance(AsDateTimeOffset(row, i - 1, local),
                           AsDateTimeOffset(other, j - 1, local), apart)
           /\ ~text.zone.given =>
                SameDistance(AsDateTime(row, i - 1, local), AsDateTime(other, j - 1, local), apart)
=============================================================================
