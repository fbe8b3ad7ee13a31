------------------------------ MODULE MCQueries ------------------------------
(* Instances of Queries: four results, one of them the times of many zones. *)
EXTENDS Queries

Of(kind) == [kind |-> kind]
Text(wall, zone, fraction) ==
  [kind |-> "timestamp", wall |-> wall, zone |-> zone, fraction |-> fraction]

User(id, name, status) ==
  <<Field("user_id", id), Field("username", name), Field("status", status),
    Field("user_id", Of("large"))>>  \* of the table that the query joins

Zones == {NoZone, Zone(1, 0, 0)} \cup
  {Zone(sign, 5, minutes) : sign \in {-1, 1}, minutes \in {0, 30, 45}} \cup
  {Zone(sign, hours, 30) : sign \in {-1, 1}, hours \in {0, 6}}
Times == FoldSet(LAMBDA text, row : Append(row, Field("dob", text)), <<>>,
                 {Text(w, z, f) : w \in {0, 90}, z \in Zones, f \in BOOLEAN})

MCTables ==
  {<<>>,
   <<User(Of("medium"), Of("text"), Of("small"))>>,
   <<User(Of("medium"), Of("small"), Of("medium")),
     User(Of("large"), SqlNull, Of("fraction")),
     User(Of("small"), Of("fraction"), Of("small"))>>,
   <<Times>>}
MCNames == {"user_id", "username", "status", "dob"}
MCMembers == <<"user_id", "username", "status">>
MCMemberTypes == <<"int32_t", "string", "int16_t">>
MCLocalOffsets == {-210, 0, 60}

NoRows == {<<>>}
NoMembers == <<>>
=============================================================================
