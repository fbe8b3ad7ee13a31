---------------------------- MODULE ResultCursors ----------------------------
(***************************************************************************)
(* The results of queries and the loops over them (pg_execution_result.cc, *)
(* pg_row_result_iterator.cc, Cursor).  Client variables share a result by *)
(* ExecutionResultPtr; a Cursor and its iterators only keep a reference,   *)
(* an address, where another result may lie later.  A row that was read    *)
(* shares the data of pqxx and outlives the result: "visited" keeps it.    *)
(***************************************************************************)
EXTENDS Integers, Sequences, Outcomes

CONSTANTS
  Handles,    \* variables of type ExecutionResultPtr
  Addresses,  \* where a PgExecutionResult may lie
  Null,
  Tables,     \* the results of queries, as sequences of rows
  MaxVisited  \* bound: the rows of a loop that are kept

ASSUME CursorsAssumption ==
  /\ Null \notin Addresses
  /\ MaxVisited \in Nat /\ \A rows \in Tables : Len(rows) <= MaxVisited

VARIABLES
  table,    \* the rows of the result at each address
  handle,   \* the address in each ExecutionResultPtr
  cursor,   \* the address in the Cursor
  loop,     \* the loop over the Cursor
  visited,  \* the rows it has read
  intact,   \* the result that the Cursor was made of still lives
  fault     \* a destroyed result was used

cursorVars == <<table, handle, cursor, loop, visited, intact, fault>>

Live == {handle[h] : h \in Handles} \ {Null}

NoLoop == [at |-> "none", index |-> 0, end |-> 0]

CursorsInit ==
  /\ table = [a \in Addresses |-> <<>>]
  /\ handle = [h \in Handles |-> Null]
  /\ cursor = Null
  /\ loop = NoLoop /\ visited = <<>> /\ intact = FALSE /\ fault = FALSE

\* The client's own statements run outside of the loop and in its body.
ClientRuns == ~fault /\ loop.at # "test"

\* The results that no ExecutionResultPtr shares any more are destroyed.
Destroy(tables) ==
  /\ table' = [a \in Addresses |-> IF a \in Live' THEN tables[a] ELSE <<>>]
  /\ intact' = (intact /\ cursor \in Live')

\* "result = tx->Execute(...)": the earlier result goes after the new one came.
NewResult(h) ==
  /\ ClientRuns
  /\ \E a \in Addresses \ Live, rows \in Tables :
       /\ handle' = [handle EXCEPT ![h] = a]
       /\ Destroy([table EXCEPT ![a] = rows])
  /\ UNCHANGED <<cursor, loop, visited, fault>>

\* "result = other", or the end of its scope.
AssignResult(h, other) ==
  /\ ClientRuns
  /\ handle' = [handle EXCEPT ![h] = other]
  /\ Destroy(table)
  /\ UNCHANGED <<cursor, loop, visited, fault>>

Empty(rows) == rows = <<>>

\* PgExecutionResult::At
At(rows, offset) == IF offset \in 0..Len(rows) - 1 THEN Returned(rows[offset + 1])
                                                   ELSE Thrown("OutOfBoundException")

(***************************************************************************)
(* The Cursor, and the loop "for (const auto row : cursor) { ... }".       *)
(***************************************************************************)
\* Nothing keeps the cursor from being made of the result of a temporary.
MakeCursor(a) ==
  /\ ClientRuns /\ loop.at # "body"
  /\ cursor' = a /\ intact' = (a \in Live)
  /\ loop' = NoLoop /\ visited' = <<>>
  /\ UNCHANGED <<table, handle, fault>>

\* Mutant: the end is the last row.
EndIsLast(rows) == IF rows = <<>> THEN 0 ELSE Len(rows) - 1

End(rows) == Len(rows)

\* The reference is used: undefined when nothing lives there.
Use(effect) ==
  IF cursor \in Live THEN effect /\ UNCHANGED fault
                     ELSE fault' = TRUE /\ UNCHANGED <<loop, visited>>

BeginLoop ==
  /\ ClientRuns /\ cursor # Null /\ loop.at # "body"
  /\ Use(/\ loop' = [at |-> "test", index |-> 0, end |-> End(table[cursor])]
         /\ visited' = <<>>)
  /\ UNCHANGED <<table, handle, cursor, intact>>

\* operator!= compares the addresses of the results and the indices.
Visit ==
  /\ ~fault /\ loop.at = "test" /\ loop.index # loop.end
  /\ Use(IF loop.index < Len(table[cursor])
         THEN /\ visited' = IF Len(visited) = MaxVisited THEN visited
                            ELSE Append(visited, table[cursor][loop.index + 1])
              /\ loop' = [loop EXCEPT !.at = "body"]
         ELSE /\ loop' = [loop EXCEPT !.at = "left"]  \* result::at throws
              /\ UNCHANGED visited)
  /\ UNCHANGED <<table, handle, cursor, intact>>

EndLoop ==
  /\ ~fault /\ loop.at = "test" /\ loop.index = loop.end
  /\ loop' = [loop EXCEPT !.at = "ended"]
  /\ UNCHANGED <<table, handle, cursor, visited, intact, fault>>

\* Mutants: operator++ skips a row; it changes a copy of the iterator.
IncrementSkips(index) == index + 2
IncrementCopy(index) == index

Increment(index) == index + 1

Advance ==
  /\ ~fault /\ loop.at = "body"
  /\ loop' = [loop EXCEPT !.at = "test", !.index = Increment(@)]
  /\ UNCHANGED <<table, handle, cursor, visited, intact, fault>>

\* "break", "return", or the body throws.
LeaveLoop ==
  /\ ~fault /\ loop.at = "body"
  /\ loop' = [loop EXCEPT !.at = "left"]
  /\ UNCHANGED <<table, handle, cursor, visited, intact, fault>>

LoopNext == Visit \/ EndLoop \/ Advance \/ LeaveLoop

CursorsNext ==
  \/ \E h \in Handles, other \in Live \cup {Null} : AssignResult(h, other)
  \/ \E a \in Addresses : MakeCursor(a)
  \/ BeginLoop \/ LoopNext

-----------------------------------------------------------------------------
\* A client that keeps some ExecutionResultPtr to its result through the loop,
\* whatever it executes in the body, reads every row once, in the order of At,
\* and never uses a destroyed result.
VisitsEveryRow ==
  intact =>
    /\ ~fault
    /\ \A i \in DOMAIN visited : At(table[cursor], i - 1) = Returned(visited[i])
    /\ loop.at = "ended" => At(table[cursor], Len(visited)) = Thrown("OutOfBoundException")
    /\ loop.at = "body" => ~Empty(table[cursor])

\* Every loop ends, even one that goes on over another result that came to lie
\* where the result of the cursor was, unless it meets a destroyed one.
LoopEnds == loop.at \in {"test", "body"} ~> loop.at \in {"ended", "left"} \/ fault
=============================================================================
