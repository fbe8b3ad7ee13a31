--------------------------- MODULE PgTransactions ---------------------------
(***************************************************************************)
(* PgTransaction objects (pg_transaction.cc, Begin in pg_server.cc) and    *)
(* the prepared statements of their connections, on top of a pool that is  *)
(* seen as ConnectionLeases.                                               *)
(*                                                                         *)
(* Each client owns at most one transaction.  The destructor takes two     *)
(* steps: its body returns the connection to the pool, and only then are   *)
(* the members destroyed, among them the pqxx transaction, which rolls     *)
(* back.  pqxx allows one transaction at a time on a connection and        *)
(* Postgres refuses every statement of a failed transaction.               *)
(***************************************************************************)
EXTENDS ConnectionLeases, Naturals

CONSTANTS
  NoClient,  \* no transaction is registered on a connection
  Modes,     \* the TransactionModes the clients ask for
  Queries,   \* query texts; an empty one throws before anything happens
  hash_fn,   \* of the texts, not always distinct
  Writes,    \* the queries that change data
  Invalid,   \* the queries that Postgres cannot prepare
  Breaks     \* a connection may break at any time

TransactionMode == {"Unknown", "ReadWrite", "ReadCommitted", "ReadOnly", "NonTransaction"}

ASSUME TransactionsAssumption ==
  /\ Modes \subseteq TransactionMode
  /\ NoClient \notin Clients
  /\ Writes \subseteq Queries /\ Invalid \subseteq Queries
  /\ hash_fn \in [Queries -> Nat]
  /\ Breaks \in BOOLEAN

VARIABLES
  phase,       \* of each client's PgTransaction
  mode,        \* mode_
  connection,  \* connection_
  registered,  \* the transaction that pqxx has registered on each connection
  server,      \* the transaction state of each connection in Postgres
  pending,     \* whose uncommitted writes that state contains
  statements,  \* statements_ of each connection's PreparedStatementManager
  prepared,    \* the statements prepared in Postgres under their keys
  closed       \* connections that broke or were closed

txVars  == <<phase, mode, connection>>
pgVars  == <<registered, server, pending>>
stmtVars == <<statements, prepared>>
vars == <<leaseVars, txVars, pgVars, stmtVars, closed>>

Init ==
  /\ LeasesInit
  /\ phase = [t \in Clients |-> "none"]
  /\ mode = [t \in Clients |-> "Unknown"]
  /\ connection = [t \in Clients |-> NoConn]
  /\ registered = [c \in Conns |-> NoClient]
  /\ server = [c \in Conns |-> "idle"]
  /\ pending = [c \in Conns |-> {}]
  /\ statements = [c \in Conns |-> {}]
  /\ prepared = [c \in Conns |-> {}]
  /\ closed = {}

(***************************************************************************)
(* The pool.                                                               *)
(***************************************************************************)
PoolOpens(c) == Offer(c) /\ UNCHANGED <<txVars, pgVars, stmtVars, closed>>

\* A session that ends is rolled back by Postgres, which forgets its prepared
\* statements.  The manager keeps them recorded, and pqxx its transaction.
SessionsEnd(ended) ==
  LET Ended(f, nothing) == [c \in Conns |-> IF c \in ended THEN nothing ELSE f[c]] IN
  /\ closed' = closed \cup ended
  /\ server' = Ended(server, "idle")
  /\ pending' = Ended(pending, {})
  /\ prepared' = Ended(prepared, {})
  /\ UNCHANGED <<registered, statements>>

\* Stop forgets all connections and closes them, the leased ones too.
PoolStops ==
  /\ free' = {} /\ lent' = {}
  /\ SessionsEnd(offered)
  /\ UNCHANGED <<offered, held, txVars>>

ConnectionBreaks(c) ==
  /\ Breaks
  /\ c \in offered \ closed
  /\ SessionsEnd({c})
  /\ UNCHANGED <<leaseVars, txVars>>

(***************************************************************************)
(* The constructor: GetConnectionFromPool, then CreateTransaction.  When   *)
(* the pool has nothing the first throws and nothing changes.              *)
(***************************************************************************)
Begin(t, m) ==
  /\ phase[t] = "none"
  /\ \E c \in free :
       /\ Take(t, c)
       /\ connection' = [connection EXCEPT ![t] = c]
  /\ mode' = [mode EXCEPT ![t] = m]
  /\ phase' = [phase EXCEPT ![t] = "leased"]
  /\ UNCHANGED <<pgVars, stmtVars, closed>>

\* Mutant: ReadCommitted is taken for a transaction that can write.
InnerReadCommittedWrites(m) ==
  CASE m \in {"ReadWrite", "ReadCommitted"} -> "work"
    [] m = "ReadOnly" -> "read"
    [] m = "NonTransaction" -> "nontransaction"
    [] OTHER -> "unsupported"

Inner(m) ==
  CASE m = "ReadWrite" -> "work"
    [] m \in {"ReadOnly", "ReadCommitted"} -> "read"
    [] m = "NonTransaction" -> "nontransaction"
    [] OTHER -> "unsupported"

\* The constructors of pqxx: all but that of a nontransaction send BEGIN.
CanCreate(t) ==
  /\ Inner(mode[t]) # "unsupported"
  /\ connection[t] \notin closed \/ Inner(mode[t]) = "nontransaction"
  /\ registered[connection[t]] = NoClient

CreateTransaction(t) ==
  LET c == connection[t] IN
  /\ phase[t] = "leased"
  /\ CanCreate(t)
  /\ registered' = [registered EXCEPT ![c] = t]
  /\ server' = IF Inner(mode[t]) = "nontransaction" THEN server
                                    ELSE [server EXCEPT ![c] = "begun"]
  /\ phase' = [phase EXCEPT ![t] = "active"]
  /\ UNCHANGED <<leaseVars, mode, connection, pending, stmtVars, closed>>

\* The constructor throws, so ~PgTransaction does not run: connection_ is
\* destroyed and the pool is not told.
CreateTransactionThrows(t) ==
  /\ phase[t] = "leased"
  /\ ~CanCreate(t)
  /\ held' = [held EXCEPT ![t] = NoConn]
  /\ connection' = [connection EXCEPT ![t] = NoConn]
  /\ phase' = [phase EXCEPT ![t] = "none"]
  /\ UNCHANGED <<offered, free, lent, mode, pgVars, stmtVars, closed>>

(***************************************************************************)
(* Execute and ExecuteNonPrepared.                                         *)
(***************************************************************************)
\* An error in an open transaction makes Postgres refuse the rest of it.
Failed(c) ==
  server' = [server EXCEPT ![c] = IF @ = "begun" THEN "failed" ELSE @]

Reachable(c) == c \notin closed /\ server[c] # "failed"

\* transact_->Execute and ExecuteNonPrepared, when "known" says that Postgres
\* can run the statement.  Any statement may fail, in Postgres or, in
\* TranslateParams, before it gets there.
Run(t, q, known) ==
  LET c == connection[t] IN
  \/ /\ phase[t] = "active"
     /\ Reachable(c) /\ known
     /\ q \in Writes => Inner(mode[t]) # "read"
     /\ pending' = IF q \in Writes /\ Inner(mode[t]) = "work"
                   THEN [pending EXCEPT ![c] = @ \cup {t}] ELSE pending
     /\ UNCHANGED server
  \/ phase[t] = "active" /\ Failed(c) /\ UNCHANGED pending
  \/ UNCHANGED <<server, pending>>  \* also when the transaction has ended

GenerateKey(hash) == <<"nvql_", hash>>

PreparedStatementItem(q) == [key |-> GenerateKey(hash_fn[q]), query |-> q]

\* Those of the statements that have the key of q.
Keyed(items, q) == {item \in items : item.key = GenerateKey(hash_fn[q])}

\* Mutant: a statement is looked up by its text.
IsQueryExist(c, q) == \E item \in statements[c] : item.query = q

IsKeyExist(c, q) == Keyed(statements[c], q) # {}

\* PrepareStatement records the key, and only then is the statement prepared.
Prepare(c, q) ==
  /\ ~IsKeyExist(c, q)
  /\ statements' = [statements EXCEPT ![c] = @ \cup {PreparedStatementItem(q)}]

Execute(t, q) ==
  LET c == connection[t] IN
  /\ phase[t] \in {"active", "ended"}
  /\ \/ /\ IsKeyExist(c, q)
        /\ IF Keyed(prepared[c], q) = {} THEN Run(t, q, FALSE)
           ELSE \E item \in Keyed(prepared[c], q) : Run(t, item.query, TRUE)
        /\ UNCHANGED stmtVars
     \/ /\ Prepare(c, q)
        /\ Reachable(c) /\ q \notin Invalid
        /\ prepared' = [prepared EXCEPT ![c] = @ \cup {PreparedStatementItem(q)}]
        /\ Run(t, q, TRUE)
     \/ /\ Prepare(c, q)
        /\ ~Reachable(c) \/ q \in Invalid
        /\ Failed(c)
        /\ UNCHANGED <<prepared, pending>>
  /\ UNCHANGED <<leaseVars, txVars, registered, closed>>

ExecuteNonPrepared(t, q) ==
  /\ phase[t] \in {"active", "ended"}
  /\ Run(t, q, q \notin Invalid)
  /\ UNCHANGED <<leaseVars, txVars, registered, stmtVars, closed>>

(***************************************************************************)
(* Commit and Rollback.  A COMMIT that fails, or comes after a failed      *)
(* statement, rolls back; pqxx may then keep the transaction registered.   *)
(***************************************************************************)
EndsOn(t, c) ==
  /\ server' = [server EXCEPT ![c] = "idle"]
  /\ pending' = [pending EXCEPT ![c] = @ \ {t}]
  /\ phase' = [phase EXCEPT ![t] = "ended"]

Commit(t) ==
  LET c == connection[t] IN
  /\ phase[t] = "active"
  /\ Inner(mode[t]) # "nontransaction"
  /\ EndsOn(t, c)
  /\ \/ registered' = [registered EXCEPT ![c] = NoClient]
     \/ UNCHANGED registered  \* Commit throws
  /\ UNCHANGED <<leaseVars, mode, connection, stmtVars, closed>>

\* Mutant: Rollback returns the connection, which the destructor does again.
RollbackReturns(t) ==
  LET c == connection[t] IN
  /\ phase[t] = "active"
  /\ Inner(mode[t]) # "nontransaction"
  /\ EndsOn(t, c)
  /\ registered' = [registered EXCEPT ![c] = NoClient]
  /\ GiveBack(t)
  /\ UNCHANGED <<mode, connection, stmtVars, closed>>

Rollback(t) ==
  LET c == connection[t] IN
  /\ phase[t] = "active"
  /\ Inner(mode[t]) # "nontransaction"
  /\ EndsOn(t, c)
  /\ registered' = [registered EXCEPT ![c] = NoClient]
  /\ UNCHANGED <<leaseVars, mode, connection, stmtVars, closed>>

(***************************************************************************)
(* The destructor.                                                         *)
(***************************************************************************)
ReturnConnectionToThePool(t) ==
  /\ phase[t] \in {"active", "ended"}
  /\ GiveBack(t)
  /\ phase' = [phase EXCEPT ![t] = "returned"]
  /\ UNCHANGED <<mode, connection, pgVars, stmtVars, closed>>

\* Mutant: the transaction is forgotten without a ROLLBACK.
AbortForgets(t, c) ==
  /\ registered' = [registered EXCEPT ![c] = NoClient]
  /\ UNCHANGED <<server, pending>>

\* Mutant: a ROLLBACK is sent even if the transaction has ended.
AbortAlways(t, c) ==
  /\ registered' = [registered EXCEPT ![c] = NoClient]
  /\ server' = [server EXCEPT ![c] = "idle"]
  /\ pending' = [pending EXCEPT ![c] = {}]

\* ~transaction_base of pqxx.
Abort(t, c) ==
  IF registered[c] = t
  THEN /\ registered' = [registered EXCEPT ![c] = NoClient]
       /\ server' = [server EXCEPT ![c] = "idle"]
       /\ pending' = [pending EXCEPT ![c] = @ \ {t}]
  ELSE UNCHANGED pgVars

\* transact_ is destroyed, then connection_.
DestroyMembers(t) ==
  /\ phase[t] = "returned"
  /\ Abort(t, connection[t])
  /\ connection' = [connection EXCEPT ![t] = NoConn]
  /\ phase' = [phase EXCEPT ![t] = "none"]
  /\ UNCHANGED <<leaseVars, mode, stmtVars, closed>>

-----------------------------------------------------------------------------
ClientNext(t) ==
  \/ \E m \in Modes : Begin(t, m)
  \/ CreateTransaction(t) \/ CreateTransactionThrows(t)
  \/ \E q \in Queries : Execute(t, q) \/ ExecuteNonPrepared(t, q)
  \/ Commit(t) \/ Rollback(t)
  \/ ReturnConnectionToThePool(t) \/ DestroyMembers(t)

Next ==
  \/ \E c \in Conns : PoolOpens(c) \/ ConnectionBreaks(c)
  \/ PoolStops
  \/ \E t \in Clients : ClientNext(t)

Spec == Init /\ [][Next]_vars

-----------------------------------------------------------------------------
(***************************************************************************)
(* Properties.                                                             *)
(***************************************************************************)
InUse(t) == phase[t] \in {"leased", "active", "ended"}

TypeOK ==
  /\ offered \subseteq Conns /\ free \subseteq Conns /\ lent \subseteq Conns
  /\ held \in [Clients -> Conns \cup {NoConn}]
  /\ phase \in [Clients -> {"none", "leased", "active", "ended", "returned"}]
  /\ mode \in [Clients -> Modes \cup {"Unknown"}]
  /\ connection \in [Clients -> Conns \cup {NoConn}]
  /\ registered \in [Conns -> Clients \cup {NoClient}]
  /\ server \in [Conns -> {"idle", "begun", "failed"}]
  /\ pending \in [Conns -> SUBSET Clients]
  /\ \A stmts \in {statements, prepared} :
       stmts \in [Conns -> SUBSET {PreparedStatementItem(q) : q \in Queries}]
  /\ closed \subseteq Conns
  /\ \A t \in Clients : held[t] = IF InUse(t) THEN connection[t] ELSE NoConn

\* Two transactions that can still execute statements never share a
\* connection, although each destructor uses its own after it is returned.
ConnectionsNotShared ==
  \A t, u \in Clients :
    InUse(t) /\ InUse(u) /\ connection[t] = connection[u] => t = u

\* Uncommitted writes on a connection are those of the transaction that pqxx
\* has there, which is a ReadWrite one: no COMMIT makes somebody else's writes
\* durable, and the read modes of CreateTransaction leave none behind.
PendingWritesOwned ==
  \A c \in Conns : \A t \in pending[c] :
    registered[c] = t /\ connection[t] = c /\ mode[t] = "ReadWrite"

\* A connection that can be leased has no open transaction, except the one
\* that a destructor still running is about to roll back.
FreeConnectionIsClean ==
  \A c \in free :
    LET t == registered[c] IN
    IF t = NoClient THEN server[c] = "idle"
                    ELSE phase[t] = "returned" /\ connection[t] = c

\* The writes of a transaction end in a step of its own, or are rolled back
\* because its session is closed under it; the destructor of an earlier user of
\* the connection, which runs on after another has leased it, never ends them.
EndedOnlyByOwner ==
  [][\A c \in Conns : \A t \in pending[c] \ pending'[c] :
       phase'[t] # phase[t] \/ c \in closed' \ closed]_vars

\* PREPARE is never sent with a name that the session has, which Postgres would
\* refuse: not for a query of the same hash, not after a preparation that
\* failed or a rollback, and not by the next client of the connection.
PreparedOnce ==
  [][\A c \in Conns : \A item \in prepared'[c] \ prepared[c] :
       Keyed(prepared[c], item.query) = {}]_vars

-----------------------------------------------------------------------------
(***************************************************************************)
(* What the README says and the code does not do.                          *)
(***************************************************************************)
\* README.md, "NvQL manages the acquiring, returning connections to the pool":
\* each connection that the pool counts as leased belongs to a transaction.
NothingStranded == lent \subseteq {held[t] : t \in Clients}

\* README.md, "NvQL manages the prepared statement routines & boilerplate": a
\* statement that is recorded as prepared is prepared, so that it can run.
RecordedIsPrepared ==
  \A c \in offered \ closed : statements[c] \subseteq prepared[c]
=============================================================================
