------------------------------ MODULE PgServers ------------------------------
(***************************************************************************)
(* The lifetimes around a PgServer (pg_server.cc, pg_connection.cc): the   *)
(* server and its pool, which threads share by StorageServerPtr, the       *)
(* PgConnection objects, owned by the pool and by transactions, and their  *)
(* pqxx connections, to which pqxx transactions keep raw pointers.         *)
(*                                                                         *)
(* A call of the pool is one step, since it runs under the mutex, except   *)
(* that TryConnect takes one step per connection ("connecting").  A thread *)
(* keeps its StorageServerPtr while it has a transaction (pg_server.h:48   *)
(* leaves that to the caller; the scopes of main.cc see to it).  Waiting   *)
(* in Acquire, connections that break, and a Close that throws are in      *)
(* ConnectionPool and PgTransactions.                                      *)
(***************************************************************************)
EXTENDS PgConfigs

CONSTANTS
  Threads,
  Conns,      \* PgConnection objects the program may create (a bound)
  NoConn,
  Clusters,   \* the PgClusterConfigs given to MakePgServer
  Minimum,    \* pool_min_worker
  Maximum,    \* pool_max_worker
  Grants      \* the logins, each with a database, that a host accepts

ASSUME ServersAssumption ==
  /\ IsFiniteSet(Conns) /\ NoConn \notin Conns
  /\ Minimum \in Nat /\ Maximum \in Nat
  /\ Clusters \in Seq([type : StorageType, login : STRING, host : DOMAIN Grants,
                        dbname : STRING])

VARIABLES
  server,      \* the PgServer object
  refs,        \* the threads that hold a StorageServerPtr to it
  wired,       \* the pool has its primary connection callback
  is_run,      \* is_run_ of the pool
  storages,    \* the connections the pool owns
  queue,       \* those that can be leased
  acquired,    \* those it counts as leased
  connecting,  \* connections that each thread has still to open in TryConnect
  tx,          \* where each thread's PgTransaction is
  connection,  \* its connection_, which owns the object too
  registered,  \* the threads whose transaction pqxx has on its connection
  driver,      \* PgConnection::conn_ of each object
  answering,   \* the hosts that answer
  thrown,      \* what the last call of each thread threw
  runs,        \* calls of Run since the pool was empty, and how many failed
  fault        \* the undefined operation the program ran into

serverVars == <<server, refs, wired>>
poolVars   == <<is_run, storages, queue, acquired>>
txVars     == <<tx, connection, registered>>
vars == <<serverVars, poolVars, connecting, txVars, driver, answering, thrown, runs, fault>>

Config == CreateConfig(Clusters, Minimum, Maximum)
ConnectionString == BuildConnectionString(Config.clusters.configs)
WorkerCount == IF MinConnection(Config.pool) = 0 THEN 1 ELSE MinConnection(Config.pool)

NoRuns == [started |-> 0, failed |-> 0]

Init ==
  /\ server = "none" /\ refs = {} /\ wired = FALSE
  /\ is_run = FALSE /\ storages = {} /\ queue = {} /\ acquired = {}
  /\ connecting = [t \in Threads |-> 0]
  /\ tx = [t \in Threads |-> "none"]
  /\ connection = [t \in Threads |-> NoConn]
  /\ registered = {}
  /\ driver = [c \in Conns |-> "none"]
  /\ answering = DOMAIN Grants
  /\ thrown = [t \in Threads |-> "none"]
  /\ runs = NoRuns
  /\ fault = "none"

\* Thread t, in no other call, calls the server or the pool: the mutex is free.
Calls(t) ==
  /\ fault = "none"
  /\ server = "made" /\ t \in refs /\ tx[t] \in {"none", "active", "ended"}
  /\ \A u \in Threads : connecting[u] = 0

Returns(t) == thrown' = [thrown EXCEPT ![t] = "none"]
Throws(t, e) == thrown' = [thrown EXCEPT ![t] = e]

\* The objects that nobody owns any more are destroyed, with their sessions.
Destroyed(drivers, stored, holders) ==
  [c \in Conns |-> IF drivers[c] # "none" /\ c \notin stored \cup {holders[t] : t \in Threads}
                   THEN "destroyed" ELSE drivers[c]]

(***************************************************************************)
(* The server object.                                                      *)
(***************************************************************************)
\* CreatePools sets the callbacks through pools_, which is not constructed yet.
\* The write crashes, hits other memory, or, when an earlier server and pool
\* lay in the same memory, hits the new pool.  is_run_ is not initialised.
CreatePools ==
  \/ /\ wired' \in BOOLEAN
     /\ is_run' \in BOOLEAN
     /\ UNCHANGED fault
  \/ fault' = "unconstructed_pools" /\ UNCHANGED <<wired, is_run>>

MakePgServer(t) ==
  /\ fault = "none"
  /\ server # "made"
  /\ \/ /\ CanCreateConfig(Clusters)
        /\ CreatePools
        /\ server' = "made"
        /\ refs' = {t}
        /\ Returns(t)
     \/ /\ ~CanCreateConfig(Clusters)
        /\ Throws(t, "StorageException")
        /\ UNCHANGED <<serverVars, is_run, fault>>
  /\ UNCHANGED <<storages, queue, acquired, connecting, txVars, driver, answering, runs>>

\* The StorageServerPtr is handed to another thread.
Share(t, u) ==
  /\ Calls(t) /\ u \notin refs
  /\ refs' = refs \cup {u}
  /\ UNCHANGED <<server, wired, poolVars, connecting, txVars, driver, answering, thrown,
                 runs, fault>>

\* The last one to go destroys the server and its pool, which is not stopped.
Drop(t) ==
  /\ Calls(t) /\ tx[t] = "none"
  /\ refs' = refs \ {t}
  /\ IF refs' # {}
     THEN UNCHANGED <<server, wired, poolVars, driver, runs>>
     ELSE /\ server' = "destroyed" /\ wired' = FALSE
          /\ is_run' = FALSE /\ storages' = {} /\ queue' = {} /\ acquired' = {}
          /\ driver' = Destroyed(driver, {}, connection)
          /\ runs' = NoRuns
  /\ UNCHANGED <<connecting, txVars, answering, thrown, fault>>

(***************************************************************************)
(* TryConnect and Shutdown.                                                *)
(***************************************************************************)
TryConnect(t) ==
  /\ Calls(t)
  /\ Cardinality({c \in Conns : driver[c] = "none"}) >= WorkerCount  \* bound
  /\ \/ /\ wired
        /\ is_run' = TRUE
        /\ connecting' = [connecting EXCEPT ![t] = WorkerCount]
        /\ runs' = [started |-> runs.started + 1, failed |-> runs.failed]
        /\ Returns(t) /\ UNCHANGED fault
     \/ /\ ~wired  \* the callback is null, or is neither null nor a function
        /\ \/ Throws(t, "InvalidArgException") /\ UNCHANGED fault
           \/ fault' = "bad_callback" /\ UNCHANGED thrown
        /\ UNCHANGED <<is_run, connecting, runs>>
  /\ UNCHANGED <<serverVars, storages, queue, acquired, txVars, driver, answering>>

\* Mutant: a connection that cannot be opened is left to a later attempt.
GiveUpNever(t) == connecting' = [connecting EXCEPT ![t] = @ - 1]

\* The exception leaves Run.
GiveUp(t) == connecting' = [connecting EXCEPT ![t] = 0]

OpenSucceeds == Connects(ConnectionString, answering, Grants)

\* The conn_ of the PgConnection that the callback returns.
CreatePrimaryPgConnection == "null"

\* One iteration of Run: the callback, then OpenImpl of the connection, which
\* the pool stores and queues before it is opened.
OpenNext(t, c) ==
  /\ fault = "none"
  /\ connecting[t] > 0
  /\ driver[c] = "none"
  /\ storages' = storages \cup {c}
  /\ queue' = queue \cup {c}
  /\ \/ /\ OpenSucceeds
        /\ driver' = [driver EXCEPT ![c] = "open"]
        /\ connecting' = [connecting EXCEPT ![t] = @ - 1]
        /\ UNCHANGED <<thrown, runs>>
     \/ /\ ~OpenSucceeds
        /\ driver' = [driver EXCEPT ![c] = CreatePrimaryPgConnection]
        /\ GiveUp(t)
        /\ \E failure \in PqxxFailures : Throws(t, ThrownByOpen(failure))
        /\ runs' = [started |-> runs.started, failed |-> runs.failed + 1]
  /\ UNCHANGED <<serverVars, is_run, acquired, txVars, answering, fault>>

\* Mutant: Close resets conn_, as Release does.
CloseImplResets(c) == IF driver[c] = "open" THEN "destroyed" ELSE driver[c]

CloseImpl(c) == IF driver[c] = "open" THEN "closed" ELSE driver[c]

\* Mutant: the connections that are leased are not closed.
ToCloseQueued == queue

ToClose == storages

Shutdown(t) ==
  /\ Calls(t)
  /\ IF is_run
     THEN /\ is_run' = FALSE /\ storages' = {} /\ queue' = {} /\ acquired' = {}
          /\ driver' = LET drivers == [c \in Conns |-> IF c \in ToClose THEN CloseImpl(c)
                                                                        ELSE driver[c]]
                       IN Destroyed(drivers, {}, connection)
          /\ runs' = NoRuns
     ELSE UNCHANGED <<poolVars, driver, runs>>
  /\ Returns(t)
  /\ UNCHANGED <<serverVars, connecting, txVars, answering, fault>>

(***************************************************************************)
(* Transactions.                                                           *)
(***************************************************************************)
\* Acquire returns a connection or nullptr.
GetConnectionFromPool(t) ==
  /\ Calls(t) /\ tx[t] = "none"
  /\ \/ /\ is_run
        /\ \E c \in queue :
             /\ queue' = queue \ {c}
             /\ acquired' = acquired \cup {c}
             /\ connection' = [connection EXCEPT ![t] = c]
        /\ tx' = [tx EXCEPT ![t] = "leased"]
        /\ Returns(t) /\ UNCHANGED registered
     \/ /\ queue = {} \/ ~is_run
        /\ Throws(t, "TransactionException")
        /\ UNCHANGED <<queue, acquired, txVars>>
  /\ UNCHANGED <<serverVars, is_run, storages, connecting, driver, answering, runs, fault>>

\* pqxx has a transaction on the connection: of a thread that has not ended
\* it, or that could not commit it, until the members are destroyed.
Busy(c) == \E u \in registered : connection[u] = c

\* pqxx gets *Driver().  The constructor that throws destroys connection_.
CreateTransaction(t) ==
  LET c == connection[t] IN
  /\ fault = "none"
  /\ tx[t] = "leased"
  /\ \/ /\ driver[c] \in {"open", "closed"}  \* a nontransaction sends nothing
        /\ ~Busy(c)
        /\ tx' = [tx EXCEPT ![t] = "active"]
        /\ registered' = registered \cup {t}
        /\ UNCHANGED <<connection, driver, thrown, fault>>
     \/ /\ driver[c] # "null"  \* it is busy, was closed, or BEGIN fails
        /\ tx' = [tx EXCEPT ![t] = "none"]
        /\ connection' = [connection EXCEPT ![t] = NoConn]
        /\ driver' = Destroyed(driver, storages, connection')
        /\ Throws(t, "pqxx::failure")
        /\ UNCHANGED <<registered, fault>>
     \/ /\ driver[c] = "null"
        /\ fault' = "null_driver"
        /\ UNCHANGED <<txVars, driver, thrown>>
  /\ UNCHANGED <<serverVars, poolVars, connecting, answering, runs>>

\* Commit and Rollback.  pqxx may keep a transaction that could not commit.
EndTransaction(t) ==
  /\ fault = "none"
  /\ tx[t] = "active" /\ connecting[t] = 0
  /\ tx' = [tx EXCEPT ![t] = "ended"]
  /\ \/ registered' = registered \ {t} /\ Returns(t)
     \/ registered' \in {registered, registered \ {t}} /\ Throws(t, "std::runtime_error")
  /\ UNCHANGED <<serverVars, poolVars, connecting, connection, driver, answering, runs, fault>>

\* Mutant: the connection is taken back without a look at acquired_.
TakenBackUnchecked(c) == {c}

TakenBack(c) == {c} \cap acquired

\* The destructor: its body, then transact_ and connection_.
ReturnConnectionToThePool(t) ==
  LET c == connection[t] IN
  /\ Calls(t) /\ tx[t] \in {"active", "ended"}
  /\ queue' = queue \cup TakenBack(c)
  /\ acquired' = acquired \ {c}
  /\ tx' = [tx EXCEPT ![t] = "returned"]
  /\ UNCHANGED <<serverVars, is_run, storages, connecting, connection, registered, driver,
                 answering, thrown, runs, fault>>

DestroyMembers(t) ==
  /\ fault = "none"
  /\ tx[t] = "returned"
  /\ tx' = [tx EXCEPT ![t] = "none"]
  /\ connection' = [connection EXCEPT ![t] = NoConn]
  /\ registered' = registered \ {t}
  /\ driver' = Destroyed(driver, storages, connection')
  /\ UNCHANGED <<serverVars, poolVars, connecting, answering, thrown, runs, fault>>

-----------------------------------------------------------------------------
\* A host of the clusters starts or stops to answer.
HostChanges(h) ==
  /\ fault = "none"
  /\ answering' = IF h \in answering THEN answering \ {h} ELSE answering \cup {h}
  /\ UNCHANGED <<serverVars, poolVars, connecting, txVars, driver, thrown, runs, fault>>

ThreadNext(t) ==
  \/ MakePgServer(t) \/ Drop(t) \/ \E u \in Threads : Share(t, u)
  \/ TryConnect(t) \/ Shutdown(t) \/ \E c \in Conns : OpenNext(t, c)
  \/ GetConnectionFromPool(t) \/ CreateTransaction(t) \/ EndTransaction(t)
  \/ ReturnConnectionToThePool(t) \/ DestroyMembers(t)

Halted == fault # "none" /\ UNCHANGED vars

Next ==
  \/ \E t \in Threads : ThreadNext(t)
  \/ \E h \in DOMAIN Grants : HostChanges(h)
  \/ Halted

Spec == Init /\ [][Next]_vars

-----------------------------------------------------------------------------
(***************************************************************************)
(* Properties.                                                             *)
(***************************************************************************)
TypeOK ==
  /\ server \in {"none", "made", "destroyed"} /\ refs \subseteq Threads
  /\ wired \in BOOLEAN /\ is_run \in BOOLEAN
  /\ storages \subseteq Conns /\ queue \subseteq storages /\ acquired \subseteq storages
  /\ connecting \in [Threads -> 0..WorkerCount]
  /\ tx \in [Threads -> {"none", "leased", "active", "ended", "returned"}]
  /\ connection \in [Threads -> Conns \cup {NoConn}]
  /\ registered \subseteq Threads
  /\ driver \in [Conns -> {"none", "null", "open", "closed", "destroyed"}]
  /\ answering \subseteq DOMAIN Grants
  /\ runs \in [started : Nat, failed : Nat]
  /\ fault \in {"none", "unconstructed_pools", "bad_callback", "null_driver"}

\* The raw pqxx::connection pointer of a pqxx transaction is valid as long as
\* the transaction lives, its destructor included: another thread may shut the
\* server down and connect it again, and the destructor of an earlier user of
\* the connection, which drops its share of it, may run on beside the next.
DriverOutlivesTransaction ==
  \A t \in Threads :
    tx[t] \in {"active", "ended", "returned"} => driver[connection[t]] \in {"open", "closed"}

\* No session outlives the pool that opened it: after Shutdown, and after the
\* last StorageServerPtr is gone, no connection is open, leased ones included.
SessionsBelongToPool == \A c \in Conns : driver[c] = "open" => c \in storages

Unopened == {c \in storages : driver[c] = "null"}

\* TryConnect that failed and is repeated adds to the pool: at most the minimum
\* per call, with one connection that is not open per call that failed.  Only
\* such a connection makes CreateTransaction dereference a null driver.
UnopenedPerFailure ==
  /\ Cardinality(storages) <= runs.started * WorkerCount
  /\ Cardinality(Unopened) = runs.failed
  /\ runs.failed <= runs.started
  /\ fault = "null_driver" =>
       \E t \in Threads : tx[t] = "leased" /\ driver[connection[t]] = "null"

\* README.md, "Cluster Connection & fallback mechanism": when all clusters name
\* one login and one database, and every host grants that, a connection fails
\* to open only if no host answers.
SharedLogin ==
  \A i \in DOMAIN Clusters :
    /\ Asked(Clusters[i]) = Asked(Clusters[1])
    /\ Asked(Clusters[1]) \in Grants[Clusters[i].host]

FallsBack ==
  [][SharedLogin /\ runs'.failed > runs.failed =>
       \A i \in DOMAIN Clusters : Clusters[i].host \notin answering]_vars

\* README.md, "catch (const StorageException& e)": an error of Postgres in
\* TryConnect reaches the handler of the example, whatever pqxx throws.
ConnectErrorsCaught ==
  [][\A t \in Threads : connecting[t] > 0 /\ thrown'[t] # "none" =>
       Catches("StorageException", thrown'[t])]_vars

-----------------------------------------------------------------------------
\* README.md, "MakePgServer(clusters, 5, 10)" and "server->TryConnect()": a
\* server that was made has a pool that can create connections.
MadeServerIsWired == server = "made" => fault = "none" /\ wired
=============================================================================
