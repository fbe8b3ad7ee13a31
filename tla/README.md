# NvQL: TLA+ models, model checking and proofs

NvQL is a C++ library that gives programs one interface to SQL servers. Its
core is a connection pool shared by all threads of a program, and transaction
objects that lease a connection from it, run statements and give it back. This
directory models that core, checks it with TLC and proves its safety properties with
TLAPS.
Paths below are relative to the repository.

## 1. The system

| Component | State it keeps | Operations | What makes it correct |
|---|---|---|---|
| `ConnectionPool` (`storage/.../connection_pool.cc`) | `connection_storages_` (owned nodes), the queue `connections_` and the map `acquired_` of raw node pointers, `is_run_`, `mutex_main_`, `cv_main_`, the event loop `services_` | `Run`, `Stop`, `Acquire`, `Return`, callback setters; `PingService` and `CleanupService` on the event loop | pointers valid; a lease is exclusive; no connection lost; `Stop` resets; waits end; the mutex is released |
| `PgTransaction` (`postgres/.../pg_transaction.cc`, `pg_server.cc`) | `connection_`, `transact_`, `mode_`, a raw `PgServer*` | constructor, `Execute`, `ExecuteNonPrepared`, `Commit`, `Rollback`, destructor | connections not shared; uncommitted writes end with their own transaction; a connection goes back clean, and does go back |
| `PreparedStatementManager` | keys of the statements of one connection | `Register`, `IsKeyExist`, `GenerateKey` | a recorded statement is prepared, and prepared once |
| `PgConnection`, `Connection` | `conn_` (pqxx), hash, times | `Open`, `Close`, `Release`, `PrepareStatement`, `IsIdle` | what is leased is open; a driver outlives the pqxx transaction on it |
| `PgServer` | the pool, the configuration | `MakePgServer`, `TryConnect`, `Shutdown`, `Begin`, destruction | it is made with a pool that can connect; no session outlives its pool; a connect that fails leaves what it says and throws what the example catches |
| configurations, clusters, connection string | immutable | `Add`, `CreateConfig`, `BuildConnectionString` | every host of the clusters is tried |
| `Param`, `TranslateParams` (`parameters/`, `pg_transaction.h`) | a tag and a reference to the client's value | factories, conversion on `Execute` | what is sent is what the client meant, in its order |
| results, `Cursor`, iterators, rows, columns (`pg_execution_result.cc`, `pg_row_result*.cc`) | a pqxx result; a reference to it in cursor and iterator | `At`, loops, `As<T>`, `GetColumn` | a loop reads each row once and ends; what is found can be read |
| `Mapper`, `pg_helper` | none | `Dynamic`, `Map`, `ParseTimestamp(z)` | members get the columns that were named for them; a timestamp is the instant Postgres means |
| exceptions, enumerations, example program | none | | what is thrown is what the documented handler catches |

**How they interact.** `PgServer::Begin` constructs a `PgTransaction`, whose
constructor calls `ConnectionPool::Acquire` and then begins a pqxx transaction
on the connection; its destructor calls `Return`, and after that the members
are destroyed, among them the pqxx transaction, which rolls back. The pool
creates connections through a callback of `PgServer`, opens them in `Run` and
closes them in `Stop`. The event loop calls `PingService` and `CleanupService`
from a thread of its own. All shared state of the pool is under one mutex,
except the callback setters and `IsRun`.

**What is hard.** Threads wait in `Acquire` while others return connections or
stop the pool. `Open`, `Close` and `Release` throw in the middle of `Run`, `Stop`
and the cleanup, and nothing is undone. Raw pointers have to stay valid across
`Stop` and a second `Run`. A client may return a connection from before a `Stop`.
`Stop` calls the event loop with the mutex held. A destructor returns its
connection before it has rolled back. Statements are recorded as prepared before
they are. A result is destroyed under a cursor that keeps a reference, or replaced
by another one at the same address; a parameter refers to a value that is gone. A
server is shut down, connected again and dropped while transactions live.
`PROJECT.json` lists each of these hazards at its line.

## 2. Modules

```
ConnectionLeases              what a pool promises (abstract)
  ConnectionLeasesProofs        leases are exclusive
  PgTransactions                transactions over that promise     MCPgTransactions
    PgTransactionsProofs          its invariants
ConnectionPool                the pool as it is coded              MCConnectionPool
  ConnectionPoolProofs          its inductive invariant
    ConnectionPoolStopProofs      what Stop, Run and the cleanup leave behind
    ConnectionPoolRefinement      it implements ConnectionLeases
PgConfigs                     configurations, exceptions (operators)
  PgServers                     lifetimes around a server          MCPgServers
    PgServersProofs               drivers, sessions, failed connects, hosts
Outcomes                      what a call that may throw comes to
  Params                        parameters of a statement
  ResultCursors                 results and loops over them
  Timestamps                    parsing (operators)
    RowValues                     reading a row, the Mapper (operators)
  Queries                       a client that uses all three       MCQueries
    QueriesProofs                 loops, columns, the Mapper, times, what is sent
NumberSets                    induction over sets of numbers (lemmas of both proofs above)
```

### ConnectionPool

A node of `connection_storages_` is named by the connection it was created with.

| Model | Code |
|---|---|
| `storages`, `null_nodes` | keys of `connection_storages_`; nodes whose `ConnectionPtr` was reset |
| `connections`, `acquired` | `connections_`, `acquired_` |
| `is_run`, `callback` | `is_run_`, `create_primary_connection_callback_` (both uninitialised at first: every value is an initial one) |
| `owner`, `todo`, `pending` | who holds `mutex_main_`, and where it is in its loop |
| `call`, `lease` | where each client is in `Acquire`, and what it got |
| `services`, `tasks` | the event loop, and the tasks that wait for the mutex |
| `driver`, `created` | `PgConnection::conn_`; objects created so far |
| `fault` | an undefined operation: the front of an empty queue, a bad callback, a null connection |

`Acquire` (which may wait), `Expire` and `Resume` make up `Acquire`; `Return` is one
step; `Run`, `InitializePrimaryConnection`, `RunDone` make up `Run`; `Stop`,
`StopServices`, `StopClose`, `StopDone` make up `Stop`; `Fire` and `Enter` start the
two services, `PingNext`/`PingDone` and `CleanupNext`/`CleanupDone` are their loops.
A section that keeps the mutex is split so that it can be cut short by an
exception; other threads only see it as a whole, except that deadlines pass and
the unlocked setters run in between.

External, modelled from how the code uses it: `absl::CondVar` (`Signal` wakes one
waiter; `WaitWithDeadline` returns true once the deadline has passed, also when a
signal comes after it and before the thread has the mutex; spurious wakeups, which absl
allows, are left out: the code treats one like a signal), the event loop (it may
start each task at any time while it runs; whether a stopped one starts again is
left open; `StopJoins` says whether stopping waits for the task in progress).

The model stops at the first undefined operation: C++ gives what follows no
meaning. Nothing reads `is_ready_`, nothing calls the standby callback.

### ConnectionLeases

The promise to a client of the pool in four actions: `Offer`, `Take`, `GiveBack`,
`Withdraw`. The refinement mapping takes `created`, the set of queued nodes,
`acquired` and `lease` for its variables. All that the queue, the mutex, the
loops and the failures do is a step of it or changes nothing in it. What it does
not promise: that a withdrawn connection is taken from its holder. `Stop`
forgets leased connections, and their holders go on.

### PgTransactions

Extends ConnectionLeases, so that the pool is replaced by its promise, plus one
fact that the promise does not state: `Stop` closes every connection it has
offered (`PoolStops`), the leased ones too. A session that is closed or breaks is over at once
(`SessionsEnd`): Postgres rolls its transaction back and forgets what was prepared in it,
in a step that its client does not take, while pqxx keeps the transaction registered and the
PreparedStatementManager its keys. Per client: `phase`, `mode`, `connection` of its
`PgTransaction`. Per connection: the transaction that pqxx has `registered`, the
state of the `server`, whose writes are `pending`, the `statements` recorded in the
PreparedStatementManager and those `prepared` in Postgres, as pairs of a key and a
query: `GenerateKey` makes the key of the hash alone, so that two queries may meet
in one. `Begin` and `CreateTransaction`/`CreateTransactionThrows` are the constructor,
`ReturnConnectionToThePool` and `DestroyMembers` the destructor. pqxx and Postgres are
external: one registered transaction at a time, an error aborts the
transaction block, a failed block refuses statements, destroying a registered
transaction rolls back, and only a nontransaction begins without a round trip.
That `COMMIT` may fail and leave the transaction registered covers every version.
A connection that `Run` could not open is not in this model: PgServers and
PoolSafety have it.

### PgConfigs and PgServers

PgConfigs holds what is immutable: the configuration that `CreateConfig` builds of the
clusters, the connection string (the hosts of all clusters, the login and the database of
the first), how libpq tries the hosts (one that answers and does not grant what is `Asked` ends
the attempt), and the exceptions, with the base classes by which
a handler catches them and the translation in `OpenImpl`.

PgServers is about ownership. `server`, `refs` and `wired` are the PgServer object, the
threads that share it by `StorageServerPtr`, and whether its pool has the callback.
`is_run`, `storages`, `queue`, `acquired` are the pool, here without its queue order, its
mutex and its waits, which are ConnectionPool's. `driver` is `conn_` of each PgConnection: an
object dies, with its session, when neither the pool nor a `PgTransaction` owns it
(`Destroyed`). `connecting` is a `TryConnect` under way, `answering` the hosts that are up
and may go and come, `thrown` what the last call of each thread threw. `registered` are the
transactions that pqxx has on their connections: `EndTransaction` (`Commit`, `Rollback`) ends one before
it is destroyed, so that another thread may begin on the connection between the two halves of the
destructor. A thread
keeps its reference while it has a transaction: `pg_server.h:48` leaves that to the
caller. The constructor (`CreatePools`) writes through a member that is not
constructed yet: every outcome the build can produce is an outcome of the action,
and what the other properties say of a server is said of one that was made well or
wired by chance.

### Params, ResultCursors, RowValues, Timestamps, Queries

Params: a `Param` is a tag, the type of its value and the place it refers to, a
variable of the client or a temporary. Variables come into being, change and go out
of scope between the creation of a `Param` and `Execute`; `TranslateParams` reads the value
that is there then. A reference to nothing may read anything.

ResultCursors: results lie at `Addresses`; client variables (`handle`) share them, a
`Cursor` only keeps the address. `Execute` may put another result where one was
destroyed. `Visit`, `Advance`, `EndLoop`, `LeaveLoop` are one iteration of a range-for loop with
`operator!=`, `operator*` and `operator++` as coded; the client may execute and drop
results in the body. A row shares the data of pqxx, so that it outlives the result.

RowValues and Timestamps are operators on values: what a field converts to, every
accessor by index and by name, the columns (a `PgColumn` is sliced when it is returned
by value: a `Column` has neither name nor value), the two halves of the Mapper, and the parsing of a
timestamp against `Instant`, what Postgres means by the text. Fields are told apart by
what pqxx can convert them to; digits are left out.

Queries composes them: a client binds, executes, loops and reads. What `Execute` does on
the connection is in PgTransactions.

## 3. Runs

| Run | Question | Instance | Result |
|---|---|---|---|
| pool_safety | is anything lost, does `Stop` reset? | 3 clients, 4 connections (2 with the same hash), minimum 2, `Open` may throw | holds, 647,265 states |
| pool_failures | are pointers and leases sound, is the promise kept? | 2 clients, 4 connections (1 standby), minimum 2, `Open` and `Close` may throw | holds, 1.2 million states |
| pool_liveness | do waits and locked sections end, whatever is thrown? | 2 clients, 3 connections (2 with the same hash, 1 standby), minimum 1, `Open`, `Close` and `Release` may throw, fairness | holds, 365,779 states |
| pool_wait | does a woken waiter get the connection, and one that times out nullptr? | 2 clients, 1 connection | **violated** |
| pool_maximum | does a client wait only at the maximum? | 3 clients, minimum 2, maximum 4 | **violated** |
| tx_safety | who sees and ends whose writes, who runs whose statement? | 2 clients, 2 connections, 4 modes, 4 queries in two pairs of one hash each, one of which cannot be prepared, connections that break | holds, 948,195 states |
| tx_stranded | does every connection come back? | 2 clients, 1 connection, no failure | **violated** |
| tx_prepared | is a recorded statement prepared? | 1 client, 1 connection | **violated** |
| server | who outlives whom, and what does a failed connect leave? | 3 threads, 4 connections, 2 hosts, minimum 2 | holds, 832,824 states |
| server_made | has a server that was made a pool that can connect? | 2 threads | **violated** |
| values | is the right thing sent, visited and read? | 2 variables of 4 types, 2 parameters, 2 result variables at 3 addresses, 4 results of up to 3 rows, 3 local time zones | holds, 53,673 states |
| param_sent | is a parameter sent with the value it was made of? | 1 variable | **violated** |

**Bounds.** The bound of the pool and the server models is `Conns`, the objects that may
ever be created (`Run` and `TryConnect` need enough of them left). Four with a minimum of two allow `Run`, `Stop`, `Run` completely, so that
stale leases and stale nodes meet a second generation, and a `Run` that fails at
its first or second connection and is repeated. Three clients and two connections
in the queue give one holder of each and one waiter; a second waiter beside a
holder comes with a minimum of one leased connection left after a failed `Run`.
In pool_liveness three objects and a minimum of one are enough for a `Run` that meets the equal hash a
failed one left behind, and for a `Stop` and a cleanup that are cut short.
In PgTransactions two clients on one connection give every order of the end of
one transaction and the begin of the next; the second connection separates what
is per connection from what is per client. Of the queries two write and two do
not; each of those that write has the hash of one that does not, and one of these cannot be prepared,
so that a statement may run in place of another and a key may be taken by a preparation that fails.

In PgServers two hosts are the least that can fall back; four connections of a minimum
of two allow a connect, a failed one or a second pool, and three threads a thread in a
transaction, one that shuts down or connects, and one that drops the server.

In Queries `MaxParams` bounds a statement and `MaxVisited` the rows of a loop that are
remembered; it exceeds the longest result, so that a loop which reads on would show
(`CursorsAssumption` says that it is no shorter: the theorems need no more).
`Binding` and `Reading` keep the parameters and the results apart: variables are bound only
while no result lives, and results used only when no variable lives, since neither
reads the other; `Execute`, which joins them, happens in both. A third address is what two result variables and an `Execute` that
makes the new result before it drops the old one need. The results are an empty one,
one row, three rows of other kinds than the model expects, with NULLs and a column name that
occurs twice, and a row with every kind of offset that the parser tells apart: none, whole hours,
and offsets with minutes on both sides of Greenwich. The Mapper is given every choice of three out of
four names, some of them missing in each row, in any order and more than once.

Symmetry is used for safety only: runs with a temporal property under fairness have
none. In pool_safety and pool_failures only the clients
are symmetric: two connections share a hash, or one is a standby one.

**Fairness** (`FairSpec`, pool_liveness). Weak fairness of the section that holds the
mutex: a running thread runs on. Weak fairness of `Expire`: deadlines pass. Strong
fairness of `Resume`: a thread that has been woken asks for the mutex until it gets
it, and absl's mutex does not starve a waiter for ever. Nobody has to call `Return` or
`Stop`, and the event loop need not fire; `AcquireReturns` rests on the deadline alone.
It is stated for a pool whose event loop stops without waiting (`StopJoins = FALSE`):
if it waits for its task, `Stop` and a service that wants the mutex wait for each
other.

`FairSpec` of Queries: weak fairness of the steps of a loop (`ReadResults /\ LoopNext`): the
thread that loops runs on. It may execute any statement in the body as often as it
likes and need not leave the loop early.

## 4. What the runs and the proofs show of the code

1. `connection_pool.cc:111`: absl's `WaitWithDeadline` returns true for a timeout. The
   test is inverted: a waiter that is signalled leaves with nullptr though the
   connection is there, and one that times out reads the front of an
   empty queue (pool_wait). A waiter never gets a connection because it was woken.
2. The pool never opens more than its minimum, and `MaxConnection()` returns the
   minimum (pool_maximum).
3. A `PgTransaction` whose constructor throws after `Acquire` strands the
   connection (tx_stranded). The window between the two halves of the destructor
   is enough: no fault is needed.
4. A statement whose preparation fails stays recorded (tx_prepared).
5. `pg_server.cc:161`: `CreatePools` sets the callback through the member `pools_`, which it
   is just initialising (server_made).
6. A `Param` made of a literal, as in the README, keeps a reference to a temporary
   (param_sent).
7. A timestamp with time zone, which the README reads with `AsDateTimeOffset`, is not read as the
   instant it means: the theorem `ParseOutcome` says what becomes of every text. An offset of
   whole hours, "+00" and "+07" too, or a fraction of a second cannot be read at all. What
   is read is off by the offset of the machine's time zone, since `mktime` takes the time in UTC
   for local time before a `DateTime` in `Etc/Utc` is made of it, and west of Greenwich by twice the
   minutes of the text's offset.

Further limits that the properties name and no document contradicts: a parameter that is a
timestamp without time zone cannot be sent (`SentInOrder`); the Mapper goes by the order in which
the columns are named, not by the names of the members, and of two columns with one name it takes the
first (`ModelsFillByPosition`); a connect that fails leaves one connection that never
opened in the queue, and the client that leases it dereferences a null driver
(`UnopenedPerFailure`); connecting falls back to another host only while the hosts that answer grant the
first cluster's login and database (`FallsBack`). Two queries with one hash run as the one that came
first: the model of `Execute` has it, and no property forbids it.

What holds despite the code's shape is worth as much: the order of the destructor is
harmless to the data, since only its owner and the end of the session end a write (tx_safety, and proved), a pqxx transaction never outlives its
connection while others shut the server down (server, and proved), a loop over a shared
result is not disturbed by what its body executes (values), a `Run` or `Stop` that is cut short never leaves a
stale pointer where a client can get it (pool_failures, and proved), and a client
cannot return a connection of an earlier generation into the pool, if hashes are
distinct.

Two conditions in the properties are real limits: with standby connections,
which `PgServer` does not create, or after a `Close` that threw, `Stop` can
dereference a node whose connection was reset (`StopFindsConnections`); and leases
are exclusive only if the random 32-bit draws behind two hashes differ
(pool_safety has two that do not, and shows what still holds then).

## 5. Proofs

All proofs hold for every set of clients and threads, any number of connections, every minimum,
every combination of failures, and any hosts, clusters, results and parameters; their only
assumptions are the named `ASSUME`s on constants.

- **ConnectionPoolProofs.** `PoolInvariant`: `PoolInv` is inductive. `TypeOK` and `NodesValid`
  alone are not. `StopServices` empties the queue and `StopClose` then resets nodes: one
  needs to know that the queue and `acquired_` are empty while `Stop` closes, that
  `pending` is part of `storages`, and that the loops of the services never have more
  iterations than the queue has elements (`SectionInv`). A new node is not in the queue
  because stored nodes were created and it was not (`StoragesInv`). `TypeCorrect` and
  `NodesStayValid` follow; they need no distinct hashes. Three lemmas (`PushElements`,
  `PopElements`, `RotateElements`) say what push, pop and rotate do to the set of elements
  of the queue and to its injectivity.
- **ConnectionPoolStopProofs.** `StopInvariant`: `StopInv` adds to `PoolInv` that the sections of
  a running pool run only while `is_run_` holds (`RunningInv`), that objects not yet created were
  never closed (`UsableInv`), that a stopped pool is empty and what is open is still
  to be closed (`CleanInv`), and that without standby connections only `Stop` resets
  nodes (`NoNullInv`). `NoConnectionLost` and `StopResetsPool` need each other: a `Run` loses nothing
  only because the `Stop` before it left nothing. `StopFindsConnections`, `WaiterSurvivesStop`
  and `UsableConnections` follow too: all invariants of the pool's runs are proved.
- **ConnectionLeasesProofs.** `LeasesStayExclusive`: `LeasesExclusive` with the typing that a
  held connection has been offered is inductive.
- **ConnectionPoolRefinement.** `PoolImplementsLeases`: with distinct hashes each step of the
  pool maps to a step of ConnectionLeases or a stutter. It uses `PoolInv` and that a
  client in `Acquire` holds nothing (`CallInv`). `LeasesAreExclusive` carries the abstract
  invariant over to the pool.
- **PgTransactionsProofs.** `TransactionInvariant`: `TxInv` is inductive, in three layers.
  `LeaseInv`: what is in use is held and not free, and not shared. `PgInv`, on top of it: what pqxx
  has registered on a connection is a transaction of that connection (`RegisteredInv`), only a
  registered one leaves a block open in Postgres (`ServerInv`), and pending writes are its own.
  Nothing is pending on a session that is over (`ClosedInv`). The destructor is the hard step: when `DestroyMembers` runs, the connection may
  belong to another transaction, and `RegisteredInv` says that then nothing of this one is
  registered there. `StatementsInv`: one item per key, and what is prepared is recorded, so
  that no name is prepared twice (`StatementsPreparedOnce`). All six properties of tx_safety
  follow, `EndedOnlyByOwner` and `PreparedOnce` as action properties. `WithdrawalsAreHarmless` says them again
  of transactions over a pool that may withdraw any connections and end any sessions at any time, of
  leased connections too, which is all that ConnectionLeases promises and the pool is proved to keep, so
  that nothing rests on `PoolStops`.
- **PgServersProofs.** `ServersInvariant`: that threads in a transaction have a reference
  (`RefsInv`) is what makes the last `Drop` safe; with `TxConnectionInv` and `ConnectingInv` it makes
  `DriverOutlivesTransaction` and `SessionsBelongToPool` inductive. `DestroyedKeeps` says what the
  destruction of objects nobody owns leaves alone. `ConnectErrorsStayCaught` combines the
  invariant with `OpenThrows` and `OpenErrorsCaught`.
  `UnopenedArePerFailure` needs (`UnopenedInv`) that what is stored and what the call under way
  will still add is at most the minimum per call, that one thread at a time connects and its call has not
  been counted as failed (`ConnectsInv`), and that stored objects exist (`StoredInv`).
  `ConnectsFallBack` is about `CreateConfig`: `ConfigHasClusters` shows by induction that the
  recursive function on the list of clusters keeps all of them, in their order, or throws;
  `SharedLoginConnects` takes the first host that answers, the one libpq gets to. Both hold for any
  number of clusters; the second supposes that they name one login and one database, which every host
  grants (`SharedLogin`).
- **NumberSets.** The induction theorems of the library take a predicate, which the provers
  here cannot instantiate. `Induction` says the same of a set (what holds zero and all successors
  holds every natural number) and `LeastNumber` that a set of them has a least element; a proof
  collects the numbers of which it wants to show something in a set.
- **QueriesProofs.** `QueriesInvariant`: `QueriesInv` is inductive. `VisitsEveryRow` says what
  a loop has read when it ends; the invariant (`VisitedInv`) says it of each point of the loop: while the
  cursor's result lives, the rows read are those before the index, one more in the body, and the
  end is the length of that result. `DestroyKeeps` is the step that matters: `Execute` and the drop of a result in the
  body destroy only what no handle shares, so that either the cursor's result is left alone or
  it is no longer `intact`, and a new one at its address changes nothing. `TagsInv`: a `Param` has the tag
  of the type of its variable, for as long as that lives; with it `SentValues` computes what `TranslateParams` returns and
  `ParamsSentInOrder` is an action property of any number of parameters.
  What a row gives is stated for every row that Postgres may return: `ColumnNumberIsFirst`
  (a name finds the first column of that name), `ReadByIndex` and `ReadByName` (what `GetColumn` finds
  and what `As` reads), `ModelFills` (`Dynamic` and `Map`, for any names) give `FoundColumnsAreRead` and
  `ModelsFilledByPosition`. `ParseOutcome` computes the parser's error against `Instant` for every text;
  comparable times have the same error (`ParsedApart`), hence `TimesStayApart`.

So every invariant and every safety action property that a passing run checks is also proved,
and the refinement. Only model-checked are the three properties under fairness (`AcquireReturns`,
`MutexReleased`, `LoopEnds`): liveness and `ENABLED` are out of the prover's reach.

The assumptions on constants are what the code or the language guarantees (names of types, hashes,
finitely many objects, clusters that are a list, members of a struct with distinct names) or say
that a bound of the model does not cut anything short (`MaxVisited`). `Queries` is proved for any
`Tables`, the results a query may return, with any rows of any fields.

## 6. Plan

Done: A. ConnectionPool, B. ConnectionLeases and the refinement, C. PgTransactions,
D. PgConfigs and PgServers, E. Params, ResultCursors, RowValues, Timestamps and Queries,
F. proofs of the invariants of the pool, the transactions and the server,
G. proofs about failed connects, the choice of a host, and Queries.

Left: that the pool of PgServers, which has neither queue order nor mutex, is one that ConnectionPool
implements, so that its theorems hold over the pool as coded too.

## 7. Not modelled

- `PgSubTransaction`: a template that nothing instantiates.
- `StorageInfo`, the names of enumerations, the texts of exceptions and
  `Connection`'s times: they hold or print values that no operation decides on, except
  `IsIdle`, whose outcome `CleanupNext` leaves open.
- The constructor of `PgServer` for the component system, which the standalone build
  leaves out.
- What `std::get_time` leaves of a text that is no timestamp: some time comes out.
- The example program, which needs a database; it was read for how the library is used.
- absl, pqxx, libpq, Postgres and the event loop themselves: modelled only as the code
  uses them, and marked external in `PROJECT.json`.
