------------------------------ MODULE PgConfigs ------------------------------
(***************************************************************************)
(* The configuration a PgServer is made from, the connection string of a   *)
(* PgConnection, and the exceptions of the library (exceptions.h).  All of *)
(* it is immutable.  A user with a password is one "login" here, a host    *)
(* with its port one "host"; durations are left out.                       *)
(***************************************************************************)
EXTENDS Naturals, Sequences, FiniteSets, TLC

StorageType == {"Unknown", "Postgres", "Oracle", "Mysql", "SqlLite", "Redis", "Parquet", "NvXcel"}

ClusterConfig(type, login, host) == [type |-> type, login |-> login, host |-> host]

PgClusterConfig(dbname, login, host) ==
  ClusterConfig("Postgres", login, host) @@ [dbname |-> dbname]

ClusterConfigList(type) == [type |-> type, configs |-> <<>>]

\* ClusterConfigList::Add.  It throws for the clusters of another storage.
Accepts(list, config) == config.type = list.type
Add(list, config) == [list EXCEPT !.configs = Append(@, config)]

ConnectionPoolConfig(min_connection, max_connection) ==
  [min_connection |-> min_connection, max_connection |-> max_connection]

MinConnection(pool) == pool.min_connection

StorageConfig(type, pool, clusters) == [type |-> type, pool |-> pool, clusters |-> clusters]

PgStorageConfig(clusters, pool) == StorageConfig("Postgres", pool, clusters)

\* PgServer::CreateConfig, which throws when there is no cluster.
CanCreateConfig(clusters) ==
  /\ clusters # <<>>
  /\ \A i \in DOMAIN clusters : Accepts(ClusterConfigList("Postgres"), clusters[i])

CreateConfig(clusters, min, max) ==
  LET list[n \in 0..Len(clusters)] == IF n = 0 THEN ClusterConfigList("Postgres")
                                               ELSE Add(list[n - 1], clusters[n])
  IN PgStorageConfig(list[Len(clusters)], ConnectionPoolConfig(min, max))

\* Mutant: the loop ends after the first cluster.
FirstHostOnly(configs) ==
  [login |-> configs[1].login, dbname |-> configs[1].dbname, hosts |-> <<configs[1].host>>]

\* PgConnection::BuildConnectionString: the hosts of all clusters with the
\* user, the password and the database of the first.
BuildConnectionString(configs) ==
  [login |-> configs[1].login, dbname |-> configs[1].dbname,
   hosts |-> [i \in DOMAIN configs |-> configs[i].host]]

\* What is asked of a host: a session of a user with a database.
Asked(string) == [login |-> string.login, dbname |-> string.dbname]

\* libpq tries the hosts in their order, and no other host once one of them
\* answered and refused: it knows no such login, or no such database.
Connects(string, answering, grants) ==
  \E i \in DOMAIN string.hosts :
    /\ string.hosts[i] \in answering
    /\ \A j \in 1..i - 1 : string.hosts[j] \notin answering
    /\ Asked(string) \in grants[string.hosts[i]]

-----------------------------------------------------------------------------
\* The public bases; UnsupportedFeatureException inherits privately.
BaseOf ==
  [StorageException       |-> "Exception",
   ConnectionException    |-> "StorageException",
   TransactionException   |-> "StorageException",
   ExecutionException     |-> "TransactionException",
   InternalErrorException |-> "StorageException",
   ParameterTypeException |-> "StorageException"]

\* "catch (const handler&)" catches e.
Catches(handler, e) ==
  LET Base(x) == IF x \in DOMAIN BaseOf THEN BaseOf[x] ELSE x
  IN handler \in {e, Base(e), Base(Base(e)), Base(Base(Base(e)))}

\* What the constructor of pqxx::connection may throw.
PqxxFailures ==
  {"broken_connection", "in_doubt_error", "usage_error", "internal_error",
   "std::exception", "other"}

\* Mutant: only broken connections are translated.
ThrownByOpenUntranslated(failure) ==
  IF failure = "broken_connection" THEN "ConnectionException" ELSE failure

\* The catch clauses of PgConnection::OpenImpl.
ThrownByOpen(failure) ==
  CASE failure \in {"broken_connection", "std::exception"} -> "ConnectionException"
    [] failure \in {"in_doubt_error", "usage_error", "internal_error"} ->
         "InternalErrorException"
    [] OTHER -> "StorageException"
=============================================================================
