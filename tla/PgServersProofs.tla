--------------------------- MODULE PgServersProofs ---------------------------
(***************************************************************************)
(* Theorems about PgServers: the lifetimes of drivers and sessions, for    *)
(* every set of threads, connections and clusters.                         *)
(***************************************************************************)
EXTENDS PgServers, NumberSets, FiniteSetTheorems, SequenceTheorems, TLAPS

\* Who keeps the server: a thread in a transaction has a StorageServerPtr, and
\* a server that is gone has left no pool behind.
RefsInv ==
  /\ \A t \in Threads : tx[t] # "none" => t \in refs
  /\ server # "made" => refs = {} /\ storages = {}

TxConnectionInv == \A t \in Threads : tx[t] = "none" <=> connection[t] = NoConn

\* A thread in TryConnect has thrown nothing yet and is in no other call.
ConnectingInv ==
  \A t \in Threads : connecting[t] > 0 =>
    server = "made" /\ thrown[t] = "none" /\ tx[t] \in {"none", "active", "ended"}

Errors ==
  {"none", "StorageException", "InvalidArgException", "ConnectionException",
   "InternalErrorException", "TransactionException", "pqxx::failure",
   "std::runtime_error"}

ServersInv ==
  /\ TypeOK /\ thrown \in [Threads -> Errors]
  /\ RefsInv /\ TxConnectionInv /\ ConnectingInv
  /\ DriverOutlivesTransaction /\ SessionsBelongToPool

\* The pool opens at least one connection.
LEMMA WorkerCountType == WorkerCount \in Nat \ {0}
<1>1. Config.pool = ConnectionPoolConfig(Minimum, Maximum)
  BY DEF Config, CreateConfig, PgStorageConfig, StorageConfig
<1>2. MinConnection(Config.pool) = Minimum
  BY <1>1 DEF ConnectionPoolConfig, MinConnection
<1> QED BY <1>2, ServersAssumption DEF WorkerCount

LEMMA ServersInvInit == Init => ServersInv
<1> SUFFICES ASSUME Init PROVE ServersInv
  OBVIOUS
<1> USE DEF Init
<1>1. connecting \in [Threads -> 0..WorkerCount]
  BY WorkerCountType
<1>2. runs \in [started : Nat, failed : Nat]
  BY DEF NoRuns
<1>3. TypeOK /\ thrown \in [Threads -> Errors]
  BY <1>1, <1>2 DEF TypeOK, Errors
<1>4. RefsInv /\ TxConnectionInv /\ ConnectingInv
  BY DEF RefsInv, TxConnectionInv, ConnectingInv
<1>5. DriverOutlivesTransaction /\ SessionsBelongToPool
  BY DEF DriverOutlivesTransaction, SessionsBelongToPool
<1> QED BY <1>3, <1>4, <1>5 DEF ServersInv

\* A driver that is open, or that a transaction uses, survives the destruction
\* of the objects that nobody owns.
LEMMA DestroyedKeeps ==
  ASSUME NEW drivers \in [Conns -> {"none", "null", "open", "closed", "destroyed"}],
         NEW stored, NEW holders
  PROVE  /\ Destroyed(drivers, stored, holders) \in
              [Conns -> {"none", "null", "open", "closed", "destroyed"}]
         /\ \A c \in Conns :
              /\ Destroyed(drivers, stored, holders)[c] \in {drivers[c], "destroyed"}
              /\ c \in stored \/ (\E t \in Threads : holders[t] = c) =>
                   Destroyed(drivers, stored, holders)[c] = drivers[c]
              /\ c \notin stored /\ (\A t \in Threads : holders[t] # c) =>
                   Destroyed(drivers, stored, holders)[c] # "open"
BY DEF Destroyed

\* What the pqxx constructor of a connection throws is one of three.
LEMMA OpenThrows ==
  ASSUME NEW failure \in PqxxFailures
  PROVE  ThrownByOpen(failure) \in
           {"ConnectionException", "InternalErrorException", "StorageException"}
BY DEF PqxxFailures, ThrownByOpen

LEMMA OpenErrorsCaught ==
  ASSUME NEW e \in {"ConnectionException", "InternalErrorException", "StorageException"}
  PROVE  Catches("StorageException", e)
BY DEF Catches, BaseOf

-----------------------------------------------------------------------------
LEMMA MakeServerKeeps ==
  ASSUME ServersInv, NEW t \in Threads, MakePgServer(t)
  PROVE  ServersInv'
<1>1. /\ server # "made" /\ refs = {} /\ storages = {}
      /\ \A u \in Threads : tx[u] = "none" /\ ~(connecting[u] > 0)
  BY DEF MakePgServer, ServersInv, RefsInv, ConnectingInv
<1>2. /\ (server' = "made" /\ refs' = {t}) \/ UNCHANGED <<server, refs>>
      /\ UNCHANGED <<storages, queue, acquired, connecting, tx, connection, registered, driver, answering,
                     runs>>
  BY DEF MakePgServer, serverVars, txVars
<1>3. wired' \in BOOLEAN /\ is_run' \in BOOLEAN /\ fault' \in {"none", "unconstructed_pools"}
  BY DEF MakePgServer, CreatePools, serverVars, ServersInv, TypeOK
<1>4. \E e \in Errors : thrown' = [thrown EXCEPT ![t] = e]
  <2>1. \/ thrown' = [thrown EXCEPT ![t] = "none"]
        \/ thrown' = [thrown EXCEPT ![t] = "StorageException"]
    BY DEF MakePgServer, Returns, Throws
  <2> QED BY <2>1 DEF Errors
<1>5. TypeOK' /\ thrown' \in [Threads -> Errors]
  BY <1>1, <1>2, <1>3, <1>4 DEF ServersInv, TypeOK
<1>6. RefsInv' /\ TxConnectionInv' /\ ConnectingInv'
  BY <1>1, <1>2 DEF ServersInv, RefsInv, TxConnectionInv, ConnectingInv
<1> QED BY <1>2, <1>5, <1>6 DEF ServersInv, DriverOutlivesTransaction, SessionsBelongToPool

LEMMA ShareKeeps ==
  ASSUME ServersInv, NEW t \in Threads, NEW u \in Threads, Share(t, u)
  PROVE  ServersInv'
BY DEF Share, Calls, poolVars, txVars, ServersInv, TypeOK, RefsInv, TxConnectionInv,
       ConnectingInv, DriverOutlivesTransaction, SessionsBelongToPool

LEMMA DropKeeps ==
  ASSUME ServersInv, NEW t \in Threads, Drop(t)
  PROVE  ServersInv'
<1> USE DEF ServersInv
<1>1. /\ t \in refs /\ tx[t] = "none" /\ \A u \in Threads : connecting[u] = 0
      /\ refs' = refs \ {t}
      /\ UNCHANGED <<connecting, tx, connection, registered, answering, thrown, fault>>
  BY DEF Drop, Calls, txVars
<1>2. CASE refs' # {}
  <2>1. UNCHANGED <<server, wired, is_run, storages, queue, acquired, driver, runs>>
    BY <1>2 DEF Drop, poolVars
  <2>2. TypeOK' /\ RefsInv' /\ TxConnectionInv' /\ ConnectingInv'
    BY <1>1, <1>2, <2>1 DEF TypeOK, RefsInv, TxConnectionInv, ConnectingInv
  <2> QED BY <1>1, <2>1, <2>2 DEF DriverOutlivesTransaction, SessionsBelongToPool
<1>3. CASE refs' = {}
  <2>1. /\ server' = "destroyed" /\ wired' = FALSE /\ is_run' = FALSE
        /\ storages' = {} /\ queue' = {} /\ acquired' = {}
        /\ driver' = Destroyed(driver, {}, connection) /\ runs' = NoRuns
    BY <1>3 DEF Drop
  <2>2. \A u \in Threads : tx[u] = "none" /\ connection[u] = NoConn
    BY <1>1, <1>3 DEF RefsInv, TxConnectionInv
  <2>3. driver' \in [Conns -> {"none", "null", "open", "closed", "destroyed"}]
    <3>1. driver \in [Conns -> {"none", "null", "open", "closed", "destroyed"}]
      BY DEF TypeOK
    <3> QED BY <2>1, <3>1, DestroyedKeeps
  <2>4. \A c \in Conns : driver'[c] # "open"
    <3>1. NoConn \notin Conns
      BY ServersAssumption
    <3> QED BY <2>1, <2>2, <3>1, DestroyedKeeps DEF TypeOK
  <2>5. TypeOK'
    BY <1>1, <1>3, <2>1, <2>3 DEF TypeOK, NoRuns, Errors
  <2>6. RefsInv' /\ TxConnectionInv' /\ ConnectingInv'
    BY <1>1, <1>3, <2>1, <2>2 DEF RefsInv, TxConnectionInv, ConnectingInv
  <2> QED BY <1>1, <2>2, <2>4, <2>5, <2>6 DEF DriverOutlivesTransaction, SessionsBelongToPool
<1> QED BY <1>2, <1>3

LEMMA TryConnectKeeps ==
  ASSUME ServersInv, NEW t \in Threads, TryConnect(t)
  PROVE  ServersInv'
<1> USE DEF ServersInv
<1>1. /\ server = "made" /\ tx[t] \in {"none", "active", "ended"}
      /\ UNCHANGED <<server, refs, wired, storages, queue, acquired, tx, connection, registered, driver,
                     answering>>
  BY DEF TryConnect, Calls, serverVars, txVars
<1>r. runs' \in [started : Nat, failed : Nat]
  BY DEF TryConnect, TypeOK
<1>2. /\ is_run' \in BOOLEAN
      /\ connecting' \in {connecting, [connecting EXCEPT ![t] = WorkerCount]}
      /\ fault' \in {fault, "bad_callback"}
  BY DEF TryConnect, TypeOK
<1>3. \/ thrown' = [thrown EXCEPT ![t] = "none"]
      \/ /\ UNCHANGED connecting
         /\ thrown' \in {thrown, [thrown EXCEPT ![t] = "InvalidArgException"]}
  BY DEF TryConnect, Returns, Throws
<1>4. \A u \in Threads : connecting[u] = 0
  BY DEF TryConnect, Calls
<1>5. TypeOK' /\ thrown' \in [Threads -> Errors]
  BY <1>1, <1>r, <1>2, <1>3, WorkerCountType DEF TypeOK, Errors
<1>6. ConnectingInv'
  BY <1>1, <1>2, <1>3, <1>4 DEF ConnectingInv, TypeOK
<1> QED BY <1>1, <1>5, <1>6
        DEF RefsInv, TxConnectionInv, DriverOutlivesTransaction, SessionsBelongToPool

LEMMA OpenNextKeeps ==
  ASSUME ServersInv, NEW t \in Threads, NEW c \in Conns, OpenNext(t, c)
  PROVE  ServersInv'
<1> USE DEF ServersInv
<1>1. /\ connecting[t] > 0 /\ server = "made" /\ driver[c] = "none"
      /\ storages' = storages \cup {c} /\ queue' = queue \cup {c}
      /\ UNCHANGED <<server, refs, wired, is_run, acquired, tx, connection, registered, answering, fault>>
  BY DEF OpenNext, serverVars, txVars, ConnectingInv
<1>2. /\ driver' \in {[driver EXCEPT ![c] = "open"], [driver EXCEPT ![c] = "null"]}
      /\ connecting' \in {[connecting EXCEPT ![t] = @ - 1], [connecting EXCEPT ![t] = 0]}
      /\ runs' \in [started : Nat, failed : Nat]
  BY DEF OpenNext, GiveUp, CreatePrimaryPgConnection, TypeOK
<1>3. \/ UNCHANGED thrown
      \/ /\ connecting' = [connecting EXCEPT ![t] = 0]
         /\ \E e \in Errors : thrown' = [thrown EXCEPT ![t] = e]
  <2>1. ASSUME NEW failure \in PqxxFailures, Throws(t, ThrownByOpen(failure))
        PROVE  \E e \in Errors : thrown' = [thrown EXCEPT ![t] = e]
    <3>1. ThrownByOpen(failure) \in Errors
      BY OpenThrows DEF Errors
    <3> QED BY <2>1, <3>1 DEF Throws
  <2> QED BY <2>1 DEF OpenNext, GiveUp
<1>4. TypeOK' /\ thrown' \in [Threads -> Errors]
  <2>1. connecting' \in [Threads -> 0..WorkerCount]
    BY <1>1, <1>2, WorkerCountType DEF TypeOK
  <2> QED BY <1>1, <1>2, <1>3, <2>1 DEF TypeOK
<1>5. \A u \in Threads : connecting'[u] > 0 => connecting[u] > 0 /\ thrown'[u] = thrown[u]
  BY <1>1, <1>2, <1>3 DEF TypeOK
<1>6. RefsInv' /\ TxConnectionInv' /\ ConnectingInv'
  BY <1>1, <1>5 DEF RefsInv, TxConnectionInv, ConnectingInv
<1>7. \A d \in Conns \ {c} : driver'[d] = driver[d]
  BY <1>2 DEF TypeOK
<1>8. DriverOutlivesTransaction'
  BY <1>1, <1>7, ServersAssumption DEF DriverOutlivesTransaction, TxConnectionInv, TypeOK
<1> QED BY <1>1, <1>4, <1>6, <1>7, <1>8 DEF SessionsBelongToPool

LEMMA ShutdownKeeps ==
  ASSUME ServersInv, NEW t \in Threads, Shutdown(t)
  PROVE  ServersInv'
<1> USE DEF ServersInv
<1>1. /\ server = "made" /\ \A u \in Threads : connecting[u] = 0
      /\ UNCHANGED <<server, refs, wired, connecting, tx, connection, registered, answering, fault>>
      /\ thrown' = [thrown EXCEPT ![t] = "none"]
  BY DEF Shutdown, Calls, serverVars, txVars, Returns
<1>2. CASE ~is_run
  <2>1. UNCHANGED <<is_run, storages, queue, acquired, driver, runs>>
    BY <1>2 DEF Shutdown, poolVars
  <2>2. TypeOK' /\ thrown' \in [Threads -> Errors]
    BY <1>1, <2>1 DEF TypeOK, Errors
  <2>3. RefsInv' /\ TxConnectionInv' /\ ConnectingInv'
    BY <1>1, <2>1 DEF RefsInv, TxConnectionInv, ConnectingInv
  <2> QED BY <1>1, <2>1, <2>2, <2>3 DEF DriverOutlivesTransaction, SessionsBelongToPool
<1>3. CASE is_run
  <2> DEFINE drivers == [c \in Conns |-> IF c \in ToClose THEN CloseImpl(c) ELSE driver[c]]
  <2>1. /\ is_run' = FALSE /\ storages' = {} /\ queue' = {} /\ acquired' = {}
        /\ runs' = NoRuns /\ driver' = Destroyed(drivers, {}, connection)
    BY <1>3 DEF Shutdown
  <2>2. /\ drivers \in [Conns -> {"none", "null", "open", "closed", "destroyed"}]
        /\ \A c \in Conns : drivers[c] # "open"
        /\ \A c \in Conns : driver[c] \in {"open", "closed"} => drivers[c] = "closed"
    BY DEF ToClose, CloseImpl, TypeOK, SessionsBelongToPool
  <2> HIDE DEF drivers
  <2>3. driver' \in [Conns -> {"none", "null", "open", "closed", "destroyed"}]
    BY <2>1, <2>2, DestroyedKeeps
  <2>4. SessionsBelongToPool'
    BY <2>1, <2>2, DestroyedKeeps DEF SessionsBelongToPool
  <2>5. DriverOutlivesTransaction'
    <3> SUFFICES ASSUME NEW u \in Threads, tx[u] \in {"active", "ended", "returned"}
                 PROVE  driver'[connection[u]] = "closed"
      BY <1>1 DEF DriverOutlivesTransaction
    <3>1. connection[u] \in Conns /\ driver[connection[u]] \in {"open", "closed"}
      BY DEF DriverOutlivesTransaction, TxConnectionInv, TypeOK
    <3> QED BY <2>1, <2>2, <3>1, DestroyedKeeps
  <2>6. TypeOK' /\ thrown' \in [Threads -> Errors]
    BY <1>1, <2>1, <2>3 DEF TypeOK, NoRuns, Errors
  <2>7. RefsInv' /\ TxConnectionInv' /\ ConnectingInv'
    BY <1>1, <2>1 DEF RefsInv, TxConnectionInv, ConnectingInv
  <2> QED BY <2>4, <2>5, <2>6, <2>7
<1> QED BY <1>2, <1>3

LEMMA GetConnectionKeeps ==
  ASSUME ServersInv, NEW t \in Threads, GetConnectionFromPool(t)
  PROVE  ServersInv'
<1> USE DEF ServersInv
<1>1. /\ t \in refs /\ server = "made" /\ tx[t] = "none"
      /\ \A u \in Threads : connecting[u] = 0
      /\ UNCHANGED <<server, refs, wired, is_run, storages, connecting, registered, driver,
                     answering, runs, fault>>
  BY DEF GetConnectionFromPool, Calls, serverVars, txVars
<1>2. CASE UNCHANGED <<queue, acquired, tx, connection>> /\ Throws(t, "TransactionException")
  <2>1. TypeOK' /\ thrown' \in [Threads -> Errors]
    BY <1>1, <1>2 DEF Throws, TypeOK, Errors
  <2> QED BY <1>1, <1>2, <2>1 DEF RefsInv, TxConnectionInv, ConnectingInv,
             DriverOutlivesTransaction, SessionsBelongToPool
<1>3. ASSUME NEW c \in queue, queue' = queue \ {c}, acquired' = acquired \cup {c},
             connection' = [connection EXCEPT ![t] = c], tx' = [tx EXCEPT ![t] = "leased"],
             thrown' = [thrown EXCEPT ![t] = "none"]
      PROVE  ServersInv'
  <2>1. TypeOK' /\ thrown' \in [Threads -> Errors]
    BY <1>1, <1>3 DEF TypeOK, Errors
  <2>2. RefsInv' /\ TxConnectionInv' /\ ConnectingInv'
    BY <1>1, <1>3, ServersAssumption DEF RefsInv, TxConnectionInv, ConnectingInv, TypeOK
  <2>3. DriverOutlivesTransaction'
    BY <1>1, <1>3 DEF DriverOutlivesTransaction, TypeOK
  <2> QED BY <1>1, <2>1, <2>2, <2>3 DEF SessionsBelongToPool
<1> QED BY <1>2, <1>3 DEF GetConnectionFromPool, Returns, txVars

\* A transaction of t ends, with or without an exception.
LEMMA TransactionGoesKeeps ==
  ASSUME ServersInv, NEW t \in Threads, tx' = [tx EXCEPT ![t] = "none"],
         connection' = [connection EXCEPT ![t] = NoConn],
         registered' \subseteq registered,
         driver' = Destroyed(driver, storages, connection'),
         UNCHANGED <<serverVars, poolVars, connecting, answering, runs, fault>>,
         \/ UNCHANGED thrown
         \/ ~(connecting[t] > 0) /\ thrown' = [thrown EXCEPT ![t] = "pqxx::failure"]
  PROVE  ServersInv'
<1> USE DEF ServersInv
<1>1. UNCHANGED <<server, refs, wired, is_run, storages, queue, acquired, connecting>>
  BY DEF serverVars, poolVars
<1>2. driver' \in [Conns -> {"none", "null", "open", "closed", "destroyed"}]
  BY DestroyedKeeps DEF TypeOK
<1>3. TypeOK' /\ thrown' \in [Threads -> Errors]
  BY <1>1, <1>2 DEF TypeOK, Errors
<1>4. RefsInv' /\ TxConnectionInv' /\ ConnectingInv'
  BY <1>1 DEF RefsInv, TxConnectionInv, ConnectingInv, TypeOK
<1>5. DriverOutlivesTransaction'
  <2> SUFFICES ASSUME NEW u \in Threads \ {t}, tx[u] \in {"active", "ended", "returned"}
               PROVE  driver'[connection'[u]] \in {"open", "closed"}
    BY DEF DriverOutlivesTransaction, TypeOK
  <2>1. /\ connection'[u] = connection[u] /\ connection[u] \in Conns
        /\ driver[connection[u]] \in {"open", "closed"}
    BY DEF DriverOutlivesTransaction, TxConnectionInv, TypeOK
  <2>2. driver \in [Conns -> {"none", "null", "open", "closed", "destroyed"}]
    BY DEF TypeOK
  <2>3. driver'[connection[u]] = driver[connection[u]]
    <3> DEFINE c == connection[u]
    <3>1. c \in Conns /\ \E v \in Threads : connection'[v] = c
      BY <2>1
    <3> HIDE DEF c
    <3>2. Destroyed(driver, storages, connection')[c] = driver[c]
      BY <3>1 DEF Destroyed
    <3> QED BY <3>2 DEF c
  <2> QED BY <2>1, <2>3
<1>6. SessionsBelongToPool'
  <2>1. \A c \in Conns : driver'[c] = "open" => driver[c] = "open"
    BY DestroyedKeeps DEF TypeOK
  <2> QED BY <1>1, <2>1 DEF SessionsBelongToPool
<1> QED BY <1>3, <1>4, <1>5, <1>6

LEMMA CreateTransactionKeeps ==
  ASSUME ServersInv, NEW t \in Threads, CreateTransaction(t)
  PROVE  ServersInv'
<1> USE DEF ServersInv
<1>1. /\ tx[t] = "leased" /\ ~(connecting[t] > 0)
      /\ UNCHANGED <<serverVars, poolVars, connecting, answering, runs>>
  BY DEF CreateTransaction, ConnectingInv
<1>2. CASE /\ driver[connection[t]] \in {"open", "closed"}
           /\ tx' = [tx EXCEPT ![t] = "active"]
           /\ registered' = registered \cup {t}
           /\ UNCHANGED <<connection, driver, thrown, fault>>
  BY <1>1, <1>2 DEF TypeOK, serverVars, poolVars, RefsInv, TxConnectionInv, ConnectingInv,
     DriverOutlivesTransaction, SessionsBelongToPool
<1>3. CASE /\ tx' = [tx EXCEPT ![t] = "none"]
           /\ connection' = [connection EXCEPT ![t] = NoConn]
           /\ driver' = Destroyed(driver, storages, connection')
           /\ Throws(t, "pqxx::failure")
           /\ UNCHANGED <<registered, fault>>
  BY <1>1, <1>3, TransactionGoesKeeps DEF Throws
<1>4. CASE fault' = "null_driver" /\ UNCHANGED <<txVars, driver, thrown>>
  BY <1>1, <1>4 DEF TypeOK, serverVars, poolVars, txVars, RefsInv, TxConnectionInv,
     ConnectingInv, DriverOutlivesTransaction, SessionsBelongToPool
<1> QED BY <1>2, <1>3, <1>4 DEF CreateTransaction

LEMMA EndTransactionKeeps ==
  ASSUME ServersInv, NEW t \in Threads, EndTransaction(t)
  PROVE  ServersInv'
<1>1. /\ tx[t] = "active" /\ tx' = [tx EXCEPT ![t] = "ended"] /\ connecting[t] = 0
      /\ registered' \subseteq registered
      /\ UNCHANGED <<serverVars, poolVars, connecting, connection, driver, answering, runs,
                     fault>>
  BY DEF EndTransaction
<1>2. thrown' \in {[thrown EXCEPT ![t] = "none"], [thrown EXCEPT ![t] = "std::runtime_error"]}
  BY DEF EndTransaction, Returns, Throws
<1>3. thrown' \in [Threads -> Errors] /\ \A u \in Threads \ {t} : thrown'[u] = thrown[u]
  BY <1>2 DEF ServersInv, Errors
<1>4. TypeOK'
  BY <1>1 DEF ServersInv, TypeOK, serverVars, poolVars
<1>5. RefsInv' /\ TxConnectionInv' /\ DriverOutlivesTransaction' /\ SessionsBelongToPool'
  BY <1>1 DEF ServersInv, TypeOK, serverVars, poolVars, RefsInv, TxConnectionInv,
              DriverOutlivesTransaction, SessionsBelongToPool
<1>6. ConnectingInv'
  BY <1>1, <1>3 DEF ServersInv, TypeOK, serverVars, ConnectingInv
<1> QED BY <1>3, <1>4, <1>5, <1>6 DEF ServersInv

LEMMA ReturnKeeps ==
  ASSUME ServersInv, NEW t \in Threads, ReturnConnectionToThePool(t)
  PROVE  ServersInv'
<1>1. /\ tx[t] \in {"active", "ended"} /\ tx' = [tx EXCEPT ![t] = "returned"]
      /\ queue' = queue \cup ({connection[t]} \cap acquired)
      /\ acquired' \subseteq acquired /\ \A u \in Threads : connecting[u] = 0
      /\ UNCHANGED <<server, refs, wired, is_run, storages, connecting, connection, registered,
                     driver, answering, thrown, runs, fault>>
  BY DEF ReturnConnectionToThePool, TakenBack, Calls, serverVars
<1> QED BY <1>1 DEF ServersInv, TypeOK, RefsInv, TxConnectionInv, ConnectingInv,
           DriverOutlivesTransaction, SessionsBelongToPool

LEMMA StutterKeeps ==
  ASSUME ServersInv, answering' \subseteq DOMAIN Grants,
         UNCHANGED <<serverVars, poolVars, connecting, txVars, driver, thrown, runs, fault>>
  PROVE  ServersInv'
BY DEF ServersInv, TypeOK, serverVars, poolVars, txVars, RefsInv, TxConnectionInv,
       ConnectingInv, DriverOutlivesTransaction, SessionsBelongToPool

LEMMA ServersInvNext == ServersInv /\ [Next]_vars => ServersInv'
<1> SUFFICES ASSUME ServersInv, [Next]_vars PROVE ServersInv'
  OBVIOUS
<1>1. ASSUME NEW t \in Threads, ThreadNext(t) PROVE ServersInv'
  <2>1. ASSUME DestroyMembers(t) PROVE ServersInv'
    BY <2>1, TransactionGoesKeeps DEF DestroyMembers
  <2> QED BY <1>1, <2>1, MakeServerKeeps, DropKeeps, ShareKeeps, TryConnectKeeps, ShutdownKeeps,
             OpenNextKeeps, GetConnectionKeeps, CreateTransactionKeeps,
             EndTransactionKeeps, ReturnKeeps
          DEF ThreadNext
<1>2. ASSUME NEW h \in DOMAIN Grants, HostChanges(h) PROVE ServersInv'
  BY <1>2, StutterKeeps DEF HostChanges, ServersInv, TypeOK
<1>3. ASSUME UNCHANGED vars PROVE ServersInv'
  BY <1>3, StutterKeeps DEF vars, ServersInv, TypeOK
<1> QED BY <1>1, <1>2, <1>3 DEF Next, Halted

-----------------------------------------------------------------------------
\* ServersInv is inductive.
THEOREM ServersInvariant == Spec => []ServersInv
BY ServersInvInit, ServersInvNext, PTL DEF Spec

\* Server, pool, threads and drivers are type correct.
THEOREM ServersTypeCorrect == Spec => []TypeOK
<1>1. ServersInv => TypeOK
  BY DEF ServersInv
<1> QED BY <1>1, ServersInvariant, PTL

\* A pqxx transaction never outlives the pqxx connection it points to, while
\* other threads shut down, connect and drop the server.
THEOREM DriversOutliveTransactions == Spec => []DriverOutlivesTransaction
<1>1. ServersInv => DriverOutlivesTransaction
  BY DEF ServersInv
<1> QED BY <1>1, ServersInvariant, PTL

\* Shutdown, and the end of the server, leave no session open.
THEOREM SessionsStayInPool == Spec => []SessionsBelongToPool
<1>1. ServersInv => SessionsBelongToPool
  BY DEF ServersInv
<1> QED BY <1>1, ServersInvariant, PTL

\* Whatever fails while TryConnect opens its connections is thrown as an
\* exception that a handler of StorageException catches.
THEOREM ConnectErrorsStayCaught == Spec => ConnectErrorsCaught
<1> DEFINE A == \A t \in Threads : connecting[t] > 0 /\ thrown'[t] # "none" =>
                  Catches("StorageException", thrown'[t])
<1>1. ServersInv /\ [Next]_vars => A \/ UNCHANGED vars
  <2> SUFFICES ASSUME ServersInv, Next, NEW t \in Threads, connecting[t] > 0,
                      thrown'[t] # "none"
               PROVE  Catches("StorageException", thrown'[t])
    OBVIOUS
  <2>1. thrown[t] = "none" /\ server = "made" /\ tx[t] # "leased" /\ thrown \in [Threads -> Errors]
    BY DEF ServersInv, ConnectingInv
  <2>2. PICK u \in Threads : ThreadNext(u)
    BY <2>1 DEF Next, HostChanges, Halted, vars
  <2>3. ASSUME Calls(u) PROVE FALSE
    BY <2>3 DEF Calls, ServersInv, TypeOK
  <2>4. ASSUME NEW c \in Conns, OpenNext(u, c) PROVE Catches("StorageException", thrown'[t])
    <3>1. PICK failure \in PqxxFailures : Throws(u, ThrownByOpen(failure))
      BY <2>1, <2>4 DEF OpenNext
    <3>2. thrown'[t] = ThrownByOpen(failure)
      BY <2>1, <3>1 DEF Throws
    <3> QED BY <3>2, OpenThrows, OpenErrorsCaught
  <2>5. ~CreateTransaction(u) /\ ~DestroyMembers(u)
    BY <2>1 DEF CreateTransaction, Throws, DestroyMembers
  <2>6. ~MakePgServer(u)
    BY <2>1 DEF MakePgServer
  <2>7. ~EndTransaction(u)
    BY <2>1 DEF EndTransaction, Returns, Throws
  <2> QED BY <2>2, <2>3, <2>4, <2>5, <2>6, <2>7
          DEF ThreadNext, Drop, Share, TryConnect, Shutdown, GetConnectionFromPool,
              ReturnConnectionToThePool
<1> QED BY <1>1, ServersInvariant, PTL DEF Spec, ConnectErrorsCaught

-----------------------------------------------------------------------------
\* A TryConnect under way is the only one, and is one of the calls that have
\* not failed; the connections it has still to open are within its share.
ConnectsInv ==
  \A t \in Threads :
    /\ Cardinality(storages) + connecting[t] <= runs.started * WorkerCount
    /\ connecting[t] > 0 =>
         /\ runs.failed < runs.started
         /\ \A u \in Threads : connecting[u] > 0 => u = t

StoredInv == \A c \in storages : driver[c] # "none"

UnopenedInv == UnopenedPerFailure /\ ConnectsInv /\ StoredInv

LEMMA StoragesFinite ==
  ASSUME TypeOK
  PROVE  /\ IsFiniteSet(storages) /\ Cardinality(storages) \in Nat
         /\ IsFiniteSet(Unopened) /\ Cardinality(Unopened) \in Nat
<1>1. IsFiniteSet(storages)
  BY ServersAssumption, FS_Subset DEF TypeOK
<1>2. IsFiniteSet(Unopened)
  BY <1>1, FS_Subset DEF Unopened
<1> QED BY <1>1, <1>2, FS_CardinalityType

LEMMA UnopenedInvInit == Init => UnopenedInv
<1> SUFFICES ASSUME Init PROVE UnopenedInv
  OBVIOUS
<1>1. /\ storages = {} /\ runs.started = 0 /\ runs.failed = 0 /\ fault = "none"
      /\ \A t \in Threads : connecting[t] = 0
  BY DEF Init, NoRuns
<1>2. Cardinality(storages) = 0 /\ Cardinality(Unopened) = 0
  <2>1. Unopened = {}
    BY <1>1 DEF Unopened
  <2> QED BY <1>1, <2>1, FS_EmptySet
<1>3. 0 * WorkerCount = 0
  BY WorkerCountType
<1> QED BY <1>1, <1>2, <1>3 DEF UnopenedInv, UnopenedPerFailure, ConnectsInv, StoredInv

\* A step that empties the pool, when nobody is in TryConnect.
LEMMA EmptiedKeepsUnopened ==
  ASSUME storages' = {}, runs' = NoRuns, fault' # "null_driver",
         \A t \in Threads : connecting'[t] = 0
  PROVE  UnopenedInv'
<1>1. runs'.started = 0 /\ runs'.failed = 0 /\ 0 * WorkerCount = 0
  BY WorkerCountType DEF NoRuns
<1>2. Cardinality(storages') = 0 /\ Cardinality(Unopened') = 0
  <2>1. Unopened' = {}
    BY DEF Unopened
  <2> QED BY <2>1, FS_EmptySet
<1> QED BY <1>1, <1>2 DEF UnopenedInv, UnopenedPerFailure, ConnectsInv, StoredInv

\* A step that leaves the pool and what it stores alone.
LEMMA UntouchedKeepsUnopened ==
  ASSUME UnopenedInv, UNCHANGED <<storages, connecting, runs>>,
         \A c \in storages : driver'[c] = driver[c],
         fault' = "null_driver" =>
           \E t \in Threads : tx'[t] = "leased" /\ driver'[connection'[t]] = "null"
  PROVE  UnopenedInv'
<1>1. Unopened' = Unopened
  BY DEF Unopened
<1> QED BY <1>1 DEF UnopenedInv, UnopenedPerFailure, ConnectsInv, StoredInv

LEMMA TryConnectKeepsUnopened ==
  ASSUME ServersInv, UnopenedInv, NEW t \in Threads, TryConnect(t)
  PROVE  UnopenedInv'
<1>1. /\ fault = "none" /\ \A u \in Threads : connecting[u] = 0
      /\ UNCHANGED <<storages, driver>> /\ fault' \in {"none", "bad_callback"}
  BY DEF TryConnect, Calls
<1>2. CASE UNCHANGED <<connecting, runs>>
  BY <1>1, <1>2, UntouchedKeepsUnopened
<1>3. CASE /\ connecting' = [connecting EXCEPT ![t] = WorkerCount]
           /\ runs' = [started |-> runs.started + 1, failed |-> runs.failed]
  <2>1. /\ runs.started \in Nat /\ runs.failed \in Nat /\ Cardinality(storages) \in Nat
        /\ connecting \in [Threads -> 0..WorkerCount]
    BY StoragesFinite DEF ServersInv, TypeOK
  <2>2. \A n \in Nat : (n + 1) * WorkerCount = n * WorkerCount + WorkerCount
    BY WorkerCountType
  <2>3. runs'.started * WorkerCount = runs.started * WorkerCount + WorkerCount
    BY <1>3, <2>1, <2>2
  <2>4. runs.started * WorkerCount \in Nat
    BY <2>1, WorkerCountType
  <2>5. Cardinality(storages) <= runs.started * WorkerCount /\ runs.failed <= runs.started
    BY DEF UnopenedInv, UnopenedPerFailure
  <2>6. \A u \in Threads : connecting'[u] = IF u = t THEN WorkerCount ELSE 0
    BY <1>1, <1>3, <2>1
  <2>7. ConnectsInv'
    BY <1>1, <1>3, <2>1, <2>3, <2>4, <2>5, <2>6, WorkerCountType DEF ConnectsInv
  <2>8. UnopenedPerFailure'
    <3>1. Unopened' = Unopened
      BY <1>1 DEF Unopened
    <3> QED BY <1>1, <1>3, <2>1, <2>3, <2>4, <2>5, <3>1, WorkerCountType
            DEF UnopenedInv, UnopenedPerFailure
  <2> QED BY <1>1, <2>7, <2>8 DEF UnopenedInv, StoredInv
<1> QED BY <1>2, <1>3 DEF TryConnect

LEMMA OpenNextKeepsUnopened ==
  ASSUME ServersInv, UnopenedInv, NEW t \in Threads, NEW c \in Conns, OpenNext(t, c)
  PROVE  UnopenedInv'
<1>1. /\ fault = "none" /\ fault' = "none" /\ connecting[t] > 0 /\ driver[c] = "none"
      /\ storages' = storages \cup {c}
  BY DEF OpenNext
<1>2. /\ runs.started \in Nat /\ runs.failed \in Nat
      /\ connecting \in [Threads -> 0..WorkerCount]
      /\ driver \in [Conns -> {"none", "null", "open", "closed", "destroyed"}]
      /\ storages \subseteq Conns
  BY DEF ServersInv, TypeOK
<1>3. c \notin storages /\ c \notin Unopened
  BY <1>1 DEF UnopenedInv, StoredInv, Unopened
<1>4. /\ Cardinality(storages) \in Nat /\ Cardinality(storages') = Cardinality(storages) + 1
      /\ Cardinality(Unopened \cup {c}) = Cardinality(Unopened) + 1
  BY <1>1, <1>3, StoragesFinite, FS_AddElement DEF ServersInv
<1>5. \A u \in Threads \ {t} : connecting[u] = 0
  BY <1>1, <1>2, WorkerCountType DEF UnopenedInv, ConnectsInv
<1>6. /\ Cardinality(storages) + connecting[t] <= runs.started * WorkerCount
      /\ runs.failed < runs.started /\ Cardinality(Unopened) = runs.failed
  BY <1>1 DEF UnopenedInv, ConnectsInv, UnopenedPerFailure
<1>7. runs.started * WorkerCount \in Nat
  BY <1>2, WorkerCountType
<1>8. CASE /\ driver' = [driver EXCEPT ![c] = "open"]
           /\ connecting' = [connecting EXCEPT ![t] = @ - 1] /\ UNCHANGED runs
  <2>1. Unopened' = Unopened
    BY <1>1, <1>2, <1>3, <1>8 DEF Unopened
  <2>2. StoredInv'
    BY <1>1, <1>2, <1>8 DEF UnopenedInv, StoredInv
  <2>3. UnopenedPerFailure'
    BY <1>1, <1>2, <1>4, <1>6, <1>7, <1>8, <2>1 DEF UnopenedPerFailure
  <2>4. \A u \in Threads : connecting'[u] = IF u = t THEN connecting[t] - 1 ELSE 0
    BY <1>2, <1>5, <1>8
  <2>5. ConnectsInv'
    BY <1>1, <1>2, <1>4, <1>6, <1>7, <1>8, <2>4, WorkerCountType DEF ConnectsInv
  <2> QED BY <2>2, <2>3, <2>5 DEF UnopenedInv
<1>9. CASE /\ driver' = [driver EXCEPT ![c] = "null"]
           /\ connecting' = [connecting EXCEPT ![t] = 0]
           /\ runs' = [started |-> runs.started, failed |-> runs.failed + 1]
  <2>1. Unopened' = Unopened \cup {c}
    BY <1>1, <1>2, <1>3, <1>9 DEF Unopened
  <2>2. StoredInv'
    BY <1>1, <1>2, <1>9 DEF UnopenedInv, StoredInv
  <2>3. runs'.started = runs.started /\ runs'.failed = runs.failed + 1
    BY <1>9
  <2>4. UnopenedPerFailure'
    BY <1>1, <1>2, <1>4, <1>6, <1>7, <2>1, <2>3, WorkerCountType
       DEF UnopenedPerFailure
  <2>5. \A u \in Threads : connecting'[u] = 0
    BY <1>2, <1>5, <1>9
  <2>6. ConnectsInv'
    BY <1>1, <1>2, <1>4, <1>6, <1>7, <2>3, <2>5 DEF ConnectsInv
  <2> QED BY <2>2, <2>4, <2>6 DEF UnopenedInv
<1> QED BY <1>8, <1>9 DEF OpenNext, GiveUp, CreatePrimaryPgConnection

LEMMA UnopenedInvNext == ServersInv /\ UnopenedInv /\ [Next]_vars => UnopenedInv'
<1> SUFFICES ASSUME ServersInv, UnopenedInv, [Next]_vars PROVE UnopenedInv'
  OBVIOUS
<1> USE DEF serverVars, poolVars, txVars
<1>1. CASE UNCHANGED vars
  BY <1>1, UntouchedKeepsUnopened DEF vars, UnopenedInv, UnopenedPerFailure
<1>2. ASSUME NEW h \in DOMAIN Grants, HostChanges(h) PROVE UnopenedInv'
  BY <1>2, UntouchedKeepsUnopened DEF HostChanges
<1>3. ASSUME NEW t \in Threads, ThreadNext(t) PROVE UnopenedInv'
  <2>1. ASSUME MakePgServer(t) PROVE UnopenedInv'
    <3>1. UNCHANGED <<storages, driver, connecting, runs>> /\ fault' # "null_driver"
      BY <2>1 DEF MakePgServer, CreatePools
    <3> QED BY <3>1, UntouchedKeepsUnopened
  <2>2. ASSUME Drop(t) PROVE UnopenedInv'
    <3>1. /\ fault' = "none" /\ UNCHANGED connecting
          /\ \A u \in Threads : connecting[u] = 0
      BY <2>2 DEF Drop, Calls
    <3>2. \/ UNCHANGED <<storages, driver, runs>>
          \/ storages' = {} /\ runs' = NoRuns
      BY <2>2 DEF Drop
    <3> QED BY <3>1, <3>2, UntouchedKeepsUnopened, EmptiedKeepsUnopened
  <2>3. ASSUME NEW u \in Threads, Share(t, u) PROVE UnopenedInv'
    BY <2>3, UntouchedKeepsUnopened DEF Share, Calls
  <2>4. ASSUME Shutdown(t) PROVE UnopenedInv'
    <3>1. /\ fault' = "none" /\ UNCHANGED connecting
          /\ \A u \in Threads : connecting[u] = 0
      BY <2>4 DEF Shutdown, Calls
    <3>2. \/ UNCHANGED <<storages, driver, runs>>
          \/ storages' = {} /\ runs' = NoRuns
      BY <2>4 DEF Shutdown
    <3> QED BY <3>1, <3>2, UntouchedKeepsUnopened, EmptiedKeepsUnopened
  <2>5. ASSUME GetConnectionFromPool(t) PROVE UnopenedInv'
    <3>1. UNCHANGED <<storages, driver, connecting, runs>> /\ fault' = "none"
      BY <2>5 DEF GetConnectionFromPool, Calls
    <3> QED BY <3>1, UntouchedKeepsUnopened
  <2>6. ASSUME ReturnConnectionToThePool(t) PROVE UnopenedInv'
    <3>1. UNCHANGED <<storages, driver, connecting, runs>> /\ fault' = "none"
      BY <2>6 DEF ReturnConnectionToThePool, Calls
    <3> QED BY <3>1, UntouchedKeepsUnopened
  <2>7. ASSUME driver' = Destroyed(driver, storages, connection'), fault' = "none",
               UNCHANGED <<storages, connecting, runs>>
        PROVE  UnopenedInv'
    <3>1. \A c \in storages : driver'[c] = driver[c]
      BY <2>7, DestroyedKeeps DEF ServersInv, TypeOK
    <3> QED BY <2>7, <3>1, UntouchedKeepsUnopened
  <2>8. ASSUME CreateTransaction(t) PROVE UnopenedInv'
    <3>1. tx[t] = "leased" /\ fault = "none" /\ UNCHANGED <<storages, connecting, runs>>
      BY <2>8 DEF CreateTransaction
    <3>2. CASE fault' = "null_driver"
      <4>1. driver[connection[t]] = "null" /\ UNCHANGED <<tx, connection, driver>>
        BY <2>8, <3>1, <3>2 DEF CreateTransaction
      <4> QED BY <3>1, <4>1, UntouchedKeepsUnopened
    <3>3. CASE UNCHANGED <<driver, fault>>
      BY <3>1, <3>3, UntouchedKeepsUnopened
    <3>4. CASE driver' = Destroyed(driver, storages, connection') /\ UNCHANGED fault
      BY <2>7, <3>1, <3>4
    <3> QED BY <2>8, <3>2, <3>3, <3>4 DEF CreateTransaction
  <2>9. ASSUME DestroyMembers(t) PROVE UnopenedInv'
    BY <2>7, <2>9 DEF DestroyMembers
  <2>10. ASSUME EndTransaction(t) PROVE UnopenedInv'
    <3>1. UNCHANGED <<storages, driver, connecting, runs>> /\ fault' = "none"
      BY <2>10 DEF EndTransaction
    <3> QED BY <3>1, UntouchedKeepsUnopened
  <2> QED BY <1>3, <2>1, <2>2, <2>3, <2>4, <2>5, <2>6, <2>8, <2>9, <2>10, TryConnectKeepsUnopened,
             OpenNextKeepsUnopened
          DEF ThreadNext
<1> QED BY <1>1, <1>2, <1>3 DEF Next, Halted

\* A TryConnect that failed and is repeated adds at most the minimum per call
\* and one connection without a driver per failure, and only those make a
\* transaction dereference a null driver.
THEOREM UnopenedArePerFailure == Spec => []UnopenedPerFailure
<1>1. Spec => []UnopenedInv
  BY UnopenedInvInit, UnopenedInvNext, ServersInvariant, PTL DEF Spec
<1>2. UnopenedInv => UnopenedPerFailure
  BY DEF UnopenedInv
<1> QED BY <1>1, <1>2, PTL

-----------------------------------------------------------------------------
LEMMA AddAppends ==
  ASSUME NEW configs, NEW config
  PROVE  Add([type |-> "Postgres", configs |-> configs], config) =
           [type |-> "Postgres", configs |-> Append(configs, config)]
<1> DEFINE list == [type |-> "Postgres", configs |-> configs]
<1>1. list \in [type : {"Postgres"}, configs : {configs}]
  OBVIOUS
<1> HIDE DEF list
<1>2. Add(list, config) = [type |-> "Postgres", configs |-> Append(configs, config)]
  BY <1>1 DEF Add
<1> QED BY <1>2 DEF list

\* The loop of CreateConfig adds every cluster, in its order.
LEMMA ConfigHasClusters == Config.clusters.configs = Clusters
<1> DEFINE Steps == 0..Len(Clusters)
           First == ClusterConfigList("Postgres")
           list == CHOOSE f : f = [n \in Steps |-> IF n = 0 THEN First
                                                   ELSE Add(f[n - 1], Clusters[n])]
           Prefix(n) == [type |-> "Postgres", configs |-> SubSeq(Clusters, 1, n)]
           prefixes == [n \in Steps |-> Prefix(n)]
<1>1. Config.clusters = list[Len(Clusters)]
  BY Zenon DEF Config, CreateConfig, PgStorageConfig, StorageConfig
<1>2. PICK R : Clusters \in Seq(R)
  BY ServersAssumption
<1>3. Prefix(0) = First
  BY <1>2 DEF ClusterConfigList
<1>4. ASSUME NEW n \in Nat, n + 1 \in Steps
      PROVE  Prefix(n + 1) = Add(Prefix(n), Clusters[n + 1])
  <2>1. n + 1 \in 1..Len(Clusters) /\ 1 \in 1..Len(Clusters) + 1
    BY <1>2, <1>4
  <2>2. SubSeq(Clusters, 1, n + 1) = SubSeq(Clusters, 1, n) \o <<Clusters[n + 1]>>
    BY <1>2, <2>1, SubSeqRecursiveSecond
  <2>3. SubSeq(Clusters, 1, n) \in Seq(R) /\ Clusters[n + 1] \in R
    BY <1>2, <1>4
  <2>4. SubSeq(Clusters, 1, n + 1) = Append(SubSeq(Clusters, 1, n), Clusters[n + 1])
    BY <2>2, <2>3, AppendIsConcat
  <2> QED BY <2>4, AddAppends
<1>5. prefixes = [n \in Steps |-> IF n = 0 THEN First
                                  ELSE Add(prefixes[n - 1], Clusters[n])]
  <2>1. ASSUME NEW n \in Steps
        PROVE  Prefix(n) = IF n = 0 THEN First ELSE Add(prefixes[n - 1], Clusters[n])
    <3>1. CASE n = 0
      BY <1>3, <3>1
    <3>2. CASE n # 0
      <4>1. n - 1 \in Nat /\ n - 1 \in Steps /\ (n - 1) + 1 = n
        BY <1>2, <3>2
      <4>2. prefixes[n - 1] = Prefix(n - 1)
        BY <4>1
      <4> HIDE DEF Prefix, prefixes, Steps
      <4>3. Prefix(n) = Add(Prefix(n - 1), Clusters[n])
        BY <1>4, <4>1
      <4> QED BY <3>2, <4>2, <4>3
    <3> QED BY <3>1, <3>2
  <2> HIDE DEF Prefix, First
  <2> QED BY <2>1
<1>6. list = [n \in Steps |-> IF n = 0 THEN First ELSE Add(list[n - 1], Clusters[n])]
  BY <1>5, Zenon
<1>7. Len(Clusters) \in Nat /\ SubSeq(Clusters, 1, Len(Clusters)) = Clusters
  BY <1>2, SubSeqFull
<1> HIDE DEF list, prefixes, First
<1>8. \A n \in Steps : list[n] = Prefix(n)
  <2> DEFINE S == {n \in Nat : n \in Steps => list[n] = Prefix(n)}
  <2>1. 0 \in S
    BY <1>3, <1>6
  <2>2. ASSUME NEW n \in Nat, n \in S PROVE n + 1 \in S
    <3> SUFFICES ASSUME n + 1 \in Steps PROVE list[n + 1] = Prefix(n + 1)
      OBVIOUS
    <3>1. n \in Steps /\ n + 1 # 0 /\ (n + 1) - 1 = n
      BY <1>7
    <3>2. list[n + 1] = Add(list[n], Clusters[n + 1])
      BY <1>6, <3>1
    <3>3. list[n] = Prefix(n)
      BY <2>2, <3>1
    <3> HIDE DEF Prefix
    <3> QED BY <1>4, <3>2, <3>3
  <2> HIDE DEF S
  <2>3. Nat \subseteq S
    BY <2>1, <2>2, Induction
  <2> QED BY <1>7, <2>3 DEF S
<1>9. list[Len(Clusters)] = Prefix(Len(Clusters))
  BY <1>7, <1>8
<1> QED BY <1>1, <1>7, <1>9

LEMMA ConnectionStringHosts ==
  /\ DOMAIN ConnectionString.hosts = DOMAIN Clusters
  /\ \A i \in DOMAIN Clusters : ConnectionString.hosts[i] = Clusters[i].host
  /\ Asked(ConnectionString) = Asked(Clusters[1])
BY ConfigHasClusters DEF ConnectionString, BuildConnectionString, Asked

\* The first host that answers grants what the clusters share.
LEMMA SharedLoginConnects ==
  ASSUME SharedLogin, NEW i \in DOMAIN Clusters, Clusters[i].host \in answering
  PROVE  OpenSucceeds
<1>1. \A j \in DOMAIN Clusters : Asked(Clusters[1]) \in Grants[Clusters[j].host]
  BY DEF SharedLogin
<1>2. PICK R : Clusters \in Seq(R)
  BY ServersAssumption
<1>3. DOMAIN Clusters = 1..Len(Clusters) /\ Len(Clusters) \in Nat
  BY <1>2
<1> DEFINE S == {j \in DOMAIN Clusters : Clusters[j].host \in answering}
<1>4. S \in SUBSET Nat /\ S # {}
  BY <1>3
<1>5. PICK first \in S : \A j \in S : first <= j
  <2> HIDE DEF S
  <2> QED BY <1>4, LeastNumber
<1>6. /\ first \in DOMAIN Clusters /\ 1 \in DOMAIN Clusters
      /\ \A j \in 1..first - 1 : j \in DOMAIN Clusters /\ Clusters[j].host \notin answering
  BY <1>3, <1>5
<1>7. /\ ConnectionString.hosts[first] \in answering
      /\ \A j \in 1..first - 1 : ConnectionString.hosts[j] \notin answering
      /\ Asked(ConnectionString) \in Grants[ConnectionString.hosts[first]]
  BY <1>1, <1>5, <1>6, ConnectionStringHosts
<1> QED BY <1>6, <1>7, ConnectionStringHosts DEF OpenSucceeds, Connects

\* While all clusters name one login and one database that every host grants,
\* a connection fails to open only when no host answers, however many clusters
\* there are.
THEOREM ConnectsFallBack == Spec => FallsBack
<1> DEFINE A == SharedLogin /\ runs'.failed > runs.failed =>
                  \A i \in DOMAIN Clusters : Clusters[i].host \notin answering
<1>1. ServersInv /\ [Next]_vars => A \/ UNCHANGED vars
  <2> SUFFICES ASSUME ServersInv, Next, SharedLogin, runs'.failed > runs.failed,
                      NEW i \in DOMAIN Clusters, Clusters[i].host \in answering
               PROVE  FALSE
    OBVIOUS
  <2>1. runs.started \in Nat /\ runs.failed \in Nat
    BY DEF ServersInv, TypeOK
  <2>2. runs' # runs /\ runs' # NoRuns
    BY <2>1 DEF NoRuns
  <2>3. PICK t \in Threads : ThreadNext(t)
    BY <2>2 DEF Next, HostChanges, Halted, vars
  <2>4. ~TryConnect(t)
    BY <2>1, <2>2 DEF TryConnect
  <2>5. PICK c \in Conns : OpenNext(t, c)
    BY <2>2, <2>3, <2>4 DEF ThreadNext, MakePgServer, Drop, Share, Shutdown,
       GetConnectionFromPool, CreateTransaction, EndTransaction, ReturnConnectionToThePool,
       DestroyMembers
  <2>6. ~OpenSucceeds
    BY <2>2, <2>5 DEF OpenNext
  <2> QED BY <2>6, SharedLoginConnects
<1> QED BY <1>1, ServersInvariant, PTL DEF Spec, FallsBack
=============================================================================
