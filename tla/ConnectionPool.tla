--------------------------- MODULE ConnectionPool ---------------------------
(***************************************************************************)
(* The connection pool shared by every thread of a program that uses NvQL  *)
(* (connection_pool.cc).  Application threads lease a connection with      *)
(* Acquire and give it back with Return, some thread calls Run and Stop,   *)
(* and an event loop fires PingService and CleanupService at intervals.    *)
(*                                                                         *)
(* Everything but the two callback setters runs under mutex_main_.  A      *)
(* locked section that touches one connection is one step here.  The       *)
(* sections that loop over connections (Run, Stop, PingService and         *)
(* CleanupService) take one step per iteration with the mutex held         *)
(* ("owner"), so that they can be cut short by an exception or, in Stop,   *)
(* block on the event loop while every other thread waits.                 *)
(*                                                                         *)
(* A node of connection_storages_ is named by the connection it was        *)
(* created with; is_ready_ is left out because nothing reads it.           *)
(***************************************************************************)
EXTENDS Naturals, Sequences, FiniteSets, Functions

CONSTANTS
  Clients,        \* application threads; each leases one connection at a time
  Conns,          \* connection objects the program may create (a bound)
  NoConn,         \* nullptr
  Hash,           \* GetHash() of each object: the hash of a random 32-bit draw
  Standby,        \* objects created in ConnectionStandbyMode::Standby
  MinConnection,  \* ConnectionPoolConfig::MinConnection()
  MaxConnection,  \* the maximum the pool was configured with
  OpenFails,      \* Open() may throw ConnectionException
  CloseFails,     \* Close() may throw ConnectionException
  StopJoins       \* EventLoopExecutor::Stop() waits for the task in progress

ASSUME PoolAssumption ==
  /\ NoConn \notin Conns
  /\ DOMAIN Hash = Conns
  /\ Standby \subseteq Conns
  /\ MinConnection \in Nat
  /\ MaxConnection \in Nat
  /\ {OpenFails, CloseFails, StopJoins} \subseteq BOOLEAN

VARIABLES
  callback,     \* create_primary_connection_callback_
  is_run,       \* is_run_
  storages,     \* nodes of connection_storages_
  null_nodes,   \* nodes whose ConnectionPtr was reset
  acquired,     \* nodes in acquired_
  connections,  \* connections_, the queue of nodes that can be leased
  owner,        \* who holds mutex_main_ between two steps
  todo,         \* iterations left in the loop of the owner
  pending,      \* nodes that Stop has still to close
  services,     \* services_, the event loop
  tasks,        \* interval tasks that wait for mutex_main_
  call,         \* where each client is in Acquire
  lease,        \* the connection each client got from Acquire
  created,      \* objects created so far
  driver,       \* PgConnection::conn_ of each object
  fault         \* the undefined operation the program ran into

vars == <<callback, is_run, storages, null_nodes, acquired, connections, owner,
          todo, pending, services, tasks, call, lease, created, driver, fault>>

queueVars  == <<storages, null_nodes, acquired, connections>>
loopVars   == <<owner, todo, pending>>
clientVars == <<call, lease>>
serverVars == <<created, driver>>

Queued == Range(connections)

Waiting == {t \in Clients : call[t] = "waiting"}

\* DEFAULT_WORKER_MINIMAL stands in for a configured minimum of 0.
WorkerCount == IF MinConnection = 0 THEN 1 ELSE MinConnection

(***************************************************************************)
(* The constructor leaves is_run_ and the callback uninitialised.          *)
(***************************************************************************)
Init ==
  /\ callback = "indeterminate"
  /\ is_run \in BOOLEAN
  /\ storages = {} /\ null_nodes = {} /\ acquired = {} /\ connections = <<>>
  /\ owner = "free" /\ todo = 0 /\ pending = {}
  /\ services = "none" /\ tasks = {}
  /\ call = [t \in Clients |-> "idle"]
  /\ lease = [t \in Clients |-> NoConn]
  /\ created = {}
  /\ driver = [c \in Conns |-> "none"]
  /\ fault = "none"

\* C++ gives the program no meaning after undefined behaviour (a fault, or a
\* stale node handed out again): the model stops at the operation.
Undefined(what) == fault' = what

\* The program has a meaning, and who holds mutex_main_.
Alive == fault = "none"
Holds(section) == Alive /\ owner = section
Unlocked == Holds("free")

(***************************************************************************)
(* The condition variable cv_main_ (absl::CondVar).                        *)
(***************************************************************************)
\* Signal wakes one waiter, if there is one.
Signal ==
  \/ Waiting = {} /\ UNCHANGED call
  \/ \E u \in Waiting : call' = [call EXCEPT ![u] = "signalled"]

SignalAll ==
  call' = [t \in Clients |-> IF t \in Waiting THEN "signalled" ELSE call[t]]

\* Mutant: Wait without a deadline.
ExpireNever(t) == FALSE /\ UNCHANGED vars

\* The deadline passes.  WaitWithDeadline then returns true, also when a signal
\* arrives before the thread has the mutex again.
Expire(t) ==
  /\ Alive
  /\ call[t] \in {"waiting", "signalled"}
  /\ call' = [call EXCEPT ![t] = "expired"]
  /\ UNCHANGED <<callback, is_run, queueVars, loopVars, services, tasks, lease,
                 serverVars, fault>>

(***************************************************************************)
(* Acquire.                                                                *)
(***************************************************************************)
\* "return nullptr"
Refuse(t) ==
  /\ call' = [call EXCEPT ![t] = "idle"]
  /\ UNCHANGED <<acquired, connections, lease, fault>>

\* From connections_.front() to the end of Acquire.
TakeFront(t) ==
  \/ /\ connections # <<>>
     /\ acquired' = acquired \cup {Head(connections)}
     /\ connections' = Tail(connections)
     /\ lease' = [lease EXCEPT ![t] = Head(connections)]
     /\ call' = [call EXCEPT ![t] = "idle"]
     /\ UNCHANGED fault
  \/ /\ connections = <<>>
     /\ Undefined("front_of_empty_queue")
     /\ UNCHANGED <<acquired, connections, lease, call>>

\* Mutant: no look at is_run_ after the wait.
AfterWaitUnchecked(t) == TakeFront(t)

AfterWait(t) ==
  \/ ~is_run /\ Refuse(t)
  \/ is_run /\ TakeFront(t)

Acquire(t) ==
  /\ Unlocked
  /\ call[t] = "idle" /\ lease[t] = NoConn
  /\ \/ /\ connections = <<>> /\ is_run
        /\ call' = [call EXCEPT ![t] = "waiting"]
        /\ UNCHANGED <<acquired, connections, lease, fault>>
     \/ /\ ~(connections = <<>> /\ is_run)
        /\ AfterWait(t)
  /\ UNCHANGED <<callback, is_run, storages, null_nodes, loopVars, services,
                 tasks, serverVars>>

\* WaitWithDeadline returned: false if the thread was signalled, true if the
\* deadline passed.  The code takes false for a timeout.
Resume(t) ==
  /\ Unlocked
  /\ \/ call[t] = "signalled" /\ Refuse(t)
     \/ call[t] = "expired" /\ AfterWait(t)
  /\ UNCHANGED <<callback, is_run, storages, null_nodes, loopVars, services,
                 tasks, serverVars>>

(***************************************************************************)
(* Return.                                                                 *)
(***************************************************************************)
\* Mutant: the connection is taken back without a look at acquired_.
OriginatedUnchecked(c) == {c}

Originated(c) == {n \in acquired : Hash[n] = Hash[c]}

\* Mutant: the entry of the returned connection is not erased.
EraseNothing(n) == UNCHANGED acquired

EraseAcquired(n) == acquired' = acquired \ {n}

\* The connection is looked up in acquired_ by its hash.  The client drops its
\* reference whatever the result is.
Return(t) ==
  /\ Unlocked
  /\ lease[t] # NoConn
  /\ \/ \E n \in Originated(lease[t]) :
          /\ connections' = Append(connections, n)
          /\ EraseAcquired(n)
          /\ Signal
     \/ Originated(lease[t]) = {} /\ UNCHANGED <<connections, acquired, call>>
  /\ lease' = [lease EXCEPT ![t] = NoConn]
  /\ UNCHANGED <<callback, is_run, storages, null_nodes, loopVars, services,
                 tasks, serverVars, fault>>

(***************************************************************************)
(* The callback setters, which do not lock.                                *)
(***************************************************************************)
SetPrimaryConnectionCallback ==
  /\ Alive
  /\ callback # "set"
  /\ callback' = "set"
  /\ UNCHANGED <<is_run, queueVars, loopVars, services, tasks, clientVars,
                 serverVars, fault>>

RemovePrimaryConnectionCallback ==
  /\ Alive
  /\ callback # "null"
  /\ callback' = "null"
  /\ UNCHANGED <<is_run, queueVars, loopVars, services, tasks, clientVars,
                 serverVars, fault>>

(***************************************************************************)
(* Run.  A null callback makes it throw before it changes anything; an     *)
(* uninitialised one may read as null too.                                 *)
(***************************************************************************)
Run ==
  /\ Unlocked
  /\ callback # "null"
  /\ Cardinality(Conns \ created) >= WorkerCount  \* bound: objects left to create
  /\ is_run' = TRUE
  /\ owner' = "run"
  /\ todo' = WorkerCount
  /\ UNCHANGED <<callback, queueVars, pending, services, tasks, clientVars,
                 serverVars, fault>>

\* Mutant: the loops run once too often.
RemainingOneMore == todo >= 0

\* The loop of the owner has iterations left.
Remaining == todo > 0

\* Mutant: the mutex is locked without a guard, and an exception leaves it so.
RunThrowsLocked == owner' = "left_locked" /\ todo' = 0

\* An exception leaves RunImpl: the guard unlocks, nothing else is undone.
RunThrows == owner' = "free" /\ todo' = 0

Collides(c) == \E n \in storages : Hash[n] = Hash[c]

\* One iteration of InitializePrimaryConnections.
InitializePrimaryConnection(c) ==
  /\ Holds("run") /\ Remaining
  /\ callback = "set"
  /\ c \in Conns \ created
  /\ created' = created \cup {c}
  /\ \/ /\ Collides(c)      \* emplace inserts nothing: BadAllocationException
        /\ RunThrows
        /\ UNCHANGED <<storages, connections, driver>>
     \/ /\ ~Collides(c)
        /\ storages' = storages \cup {c}
        /\ connections' = Append(connections, c)
        /\ \/ /\ driver' = [driver EXCEPT ![c] = "open"]
              /\ todo' = todo - 1 /\ UNCHANGED owner
           \/ /\ OpenFails  \* the node stays stored and queued
              /\ RunThrows /\ UNCHANGED driver
  /\ UNCHANGED <<callback, is_run, null_nodes, acquired, pending, services,
                 tasks, clientVars, fault>>

\* The loop calls the callback without checking it again.
CallBadCallback ==
  /\ Holds("run") /\ Remaining
  /\ callback # "set"
  /\ Undefined("bad_callback")
  /\ UNCHANGED <<callback, is_run, queueVars, loopVars, services, tasks,
                 clientVars, serverVars>>

\* InitializeServices and the rest of RunImpl.  Whether a stopped executor runs
\* tasks again is not visible in this code.
RunDone ==
  /\ Holds("run") /\ todo = 0
  /\ services' \in (IF services = "stopped" THEN {"running", "stopped"}
                                            ELSE {"running"})
  /\ SignalAll
  /\ owner' = "free"
  /\ UNCHANGED <<callback, is_run, queueVars, todo, pending, tasks, lease,
                 serverVars, fault>>

(***************************************************************************)
(* Stop.  It returns at once when the pool does not run.                   *)
(***************************************************************************)
Stop ==
  /\ Unlocked
  /\ is_run
  /\ is_run' = FALSE
  /\ acquired' = {}
  /\ owner' = "stop"
  /\ services' = "stopped"
  /\ UNCHANGED <<callback, storages, null_nodes, connections, todo, pending,
                 tasks, clientVars, serverVars, fault>>

\* Mutant: the loop that empties the queue stops one short.
PopAllButOne ==
  connections' = IF connections = <<>> THEN <<>> ELSE <<connections[Len(connections)]>>

PopAll == connections' = <<>>

\* Mutant: only the connections of the queue are closed.
ToCloseQueued == Queued

ToClose == storages

\* services_.Stop() returns, and the queue is emptied.
StopServices ==
  /\ Holds("stop")
  /\ StopJoins => tasks = {}
  /\ PopAll
  /\ owner' = "close"
  /\ pending' = ToClose
  /\ UNCHANGED <<callback, is_run, storages, null_nodes, acquired, todo,
                 services, tasks, clientVars, serverVars, fault>>

Closed(n) == IF driver[n] = "open" THEN "closed" ELSE driver[n]

\* One iteration of the loop that closes all connections, in any order.
StopClose(n) ==
  /\ Holds("close") /\ n \in pending
  /\ \/ /\ n \in null_nodes
        /\ Undefined("null_connection")
        /\ UNCHANGED <<driver, null_nodes, pending, owner>>
     \/ /\ n \notin null_nodes
        /\ driver' = [driver EXCEPT ![n] = Closed(n)]
        /\ null_nodes' = null_nodes \cup {n}
        /\ pending' = pending \ {n}
        /\ UNCHANGED <<owner, fault>>
     \/ /\ n \notin null_nodes
        /\ CloseFails /\ driver[n] = "open"
        /\ owner' = "free"  \* the exception leaves StopImpl
        /\ pending' = {}
        /\ UNCHANGED <<driver, null_nodes, fault>>
  /\ UNCHANGED <<callback, is_run, storages, acquired, connections, todo,
                 services, tasks, clientVars, created>>

\* Mutant: connection_storages_ is not cleared.
KeepStorages == UNCHANGED <<storages, null_nodes>>

ClearStorages == storages' = {} /\ null_nodes' = {}

StopDone ==
  /\ Holds("close") /\ pending = {}
  /\ ClearStorages
  /\ owner' = "free"
  /\ UNCHANGED <<callback, is_run, acquired, connections, todo, pending,
                 services, tasks, clientVars, serverVars, fault>>

(***************************************************************************)
(* The event loop starts a task, which then needs the mutex.               *)
(***************************************************************************)
Fire(k) ==
  /\ Alive
  /\ services = "running"
  /\ k \notin tasks
  /\ tasks' = tasks \cup {k}
  /\ UNCHANGED <<callback, is_run, queueVars, loopVars, services, clientVars,
                 serverVars, fault>>

\* PingService and CleanupService up to their loops.
Enter(k) ==
  /\ Unlocked
  /\ k \in tasks
  /\ tasks' = tasks \ {k}
  /\ IF is_run /\ (k = "cleanup" => connections # <<>>)
     THEN owner' = k /\ todo' = Len(connections)
     ELSE UNCHANGED <<owner, todo>>
  /\ UNCHANGED <<callback, is_run, queueVars, pending, services, clientVars,
                 serverVars, fault>>

\* Mutant: the connection is taken from the queue and not put back.
RotateDrops == connections' = Tail(connections)

Rotate == connections' = Append(Tail(connections), Head(connections))

\* Mutant: the loop reads connections_.size() again at each iteration.
RereadSize == todo' = Len(connections')

NextIteration == todo' = todo - 1

PingNext ==
  /\ Holds("ping") /\ Remaining
  /\ Rotate
  /\ NextIteration
  /\ UNCHANGED <<callback, is_run, storages, null_nodes, acquired, owner,
                 pending, services, tasks, clientVars, serverVars, fault>>

PingDone ==
  /\ Holds("ping") /\ todo = 0
  /\ SignalAll
  /\ owner' = "free"
  /\ UNCHANGED <<callback, is_run, queueVars, todo, pending, services, tasks,
                 lease, serverVars, fault>>

\* It closes the session, if there is one, and forgets it.
ReleaseImpl(n) == [driver EXCEPT ![n] = "none"]

\* The front connection is kept, or released when it is standby and idle.  How
\* long it has been idle is left open.
CleanupNext ==
  /\ Holds("cleanup") /\ Remaining
  /\ LET n == Head(connections) IN
       \/ /\ Rotate
          /\ NextIteration
          /\ UNCHANGED <<null_nodes, driver, owner>>
       \/ /\ n \in Standby
          /\ connections' = Tail(connections)
          /\ driver' = ReleaseImpl(n)
          /\ null_nodes' = null_nodes \cup {n}
          /\ NextIteration
          /\ UNCHANGED owner
       \/ /\ n \in Standby
          /\ CloseFails /\ driver[n] = "open"
          /\ connections' = Tail(connections)
          /\ owner' = "free" /\ todo' = 0
          /\ UNCHANGED <<driver, null_nodes>>
  /\ UNCHANGED <<callback, is_run, storages, acquired, pending, services, tasks,
                 clientVars, created, fault>>

CleanupDone ==
  /\ Holds("cleanup") /\ todo = 0
  /\ owner' = "free"
  /\ UNCHANGED <<callback, is_run, queueVars, todo, pending, services, tasks,
                 clientVars, serverVars, fault>>

-----------------------------------------------------------------------------
ClientNext(t) == Acquire(t) \/ Expire(t) \/ Resume(t) \/ Return(t)

AdminNext ==
  \/ SetPrimaryConnectionCallback \/ RemovePrimaryConnectionCallback
  \/ Run \/ CallBadCallback \/ RunDone
  \/ \E c \in Conns : InitializePrimaryConnection(c)
  \/ Stop \/ StopServices \/ StopDone
  \/ \E n \in Conns : StopClose(n)

LoopNext ==
  \/ \E k \in {"ping", "cleanup"} : Fire(k) \/ Enter(k)
  \/ PingNext \/ PingDone
  \/ CleanupNext \/ CleanupDone

Halted == ~Alive /\ UNCHANGED vars

Next ==
  \/ \E t \in Clients : ClientNext(t)
  \/ AdminNext \/ LoopNext \/ Halted

Spec == Init /\ [][Next]_vars

(***************************************************************************)
(* Fairness.  A thread inside a locked section runs on; deadlines pass; a  *)
(* thread that asks for the mutex again and again while it is free gets it *)
(* in the end.  Nobody is obliged to call the pool, and the event loop may *)
(* stop firing.                                                            *)
(***************************************************************************)
InLockedSection ==
  \/ CallBadCallback \/ RunDone \/ \E c \in Conns : InitializePrimaryConnection(c)
  \/ StopServices \/ StopDone \/ \E n \in Conns : StopClose(n)
  \/ PingNext \/ PingDone \/ CleanupNext \/ CleanupDone

Fairness ==
  /\ WF_vars(InLockedSection)
  /\ \A t \in Clients : /\ WF_vars(Expire(t))
                        /\ SF_vars(Resume(t))

FairSpec == Spec /\ Fairness

-----------------------------------------------------------------------------
(***************************************************************************)
(* Properties.                                                             *)
(***************************************************************************)
TypeOK ==
  /\ callback \in {"indeterminate", "null", "set"}
  /\ is_run \in BOOLEAN
  /\ storages \subseteq Conns /\ null_nodes \subseteq Conns
  /\ acquired \subseteq Conns /\ connections \in Seq(Conns)
  /\ owner \in {"free", "run", "stop", "close", "ping", "cleanup"}
  /\ todo \in Nat /\ pending \subseteq Conns
  /\ services \in {"none", "running", "stopped"}
  /\ tasks \subseteq {"ping", "cleanup"}
  /\ call \in [Clients -> {"idle", "waiting", "signalled", "expired"}]
  /\ lease \in [Clients -> Conns \cup {NoConn}]
  /\ created \subseteq Conns
  /\ driver \in [Conns -> {"none", "open", "closed"}]
  /\ fault \in {"none", "front_of_empty_queue", "bad_callback", "null_connection"}

\* The raw node pointers in connections_ and acquired_ point into
\* connection_storages_, at nodes that still hold a connection, and no node is
\* in both or twice in the queue: whatever Run, Stop, Return and the cleanup
\* do to the three containers, in any order and when they fail half way.
NodesValid ==
  /\ Queued \cup acquired \subseteq storages \ null_nodes
  /\ Queued \cap acquired = {}
  /\ IsInjective(connections)
  /\ \A m, n \in storages : Hash[m] = Hash[n] => m = n

\* No connection serves two clients (Acquire, Return), and a client that still
\* holds one from before a Stop cannot give it to the pool that was started
\* again.  acquired_ names no connection that nobody holds.  It takes distinct
\* hashes: a connection with the hash of a leased one is taken for it.
ExclusiveLease ==
  /\ \A t, u \in Clients :
       lease[t] # NoConn /\ lease[t] = lease[u] => t = u
  /\ \A t \in Clients : lease[t] \notin Queued
  /\ acquired \subseteq {lease[t] : t \in Clients}

\* No connection is lost: while the pool runs and no task holds it, each
\* connection it opened is in the queue or leased (Acquire, Return and the
\* pop and push of PingService and CleanupService).  A connection that cannot
\* be released and standby connections, which cleanup drops, are exempt.
NoConnectionLost ==
  is_run /\ ~CloseFails => storages \ Standby \subseteq Queued \cup acquired

\* What a client can get from Acquire was opened and not closed since, also
\* after a Stop that closed only some connections and a new Run.
UsableConnections ==
  \A n \in Queued \cup acquired :
    /\ driver[n] # "closed"
    /\ OpenFails \/ driver[n] = "open"

\* Stop takes the pool back to its initial state, with every connection closed,
\* leased or not, after a Run that failed half way as well.
StopResetsPool ==
  ~is_run /\ owner = "free" /\ ~CloseFails =>
    /\ storages = {} /\ null_nodes = {} /\ acquired = {} /\ connections = <<>>
    /\ \A c \in Conns : driver[c] # "open"

\* A thread that waited in Acquire while the pool was stopped does not touch
\* the queue that Stop has emptied.
WaiterSurvivesStop == fault = "front_of_empty_queue" => is_run

\* Stop dereferences no node whose connection was reset: cleanup resets standby
\* connections only, and a Stop that completes leaves no node behind.
StopFindsConnections ==
  Standby = {} /\ ~CloseFails => fault # "null_connection"

\* Seen from its clients, and with distinct hashes, the pool with its queue,
\* its lock and its tasks behaves as ConnectionLeases says.
Leases == INSTANCE ConnectionLeases WITH
  offered <- created, free <- Queued, lent <- acquired, held <- lease

ImplementsLeases == Leases!LeasesSpec

\* Every call of Acquire comes back: with a connection, with nullptr, or with
\* the undefined operation.
AcquireReturns ==
  \A t \in Clients : call[t] # "idle" ~> call[t] = "idle" \/ ~Alive

\* No locked section keeps the mutex for ever (the loops of Run, Stop,
\* PingService and CleanupService end, whatever is thrown in them), if the
\* event loop stops without waiting for a task that waits for the mutex.
MutexReleased == owner # "free" ~> owner = "free" \/ ~Alive

-----------------------------------------------------------------------------
(***************************************************************************)
(* What the code's comments and the README say and the code does not do.   *)
(***************************************************************************)
\* connection_pool.cc:100, "If empty wait until connection returned at least
\* one", and :112, "Timed out": a waiter that is woken while a connection is
\* queued gets it, and one that times out on an empty queue gets nullptr.
WaitHonoured ==
  [][\A t \in Clients :
       /\ call[t] = "signalled" /\ call'[t] = "idle" /\ is_run /\ connections # <<>>
            => lease'[t] # NoConn
       /\ call[t] = "expired" /\ Alive => fault' # "front_of_empty_queue"]_vars

\* README.md, "Connection pool with 5 connections standby, max 10 connections":
\* a client of a running pool waits only when the maximum is leased.
WaitsOnlyAtMaximum ==
  [][\A t \in Clients :
       services = "running" /\ call[t] = "idle" /\ call'[t] = "waiting"
         => Cardinality(acquired) >= MaxConnection]_vars
=============================================================================
