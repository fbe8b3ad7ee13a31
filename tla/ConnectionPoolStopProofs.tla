---------------------- MODULE ConnectionPoolStopProofs ----------------------
(***************************************************************************)
(* Theorems about what Stop, a failed Run and the cleanup leave behind.    *)
(* They rest on the inductive invariant of ConnectionPoolProofs.           *)
(***************************************************************************)
EXTENDS ConnectionPoolProofs

\* Which sections run in a pool that is running.
RunningInv ==
  /\ owner \in {"stop", "close"} => ~is_run
  /\ owner \in {"run", "ping", "cleanup"} => is_run

\* An object that was not created yet was never opened or closed.
UsableInv ==
  /\ UsableConnections
  /\ \A c \in Conns \ created : driver[c] = "none"

\* A stopped pool is empty; what is open is in a node of the pool, and Stop has
\* still to close it; and a node of a running pool is queued or leased.
CleanInv ==
  /\ ~is_run /\ owner = "free" => storages = {} /\ acquired = {} /\ connections = <<>>
  /\ \A c \in Conns : driver[c] = "open" =>
       c \in storages \ null_nodes /\ (owner = "close" => c \in pending)
  /\ is_run => storages \ Standby \subseteq Queued \cup acquired

\* Without standby connections only Stop resets nodes, each one once.
NoNullInv ==
  /\ owner # "close" => null_nodes = {}
  /\ owner = "close" => pending \cap null_nodes = {}
  /\ fault # "null_connection"

StopInv ==
  /\ PoolInv /\ RunningInv /\ WaiterSurvivesStop /\ UsableInv
  /\ ~CloseFails => CleanInv
  /\ ~CloseFails /\ Standby = {} => NoNullInv

LEMMA StopInvInit == Init => StopInv
<1>1. Init => PoolInv
  BY PoolInvInit
<1>2. Init => Queued = {}
  BY EmptySeq DEF Init, Queued, Range
<1> QED BY <1>1, <1>2 DEF Init, StopInv, RunningInv, WaiterSurvivesStop, UsableInv,
       UsableConnections, CleanInv, NoNullInv

-----------------------------------------------------------------------------
\* Steps of clients, of the setters and of deadlines.
LEMMA StopInvFrame ==
  ASSUME StopInv, PoolInv', UNCHANGED <<is_run, queueVars, serverVars, owner, pending>>,
         fault' \in {fault, "bad_callback"} \/ (is_run /\ fault' = "front_of_empty_queue")
  PROVE  StopInv'
<1>1. UNCHANGED <<storages, null_nodes, acquired, connections, Queued, created, driver>>
  BY DEF queueVars, serverVars, Queued
<1>2. RunningInv' /\ WaiterSurvivesStop'
  BY DEF StopInv, RunningInv, WaiterSurvivesStop
<1>3. UsableInv'
  BY <1>1 DEF StopInv, UsableInv, UsableConnections
<1>4. ~CloseFails => CleanInv'
  BY <1>1 DEF StopInv, CleanInv
<1>5. ~CloseFails /\ Standby = {} => NoNullInv'
  BY <1>1 DEF StopInv, NoNullInv
<1> QED BY <1>2, <1>3, <1>4, <1>5 DEF StopInv

\* A client moves a connection between the queue and acquired_.
LEMMA StopInvMoves ==
  ASSUME StopInv, PoolInv', owner = "free",
         (Queued \cup acquired) = (Queued \cup acquired)',
         UNCHANGED <<is_run, storages, null_nodes, serverVars, owner, pending, fault>>,
         ~is_run /\ storages = {} => connections' = <<>> /\ acquired' = {}
  PROVE  StopInv'
<1>1. UNCHANGED <<created, driver>>
  BY DEF serverVars
<1>2. UsableInv'
  BY <1>1 DEF StopInv, UsableInv, UsableConnections
<1>3. ~CloseFails => CleanInv'
  BY <1>1 DEF StopInv, CleanInv
<1> QED BY <1>2, <1>3 DEF StopInv, RunningInv, WaiterSurvivesStop, NoNullInv

LEMMA StopInvClient ==
  ASSUME StopInv, PoolInv', NEW t \in Clients, Acquire(t) \/ Resume(t) \/ Return(t)
  PROVE  StopInv'
<1>1. /\ owner = "free" /\ UNCHANGED <<is_run, storages, null_nodes, serverVars, owner, pending>>
  BY DEF Acquire, Resume, Return, loopVars, Unlocked, Holds
<1>2. connections \in Seq(Conns) /\ acquired \subseteq storages /\ acquired \subseteq Conns
  BY DEF StopInv, PoolInv, TypeOK, NodesValid
<1>3. CASE UNCHANGED <<acquired, connections>>
  <2>1. fault' = fault \/ (is_run /\ fault' = "front_of_empty_queue")
    BY DEF Acquire, Resume, Return, AfterWait, Refuse, TakeFront, Undefined
  <2> QED BY <1>1, <1>3, <2>1, StopInvFrame DEF queueVars
<1>4. CASE connections # <<>> /\ TakeFront(t)
  <2>1. /\ acquired' = acquired \cup {Head(connections)} /\ connections' = Tail(connections)
        /\ UNCHANGED fault
    BY <1>4 DEF TakeFront
  <2>2. Queued = Queued' \cup {Head(connections)}
    BY <1>2, <1>4, <2>1, PopElements DEF Queued
  <2>3. Head(connections) \in storages
    BY <1>2, <1>4, PopElements DEF StopInv, PoolInv, NodesValid, Queued
  <2>4. (Queued \cup acquired) = (Queued \cup acquired)'
    BY <2>1, <2>2
  <2> QED BY <1>1, <2>1, <2>3, <2>4, StopInvMoves
<1>5. ASSUME NEW n \in acquired, connections' = Append(connections, n),
             acquired' = acquired \ {n}, UNCHANGED fault
      PROVE  StopInv'
  <2>1. Queued' = Queued \cup {n} /\ n \in storages
    BY <1>2, <1>5, PushElements DEF Queued
  <2>2. (Queued \cup acquired) = (Queued \cup acquired)'
    BY <1>5, <2>1
  <2> QED BY <1>1, <1>5, <2>1, <2>2, StopInvMoves
<1> QED BY <1>3, <1>4, <1>5
        DEF Acquire, Resume, Return, AfterWait, Refuse, TakeFront, Originated, EraseAcquired

\* Steps that take or free the mutex and leave the containers alone.
LEMMA StopInvSection ==
  ASSUME StopInv, PoolInv', UNCHANGED <<queueVars, serverVars, pending, fault>>,
         \/ Run \/ RunDone \/ PingDone \/ CleanupDone
         \/ \E k \in {"ping", "cleanup"} : Enter(k)
  PROVE  StopInv'
<1>1. UNCHANGED <<storages, null_nodes, acquired, connections, Queued, created, driver>>
  BY DEF queueVars, serverVars, Queued
<1>2. /\ owner \notin {"stop", "close"} /\ owner' \notin {"stop", "close"}
      /\ owner' \in {"run", "ping", "cleanup"} => is_run'
      /\ \/ UNCHANGED is_run /\ (owner' = "free" => owner = "free" \/ is_run)
         \/ is_run' /\ owner = "free"
  BY DEF Run, RunDone, PingDone, CleanupDone, Enter, Unlocked, Holds, StopInv, RunningInv
<1>3. RunningInv' /\ WaiterSurvivesStop'
  BY <1>2 DEF StopInv, RunningInv, WaiterSurvivesStop
<1>4. UsableInv'
  BY <1>1 DEF StopInv, UsableInv, UsableConnections
<1>5. ~CloseFails => CleanInv'
  BY <1>1, <1>2 DEF StopInv, CleanInv
<1>6. ~CloseFails /\ Standby = {} => NoNullInv'
  BY <1>1, <1>2 DEF StopInv, NoNullInv
<1> QED BY <1>3, <1>4, <1>5, <1>6 DEF StopInv

\* Run stores and queues a connection, whether it opens or not.
LEMMA StopInvInitialize ==
  ASSUME StopInv, PoolInv', NEW c \in Conns, InitializePrimaryConnection(c)
  PROVE  StopInv'
<1>1. /\ owner = "run" /\ owner' \in {"run", "free"} /\ is_run /\ is_run'
      /\ c \notin created /\ created' = created \cup {c} /\ fault' = fault
      /\ UNCHANGED <<null_nodes, acquired, pending>>
  BY DEF InitializePrimaryConnection, RunThrows, Holds, StopInv, RunningInv
<1>2. connections \in Seq(Conns) /\ driver \in [Conns -> {"none", "open", "closed"}]
      /\ null_nodes \subseteq storages /\ storages \subseteq created
      /\ Queued \cup acquired \subseteq storages
  BY DEF StopInv, PoolInv, TypeOK, NodesValid, StoragesInv
<1>3. RunningInv' /\ WaiterSurvivesStop'
  BY <1>1 DEF RunningInv, WaiterSurvivesStop
<1>4. ~CloseFails /\ Standby = {} => NoNullInv'
  BY <1>1 DEF StopInv, NoNullInv
<1>5. CASE UNCHANGED <<storages, connections, driver>>
  <2>1. UsableInv'
    BY <1>1, <1>5 DEF StopInv, UsableInv, UsableConnections, Queued
  <2>2. ~CloseFails => CleanInv'
    BY <1>1, <1>5 DEF StopInv, CleanInv, Queued
  <2> QED BY <1>3, <1>4, <2>1, <2>2 DEF StopInv
<1>6. CASE /\ storages' = storages \cup {c} /\ connections' = Append(connections, c)
           /\ \/ driver' = [driver EXCEPT ![c] = "open"]
              \/ OpenFails /\ UNCHANGED driver
  <2>1. Queued' = Queued \cup {c}
    BY <1>2, <1>6, PushElements DEF Queued
  <2>2. UsableInv'
    <3>1. driver'[c] # "closed" /\ (OpenFails \/ driver'[c] = "open")
      BY <1>1, <1>2, <1>6 DEF StopInv, UsableInv
    <3>2. \A d \in Conns \ {c} : driver'[d] = driver[d]
      BY <1>2, <1>6
    <3>3. Queued \cup acquired \subseteq Conns \ {c}
      BY <1>1, <1>2 DEF StopInv, PoolInv, TypeOK
    <3>4. UsableConnections'
      BY <1>1, <2>1, <3>1, <3>2, <3>3 DEF StopInv, UsableInv, UsableConnections
    <3> QED BY <1>1, <3>2, <3>4 DEF StopInv, UsableInv
  <2>3. ~CloseFails => CleanInv'
    BY <1>1, <1>2, <1>6, <2>1 DEF StopInv, CleanInv
  <2> QED BY <1>3, <1>4, <2>2, <2>3 DEF StopInv
<1> QED BY <1>5, <1>6 DEF InitializePrimaryConnection

LEMMA StopInvStop ==
  ASSUME StopInv, PoolInv', Stop
  PROVE  StopInv'
<1>1. /\ owner = "free" /\ owner' = "stop" /\ is_run /\ ~is_run' /\ acquired' = {} /\ fault = "none"
      /\ UNCHANGED <<storages, null_nodes, connections, pending, created, driver, fault>>
  BY DEF Stop, Unlocked, Holds, Alive, serverVars
<1>2. UsableInv'
  BY <1>1 DEF StopInv, UsableInv, UsableConnections, Queued
<1> QED BY <1>1, <1>2 DEF StopInv, RunningInv, WaiterSurvivesStop, CleanInv, NoNullInv

LEMMA StopInvServices ==
  ASSUME StopInv, PoolInv', StopServices
  PROVE  StopInv'
<1>1. /\ owner = "stop" /\ owner' = "close" /\ pending' = storages /\ fault = "none"
      /\ connections' = <<>> /\ acquired = {}
      /\ UNCHANGED <<is_run, storages, null_nodes, acquired, created, driver, fault>>
  BY DEF StopServices, PopAll, ToClose, Holds, Alive, serverVars, StopInv, PoolInv, SectionInv
<1>2. Queued' = {}
  BY <1>1, EmptySeq DEF Queued, Range
<1>3. UsableInv'
  BY <1>1, <1>2 DEF StopInv, UsableInv, UsableConnections
<1>4. ~CloseFails => CleanInv'
  BY <1>1 DEF StopInv, RunningInv, CleanInv
<1>5. ~CloseFails /\ Standby = {} => NoNullInv'
  BY <1>1 DEF StopInv, NoNullInv
<1> QED BY <1>1, <1>3, <1>4, <1>5 DEF StopInv, RunningInv, WaiterSurvivesStop

LEMMA StopInvClose ==
  ASSUME StopInv, PoolInv', NEW n \in Conns, StopClose(n)
  PROVE  StopInv'
<1>1. /\ owner = "close" /\ ~is_run /\ n \in pending /\ fault = "none"
      /\ acquired = {} /\ Queued = {} /\ n \in created
      /\ UNCHANGED <<is_run, storages, acquired, connections, Queued, created>>
  <2>1. owner = "close" /\ n \in pending /\ fault = "none"
        /\ UNCHANGED <<is_run, storages, acquired, connections, created>>
    BY DEF StopClose, Holds, Alive
  <2>2. connections = <<>> /\ acquired = {} /\ pending \subseteq created /\ ~is_run
    BY <2>1 DEF StopInv, PoolInv, SectionInv, StoragesInv, RunningInv
  <2>3. Queued = {}
    BY <2>2, EmptySeq DEF Queued, Range
  <2> QED BY <2>1, <2>2, <2>3 DEF Queued
<1>2. driver \in [Conns -> {"none", "open", "closed"}]
  BY DEF StopInv, PoolInv, TypeOK
<1>3. CASE n \in null_nodes /\ fault' = "null_connection"
           /\ UNCHANGED <<driver, null_nodes, pending, owner>>
  <2>1. UsableInv'
    BY <1>1, <1>3 DEF StopInv, UsableInv, UsableConnections
  <2>2. ~CloseFails => CleanInv'
    BY <1>1, <1>3 DEF StopInv, CleanInv
  <2>3. ~(~CloseFails /\ Standby = {})
    BY <1>1, <1>3 DEF StopInv, NoNullInv
  <2> QED BY <1>1, <1>3, <2>1, <2>2, <2>3 DEF StopInv, RunningInv, WaiterSurvivesStop
<1>4. CASE /\ n \notin null_nodes /\ driver' = [driver EXCEPT ![n] = Closed(n)]
           /\ null_nodes' = null_nodes \cup {n} /\ pending' = pending \ {n}
           /\ UNCHANGED <<owner, fault>>
  <2>1. driver'[n] # "open" /\ \A c \in Conns \ {n} : driver'[c] = driver[c]
    BY <1>2, <1>4 DEF Closed
  <2>2. UsableInv'
    BY <1>1, <2>1 DEF StopInv, UsableInv, UsableConnections
  <2>3. ~CloseFails => CleanInv'
    BY <1>1, <1>4, <2>1 DEF StopInv, CleanInv
  <2>4. ~CloseFails /\ Standby = {} => NoNullInv'
    BY <1>1, <1>4 DEF StopInv, NoNullInv
  <2> QED BY <1>1, <1>4, <2>2, <2>3, <2>4 DEF StopInv, RunningInv, WaiterSurvivesStop
<1>5. CASE CloseFails /\ owner' = "free" /\ UNCHANGED <<driver, fault>>
  <2>1. UsableInv'
    BY <1>1, <1>5 DEF StopInv, UsableInv, UsableConnections
  <2> QED BY <1>1, <1>5, <2>1 DEF StopInv, RunningInv, WaiterSurvivesStop
<1> QED BY <1>3, <1>4, <1>5 DEF StopClose, Undefined

LEMMA StopInvDone ==
  ASSUME StopInv, PoolInv', StopDone
  PROVE  StopInv'
<1>1. /\ owner = "close" /\ owner' = "free" /\ ~is_run /\ pending = {} /\ fault = "none"
      /\ connections = <<>> /\ acquired = {} /\ storages' = {} /\ null_nodes' = {}
      /\ UNCHANGED <<is_run, acquired, connections, pending, created, driver, fault>>
  BY DEF StopDone, ClearStorages, Holds, Alive, serverVars, StopInv, RunningInv, PoolInv,
         SectionInv
<1>2. UsableInv'
  BY <1>1 DEF StopInv, UsableInv, UsableConnections, Queued
<1>3. ~CloseFails => CleanInv'
  BY <1>1 DEF StopInv, CleanInv
<1> QED BY <1>1, <1>2, <1>3 DEF StopInv, RunningInv, WaiterSurvivesStop, NoNullInv

\* The loops of PingService and CleanupService: a connection goes from the front
\* to the back, or is a standby one that is dropped.
LEMMA StopInvLoops ==
  ASSUME StopInv, PoolInv', PingNext \/ CleanupNext
  PROVE  StopInv'
<1>1. /\ owner \in {"ping", "cleanup"} /\ is_run /\ todo > 0 /\ fault = "none"
      /\ connections \in Seq(Conns) /\ todo <= Len(connections) /\ IsInjective(connections)
      /\ driver \in [Conns -> {"none", "open", "closed"}]
      /\ Queued \cap acquired = {} /\ Queued \subseteq created
      /\ UNCHANGED <<is_run, storages, acquired, pending, created, fault>>
  BY DEF PingNext, CleanupNext, Remaining, Holds, Alive, serverVars, StopInv, RunningInv,
         PoolInv, TypeOK, SectionInv, NodesValid, StoragesInv
<1>2. connections # <<>>
  BY <1>1, EmptySeq, LenProperties DEF StopInv, PoolInv, TypeOK
<1>3. CASE Rotate /\ UNCHANGED <<null_nodes, driver, owner>>
  <2>1. Queued' = Queued
    BY <1>1, <1>2, <1>3, RotateElements DEF Rotate, Queued
  <2>2. UsableInv'
    BY <1>1, <1>3, <2>1 DEF StopInv, UsableInv, UsableConnections
  <2>3. ~CloseFails => CleanInv'
    BY <1>1, <1>3, <2>1 DEF StopInv, CleanInv
  <2> QED BY <1>1, <1>3, <2>2, <2>3 DEF StopInv, RunningInv, WaiterSurvivesStop, NoNullInv
<1>4. CASE /\ Head(connections) \in Standby /\ connections' = Tail(connections)
           /\ \/ /\ driver' = ReleaseImpl(Head(connections)) /\ owner' = owner
                 /\ null_nodes' = null_nodes \cup {Head(connections)}
              \/ CloseFails /\ owner' = "free" /\ UNCHANGED <<driver, null_nodes>>
  <2> DEFINE n == Head(connections)
  <2>1. n \in Conns /\ n \in Queued /\ Queued = Queued' \cup {n} /\ n \notin Queued'
    BY <1>1, <1>2, <1>4, PopElements DEF Queued
  <2>2. n \in Standby
    BY <1>4
  <2> HIDE DEF n
  <2>3. /\ \A c \in Conns \ {n} : driver'[c] = driver[c]
        /\ driver'[n] \in {driver[n], "none"}
        /\ ~CloseFails => driver'[n] = "none" /\ null_nodes' = null_nodes \cup {n}
                          /\ owner' = owner
    BY <1>1, <1>4, <2>1 DEF ReleaseImpl, n
  <2>4. UsableInv'
    <3>1. \A c \in (Queued \cup acquired)' : c # n /\ c \in Queued \cup acquired /\ c \in Conns
      BY <1>1, <2>1 DEF StopInv, PoolInv, TypeOK
    <3>2. UsableConnections'
      BY <2>3, <3>1 DEF StopInv, UsableInv, UsableConnections
    <3> QED BY <1>1, <2>1, <2>3, <3>2 DEF StopInv, UsableInv
  <2>5. ~CloseFails => CleanInv'
    BY <1>1, <2>1, <2>2, <2>3 DEF StopInv, CleanInv
  <2>6. owner' \in {owner, "free"}
    BY <1>4
  <2> QED BY <1>1, <2>2, <2>4, <2>5, <2>6 DEF StopInv, RunningInv, WaiterSurvivesStop
<1>5. CASE PingNext
  BY <1>3, <1>5 DEF PingNext, serverVars
<1>6. CASE CleanupNext
  BY <1>3, <1>4, <1>6 DEF CleanupNext
<1> QED BY <1>5, <1>6

LEMMA StopInvNext == StopInv /\ [Next]_vars => StopInv'
<1> SUFFICES ASSUME StopInv, [Next]_vars PROVE StopInv'
  OBVIOUS
<1>p. PoolInv'
  BY PoolInvNext DEF StopInv
<1>1. ASSUME \/ \E t \in Clients : Expire(t)
             \/ SetPrimaryConnectionCallback \/ RemovePrimaryConnectionCallback
             \/ CallBadCallback
             \/ \E k \in {"ping", "cleanup"} : Fire(k)
             \/ UNCHANGED vars
      PROVE  StopInv'
  <2>1. UNCHANGED <<is_run, queueVars, serverVars, owner, pending>>
        /\ fault' \in {fault, "bad_callback"}
    BY <1>1 DEF Expire, SetPrimaryConnectionCallback, CallBadCallback, Undefined,
                RemovePrimaryConnectionCallback, Fire, vars, loopVars, queueVars, serverVars
  <2> QED BY <1>p, <2>1, StopInvFrame
<1>2. ASSUME \/ Run \/ RunDone \/ PingDone \/ CleanupDone
             \/ \E k \in {"ping", "cleanup"} : Enter(k)
      PROVE  StopInv'
  <2>1. UNCHANGED <<queueVars, serverVars, pending, fault>>
    BY <1>2 DEF Run, RunDone, PingDone, CleanupDone, Enter
  <2> QED BY <1>2, <1>p, <2>1, StopInvSection
<1> QED
  BY <1>p, <1>1, <1>2, StopInvClient, StopInvInitialize, StopInvStop, StopInvServices,
     StopInvClose, StopInvDone, StopInvLoops
  DEF Next, ClientNext, AdminNext, LoopNext, Halted

-----------------------------------------------------------------------------
\* StopInv is inductive.
THEOREM StopInvariant == Spec => []StopInv
BY StopInvInit, StopInvNext, PTL DEF Spec

\* While the pool runs, what it opened is in the queue or leased, if closing
\* does not throw: nothing that Acquire, Return, PingService, CleanupService or
\* a Run that failed do loses a connection, whatever its hash.
THEOREM ConnectionsNeverLost == Spec => []NoConnectionLost
<1>1. StopInv => NoConnectionLost
  BY DEF StopInv, CleanInv, NoConnectionLost
<1> QED BY <1>1, StopInvariant, PTL

\* A Stop that returns leaves an empty pool and no open connection, also after
\* a Run that failed half way.
THEOREM StopResets == Spec => []StopResetsPool
<1>1. StopInv => StopResetsPool
  BY DEF StopInv, PoolInv, StoragesInv, CleanInv, StopResetsPool
<1> QED BY <1>1, StopInvariant, PTL

\* Stop dereferences no reset node, without standby connections.
THEOREM StopFinds == Spec => []StopFindsConnections
<1>1. StopInv => StopFindsConnections
  BY DEF StopInv, NoNullInv, StopFindsConnections
<1> QED BY <1>1, StopInvariant, PTL

\* A thread that waited while the pool was stopped does not read its queue.
THEOREM WaitersSurviveStop == Spec => []WaiterSurvivesStop
<1>1. StopInv => WaiterSurvivesStop
  BY DEF StopInv
<1> QED BY <1>1, StopInvariant, PTL

\* What a client can lease is not closed, and was opened unless Open failed.
THEOREM ConnectionsStayUsable == Spec => []UsableConnections
<1>1. StopInv => UsableConnections
  BY DEF StopInv, UsableInv
<1> QED BY <1>1, StopInvariant, PTL
=============================================================================
