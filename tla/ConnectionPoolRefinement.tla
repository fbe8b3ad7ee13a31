---------------------- MODULE ConnectionPoolRefinement ----------------------
(***************************************************************************)
(* The pool implements ConnectionLeases, if no two connections draw the    *)
(* same hash, and hence leases each connection to one client.              *)
(***************************************************************************)
EXTENDS ConnectionPoolProofs

Abstract == INSTANCE ConnectionLeasesProofs WITH
  offered <- created, free <- Queued, lent <- acquired, held <- lease

DistinctHashes == IsInjective(Hash)

\* A client inside Acquire has no connection.
CallInv == \A t \in Clients : call[t] # "idle" => lease[t] = NoConn

LEMMA CallInvNext == PoolInv /\ CallInv /\ [Next]_vars => CallInv'
<1> SUFFICES ASSUME PoolInv, CallInv, [Next]_vars, NEW u \in Clients, call'[u] # "idle"
             PROVE  lease'[u] = NoConn
  BY DEF CallInv
<1> USE DEF CallInv, clientVars
<1>t. TypeOK
  BY DEF PoolInv
<1>1. ASSUME NEW t \in Clients, Acquire(t) \/ Resume(t) PROVE lease'[u] = NoConn
  <2>1. lease[t] = NoConn
    BY <1>1, <1>t DEF Acquire, Resume
  <2> QED BY <1>1, <1>t, <2>1
          DEF Acquire, Resume, AfterWait, Refuse, TakeFront, Undefined, TypeOK
<1>2. ASSUME NEW t \in Clients, Return(t) PROVE lease'[u] = NoConn
  BY <1>2, <1>t DEF Return, Signal, Waiting, TypeOK
<1>3. ASSUME NEW t \in Clients, Expire(t) PROVE lease'[u] = NoConn
  BY <1>3, <1>t DEF Expire, TypeOK
<1>4. ASSUME RunDone \/ PingDone PROVE lease'[u] = NoConn
  BY <1>4, <1>t DEF RunDone, PingDone, SignalAll, Waiting, TypeOK
<1>5. ASSUME UNCHANGED clientVars PROVE lease'[u] = NoConn
  BY <1>5
<1>6. ASSUME AdminNext \/ LoopNext \/ Halted \/ UNCHANGED vars, ~RunDone, ~PingDone
      PROVE  UNCHANGED clientVars
  BY <1>6 DEF AdminNext, LoopNext, Halted, vars, SetPrimaryConnectionCallback,
     RemovePrimaryConnectionCallback, Run, CallBadCallback,
     InitializePrimaryConnection, Stop, StopServices, StopDone, StopClose, Fire, Enter,
     PingNext, CleanupNext, CleanupDone
<1> QED BY <1>1, <1>2, <1>3, <1>4, <1>5, <1>6 DEF Next, ClientNext

LEMMA InitImplements == Init => Leases!LeasesInit
<1>1. Range(<<>>) = {}
  BY EmptySeq, LenProperties DEF Range
<1> QED BY <1>1 DEF Init, Leases!LeasesInit, Queued

\* Each step of the pool is a step of ConnectionLeases, or changes nothing there.
LEMMA StepImplements ==
  ASSUME DistinctHashes, PoolInv, PoolInv', CallInv, [Next]_vars
  PROVE  [Leases!LeasesNext]_(Leases!leaseVars)
<1> DEFINE Stutter == UNCHANGED <<created, Queued, acquired, lease>>
           Goal == Leases!LeasesNext \/ Stutter
<1> SUFFICES Goal
  BY DEF Leases!leaseVars
<1> USE DEF Remaining, queueVars, loopVars, clientVars, serverVars
<1>t. TypeOK /\ TypeOK' /\ NodesValid /\ StoragesInv /\ connections \in Seq(Conns)
  BY DEF PoolInv, TypeOK
<1>1. ASSUME NEW t \in Clients, Acquire(t) \/ Resume(t) PROVE Goal
  <2>1. CASE UNCHANGED <<acquired, connections, lease>>
    BY <1>1, <2>1 DEF Acquire, Resume, Queued
  <2>2. CASE connections # <<>> /\ TakeFront(t)
    <3> DEFINE c == Head(connections)
    <3>1. connections' = Tail(connections) /\ acquired' = acquired \cup {c}
          /\ lease' = [lease EXCEPT ![t] = c]
      BY <2>2 DEF TakeFront
    <3>2. c \in Queued /\ c \in Conns /\ Queued' = Queued \ {c}
      <4>1. /\ c \in Range(connections) /\ c \in Conns
            /\ Range(connections) = Range(Tail(connections)) \cup {c}
            /\ c \notin Range(Tail(connections))
        BY <1>t, <2>2, PopElements DEF NodesValid
      <4> QED BY <3>1, <4>1 DEF Queued
    <3>3. lease[t] = NoConn /\ UNCHANGED created
      BY <1>1 DEF Acquire, Resume, CallInv
    <3>4. Leases!Take(t, c)
      BY <3>1, <3>2, <3>3 DEF Leases!Take
    <3> QED BY <3>2, <3>4 DEF Leases!LeasesNext
  <2> QED BY <1>1, <2>1, <2>2 DEF Acquire, Resume, AfterWait, Refuse, TakeFront
<1>2. ASSUME NEW t \in Clients, Return(t) PROVE Goal
  <2> DEFINE c == lease[t]
  <2>1. c \in Conns /\ c # NoConn /\ UNCHANGED created
        /\ lease' = [lease EXCEPT ![t] = NoConn]
    BY <1>2, <1>t DEF Return, TypeOK
  <2>2. Originated(c) = {c} \cap acquired
    BY <1>t, <2>1, PoolAssumption DEF Originated, DistinctHashes, IsInjective, TypeOK
  <2>3. CASE c \in acquired
    <3>1. connections' = Append(connections, c) /\ acquired' = acquired \ {c}
      BY <1>2, <2>2, <2>3 DEF Return, EraseAcquired
    <3>2. Queued' = Queued \cup {c}
      BY <1>t, <2>1, <3>1, PushElements DEF Queued
    <3> QED BY <2>1, <2>3, <3>1, <3>2 DEF Leases!GiveBack, Leases!LeasesNext
  <2>4. CASE c \notin acquired
    <3>1. UNCHANGED <<connections, acquired>>
      BY <1>2, <2>2, <2>4 DEF Return
    <3> QED BY <2>1, <2>4, <3>1 DEF Leases!GiveBack, Leases!LeasesNext, Queued
  <2> QED BY <2>3, <2>4
<1>3. ASSUME NEW c \in Conns, InitializePrimaryConnection(c) PROVE Goal
  <2>1. c \notin created /\ created' = created \cup {c} /\ UNCHANGED <<acquired, lease>>
    BY <1>3 DEF InitializePrimaryConnection
  <2>2. ~Collides(c)
    BY <1>t, <2>1, PoolAssumption
    DEF Collides, DistinctHashes, IsInjective, StoragesInv, TypeOK
  <2>3. connections' = Append(connections, c)
    BY <1>3, <2>2 DEF InitializePrimaryConnection
  <2>4. Queued' = Queued \cup {c}
    BY <1>t, <2>3, PushElements DEF Queued
  <2> QED BY <2>1, <2>4 DEF Leases!Offer, Leases!LeasesNext
<1>4. ASSUME Queued' \subseteq Queued, acquired' \subseteq acquired, UNCHANGED <<created, lease>>
      PROVE  Goal
  BY <1>4 DEF Leases!Withdraw, Leases!LeasesNext
<1>5. ASSUME Stop \/ StopServices PROVE Goal
  <2>1. Range(<<>>) = {}
    BY EmptySeq, LenProperties DEF Range
  <2> QED BY <1>4, <1>5, <2>1 DEF Stop, StopServices, PopAll, Queued
<1>6. ASSUME PingNext \/ CleanupNext PROVE Goal
  <2>1. connections # <<>>
    BY <1>6, <1>t, EmptySeq DEF PoolInv, SectionInv, PingNext, CleanupNext, Holds, TypeOK
  <2>2. /\ Range(Append(Tail(connections), Head(connections))) \subseteq Queued
        /\ Range(Tail(connections)) \subseteq Queued
    BY <1>t, <2>1, RotateElements, PopElements DEF Queued
  <2>3. Queued' \subseteq Queued
    BY <1>6, <2>2 DEF PingNext, CleanupNext, Rotate, Queued
  <2>4. acquired' = acquired /\ UNCHANGED <<created, lease>>
    BY <1>6 DEF PingNext, CleanupNext
  <2> QED BY <1>4, <2>3, <2>4
<1>7. ASSUME \/ \E t \in Clients : Expire(t)
             \/ SetPrimaryConnectionCallback \/ RemovePrimaryConnectionCallback
             \/ Run \/ CallBadCallback \/ RunDone \/ StopDone
             \/ \E n \in Conns : StopClose(n)
             \/ \E k \in {"ping", "cleanup"} : Fire(k) \/ Enter(k)
             \/ PingDone \/ CleanupDone \/ UNCHANGED vars
      PROVE  Goal
  <2>1. UNCHANGED <<created, connections, acquired, lease>>
    BY <1>7 DEF Expire, SetPrimaryConnectionCallback, RemovePrimaryConnectionCallback,
       Run, CallBadCallback, RunDone, StopDone, StopClose, Fire, Enter, PingDone,
       CleanupDone, vars
  <2> QED BY <2>1 DEF Queued
<1> QED
  BY <1>1, <1>2, <1>3, <1>5, <1>6, <1>7
  DEF Next, ClientNext, AdminNext, LoopNext, Halted

\* Clients of the pool can rely on ConnectionLeases, whatever fails in Run, Stop
\* or the cleanup and however the calls interleave.
THEOREM PoolImplementsLeases == DistinctHashes => (Spec => ImplementsLeases)
<1> SUFFICES ASSUME DistinctHashes PROVE Spec => ImplementsLeases
  OBVIOUS
<1>1. Init => PoolInv /\ CallInv /\ Leases!LeasesInit
  BY PoolInvInit, InitImplements DEF Init, CallInv
<1>2. PoolInv /\ CallInv /\ [Next]_vars
        => PoolInv' /\ CallInv' /\ [Leases!LeasesNext]_(Leases!leaseVars)
  BY PoolInvNext, CallInvNext, StepImplements
<1> QED BY <1>1, <1>2, PTL DEF Spec, ImplementsLeases, Leases!LeasesSpec

\* No connection of the pool serves two clients or is queued while a client
\* holds it, and acquired_ names only connections that a client holds.
THEOREM LeasesAreExclusive == DistinctHashes => (Spec => []ExclusiveLease)
<1> SUFFICES ASSUME DistinctHashes PROVE Spec => []ExclusiveLease
  OBVIOUS
<1>1. Spec => Leases!LeasesSpec
  BY PoolImplementsLeases DEF ImplementsLeases
<1>2. Leases!LeasesInit => Abstract!LeasesInv
  <2>1. Leases!LeasesInit => Abstract!LeasesInit
    BY DEF Leases!LeasesInit, Abstract!LeasesInit
  <2> QED BY <2>1, Abstract!LeasesInvInit, PoolAssumption
<1>3. Abstract!LeasesInv /\ [Leases!LeasesNext]_(Leases!leaseVars) => Abstract!LeasesInv'
  <2>1. [Leases!LeasesNext]_(Leases!leaseVars) => [Abstract!LeasesNext]_(Abstract!leaseVars)
    BY DEF Leases!LeasesNext, Leases!leaseVars, Leases!Offer, Leases!Take,
       Leases!GiveBack, Leases!Withdraw, Abstract!LeasesNext, Abstract!leaseVars,
       Abstract!Offer, Abstract!Take, Abstract!GiveBack, Abstract!Withdraw
  <2> QED BY <2>1, Abstract!LeasesInvNext, PoolAssumption
<1>4. Abstract!LeasesInv => ExclusiveLease
  BY DEF Abstract!LeasesInv, Abstract!LeasesExclusive, ExclusiveLease
<1> QED BY <1>1, <1>2, <1>3, <1>4, PTL DEF Leases!LeasesSpec
=============================================================================
