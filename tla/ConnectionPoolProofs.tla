------------------------ MODULE ConnectionPoolProofs ------------------------
(***************************************************************************)
(* Theorems about ConnectionPool for any number of clients and             *)
(* connections and every combination of failures.                          *)
(***************************************************************************)
EXTENDS ConnectionPool, SequenceTheorems, TLAPS

-----------------------------------------------------------------------------
(***************************************************************************)
(* The queue: what push and pop do to its elements.                        *)
(***************************************************************************)
\* Pushing a new element adds it and keeps the elements distinct.
LEMMA PushElements ==
  ASSUME NEW S, NEW s \in Seq(S), NEW c \in S
  PROVE  /\ Append(s, c) \in Seq(S)
         /\ Range(Append(s, c)) = Range(s) \cup {c}
         /\ IsInjective(s) /\ c \notin Range(s) => IsInjective(Append(s, c))
<1>1. /\ Append(s, c) \in Seq(S)
      /\ Len(Append(s, c)) = Len(s) + 1
      /\ \A i \in 1..Len(s) : Append(s, c)[i] = s[i]
      /\ Append(s, c)[Len(s) + 1] = c
  BY AppendProperties
<1>2. /\ Len(s) \in Nat
      /\ DOMAIN s = 1..Len(s)
      /\ DOMAIN Append(s, c) = 1..(Len(s) + 1)
  BY <1>1, LenProperties
<1>3. Range(Append(s, c)) = Range(s) \cup {c}
  BY <1>1, <1>2 DEF Range
<1>4. IsInjective(s) /\ c \notin Range(s) => IsInjective(Append(s, c))
  BY <1>1, <1>2 DEF Range, IsInjective
<1> QED BY <1>1, <1>3, <1>4

\* Popping removes exactly the front when the elements are distinct, and never
\* adds an element.
LEMMA PopElements ==
  ASSUME NEW S, NEW s \in Seq(S), s # <<>>
  PROVE  /\ Head(s) \in Range(s) /\ Head(s) \in S
         /\ Tail(s) \in Seq(S)
         /\ Len(Tail(s)) = Len(s) - 1
         /\ Range(Tail(s)) \subseteq Range(s)
         /\ Range(s) = Range(Tail(s)) \cup {Head(s)}
         /\ IsInjective(s) => /\ IsInjective(Tail(s))
                              /\ Head(s) \notin Range(Tail(s))
<1>1. /\ Head(s) \in S
      /\ Tail(s) \in Seq(S)
      /\ Len(Tail(s)) = Len(s) - 1
      /\ \A i \in 1..Len(Tail(s)) : Tail(s)[i] = s[i + 1]
  BY HeadTailProperties
<1>2. /\ Len(s) \in Nat \ {0}
      /\ DOMAIN s = 1..Len(s)
      /\ DOMAIN Tail(s) = 1..(Len(s) - 1)
      /\ Head(s) = s[1]
  BY <1>1, LenProperties, EmptySeq
<1>3. Head(s) \in Range(s)
  BY <1>2 DEF Range
<1>4. Range(Tail(s)) \subseteq Range(s)
  BY <1>1, <1>2 DEF Range
<1>5. Range(s) \subseteq Range(Tail(s)) \cup {Head(s)}
  <2> SUFFICES ASSUME NEW i \in 1..Len(s), i # 1
               PROVE  s[i] \in Range(Tail(s))
    BY <1>2 DEF Range
  <2>1. i - 1 \in 1..(Len(s) - 1) /\ i = (i - 1) + 1
    BY <1>2
  <2>2. Tail(s)[i - 1] = s[i]
    BY <1>1, <2>1
  <2> QED BY <1>2, <2>1, <2>2 DEF Range
<1>6. IsInjective(s) => IsInjective(Tail(s))
  BY <1>1, <1>2 DEF IsInjective
<1>7. IsInjective(s) => Head(s) \notin Range(Tail(s))
  BY <1>1, <1>2 DEF IsInjective, Range
<1> QED BY <1>1, <1>3, <1>4, <1>5, <1>6, <1>7

\* Taking the front and putting it at the back changes no element.
LEMMA RotateElements ==
  ASSUME NEW S, NEW s \in Seq(S), s # <<>>
  PROVE  LET r == Append(Tail(s), Head(s)) IN
         /\ r \in Seq(S)
         /\ Len(r) = Len(s)
         /\ Range(r) = Range(s)
         /\ IsInjective(s) => IsInjective(r)
<1>1. /\ Head(s) \in S /\ Tail(s) \in Seq(S)
      /\ Len(Tail(s)) = Len(s) - 1
      /\ Range(s) = Range(Tail(s)) \cup {Head(s)}
      /\ IsInjective(s) => IsInjective(Tail(s)) /\ Head(s) \notin Range(Tail(s))
  BY PopElements
<1>2. Len(Append(Tail(s), Head(s))) = Len(s)
  BY <1>1, AppendProperties, LenProperties
<1>3. /\ Append(Tail(s), Head(s)) \in Seq(S)
      /\ Range(Append(Tail(s), Head(s))) = Range(Tail(s)) \cup {Head(s)}
      /\ IsInjective(Tail(s)) /\ Head(s) \notin Range(Tail(s))
           => IsInjective(Append(Tail(s), Head(s)))
  BY <1>1, PushElements
<1> QED BY <1>1, <1>2, <1>3

-----------------------------------------------------------------------------
(***************************************************************************)
(* The inductive invariant.  NodesValid is not inductive by itself: the    *)
(* loops of PingService and CleanupService must not run past the queue     *)
(* they started with, and Stop must have emptied acquired_ and the queue   *)
(* before it resets nodes.                                                 *)
(***************************************************************************)
StoragesInv == null_nodes \subseteq storages /\ storages \subseteq created

SectionInv ==
  /\ owner \in {"stop", "close"} => acquired = {}
  /\ owner = "close" => connections = <<>> /\ pending \subseteq storages
  /\ owner \in {"ping", "cleanup"} => todo <= Len(connections)

PoolInv == TypeOK /\ NodesValid /\ StoragesInv /\ SectionInv

LEMMA WorkerCountType == WorkerCount \in Nat \ {0}
BY PoolAssumption DEF WorkerCount

LEMMA PoolInvInit == Init => PoolInv
<1> SUFFICES ASSUME Init PROVE PoolInv
  OBVIOUS
<1>1. connections \in Seq(Conns) /\ Len(connections) = 0 /\ DOMAIN connections = {}
  BY EmptySeq, LenProperties DEF Init
<1>2. TypeOK
  BY <1>1 DEF Init, TypeOK
<1>3. NodesValid
  BY <1>1 DEF Init, NodesValid, Queued, Range, IsInjective
<1> QED BY <1>2, <1>3 DEF Init, PoolInv, StoragesInv, SectionInv

(***************************************************************************)
(* Types.                                                                  *)
(***************************************************************************)
LEMMA SignalTypes ==
  ASSUME TypeOK
  PROVE  /\ Signal => call' \in [Clients -> {"idle", "waiting", "signalled", "expired"}]
         /\ SignalAll => call' \in [Clients -> {"idle", "waiting", "signalled", "expired"}]
BY DEF TypeOK, Signal, SignalAll, Waiting

LEMMA TypeOKNext == PoolInv /\ [Next]_vars => TypeOK'
<1> SUFFICES ASSUME PoolInv, [Next]_vars PROVE TypeOK'
  OBVIOUS
<1> USE PoolAssumption DEF Remaining, queueVars, loopVars, clientVars, serverVars
<1>0. TypeOK /\ (owner \in {"ping", "cleanup"} => todo <= Len(connections))
  BY DEF PoolInv, SectionInv
<1>1. ASSUME NEW t \in Clients, TakeFront(t), UNCHANGED <<callback, is_run, storages,
             null_nodes, loopVars, services, tasks, serverVars>>
      PROVE  TypeOK'
  <2>1. CASE connections # <<>>
    <3>1. /\ Head(connections) \in Conns /\ connections' \in Seq(Conns)
          /\ acquired' \subseteq Conns
      BY <1>0, <1>1, <2>1, PopElements DEF TakeFront, TypeOK
    <3> QED BY <1>0, <1>1, <2>1, <3>1 DEF TakeFront, TypeOK
  <2>2. CASE connections = <<>>
    BY <1>0, <1>1, <2>2 DEF TakeFront, Undefined, TypeOK
  <2> QED BY <2>1, <2>2
<1>2. ASSUME NEW t \in Clients, Acquire(t) \/ Resume(t) PROVE TypeOK'
  <2>1. CASE TakeFront(t)
    BY <1>1, <1>2, <2>1 DEF Acquire, Resume
  <2>2. CASE Refuse(t)
    BY <1>0, <1>2, <2>2 DEF Acquire, Resume, Refuse, TypeOK
  <2>3. CASE call' = [call EXCEPT ![t] = "waiting"]
             /\ UNCHANGED <<acquired, connections, lease, fault>>
    BY <1>0, <1>2, <2>3 DEF Acquire, Resume, TypeOK
  <2> QED BY <1>2, <2>1, <2>2, <2>3 DEF Acquire, Resume, AfterWait
<1>3. ASSUME NEW t \in Clients, Expire(t) PROVE TypeOK'
  BY <1>0, <1>3 DEF Expire, TypeOK
<1>4. ASSUME NEW t \in Clients, Return(t) PROVE TypeOK'
  <2>1. connections' \in Seq(Conns) /\ acquired' \subseteq Conns
    BY <1>0, <1>4, PushElements DEF Return, Originated, EraseAcquired, TypeOK
  <2>2. call' \in [Clients -> {"idle", "waiting", "signalled", "expired"}]
    BY <1>0, <1>4, SignalTypes DEF Return, TypeOK
  <2> QED BY <1>0, <1>4, <2>1, <2>2 DEF Return, TypeOK
<1>5. ASSUME SetPrimaryConnectionCallback \/ RemovePrimaryConnectionCallback
      PROVE TypeOK'
  BY <1>0, <1>5
  DEF SetPrimaryConnectionCallback, RemovePrimaryConnectionCallback, TypeOK
<1>6. ASSUME Run PROVE TypeOK'
  BY <1>0, <1>6, WorkerCountType DEF Run, TypeOK
<1>7. ASSUME CallBadCallback PROVE TypeOK'
  BY <1>0, <1>7 DEF CallBadCallback, Undefined, TypeOK
<1>8. ASSUME RunDone \/ PingDone PROVE TypeOK'
  <2>1. call' \in [Clients -> {"idle", "waiting", "signalled", "expired"}]
    BY <1>0, <1>8, SignalTypes DEF RunDone, PingDone
  <2> QED BY <1>0, <1>8, <2>1 DEF RunDone, PingDone, TypeOK
<1>9. ASSUME NEW c \in Conns, InitializePrimaryConnection(c) PROVE TypeOK'
  <2>1. connections' \in Seq(Conns)
    BY <1>0, <1>9, PushElements DEF InitializePrimaryConnection, TypeOK
  <2> QED BY <1>0, <1>9, <2>1 DEF InitializePrimaryConnection, RunThrows, TypeOK
<1>10. ASSUME Stop \/ StopServices \/ StopDone PROVE TypeOK'
  <2>1. CASE Stop
    BY <1>0, <2>1 DEF Stop, TypeOK
  <2>2. CASE StopServices
    BY <1>0, <2>2, EmptySeq DEF StopServices, PopAll, ToClose, TypeOK
  <2>3. CASE StopDone
    BY <1>0, <2>3 DEF StopDone, ClearStorages, TypeOK
  <2> QED BY <1>10, <2>1, <2>2, <2>3
<1>11. ASSUME NEW n \in Conns, StopClose(n) PROVE TypeOK'
  BY <1>0, <1>11 DEF StopClose, Closed, Undefined, TypeOK
<1>12. ASSUME NEW k \in {"ping", "cleanup"}, Fire(k) \/ Enter(k) PROVE TypeOK'
  <2>1. Len(connections) \in Nat
    BY <1>0, LenProperties DEF TypeOK
  <2>2. CASE Fire(k)
    BY <1>0, <2>2 DEF Fire, TypeOK
  <2>3. CASE Enter(k)
    BY <1>0, <2>1, <2>3 DEF Enter, TypeOK
  <2> QED BY <1>12, <2>2, <2>3
<1>13. ASSUME PingNext PROVE TypeOK'
  <2>1. connections # <<>>
    BY <1>0, <1>13, EmptySeq DEF PingNext, Holds, TypeOK
  <2> QED BY <1>0, <1>13, <2>1, RotateElements
          DEF PingNext, Rotate, NextIteration, TypeOK
<1>14. ASSUME CleanupNext PROVE TypeOK'
  <2>1. connections # <<>>
    BY <1>0, <1>14, EmptySeq DEF CleanupNext, Holds, TypeOK
  <2>2. /\ Tail(connections) \in Seq(Conns)
        /\ Append(Tail(connections), Head(connections)) \in Seq(Conns)
        /\ Head(connections) \in Conns
    BY <1>0, <2>1, RotateElements, PopElements DEF TypeOK
  <2>3. connections' \in Seq(Conns)
    BY <1>14, <2>2 DEF CleanupNext, Rotate
  <2>4. null_nodes' \subseteq Conns /\ driver' \in [Conns -> {"none", "open", "closed"}]
    BY <1>0, <1>14, <2>2 DEF CleanupNext, ReleaseImpl, TypeOK
  <2>5. todo' \in Nat /\ owner' \in {owner, "free"}
    BY <1>0, <1>14 DEF CleanupNext, NextIteration, TypeOK
  <2>6. /\ UNCHANGED <<callback, is_run, storages, acquired, pending, services, tasks>>
        /\ UNCHANGED <<call, lease, created, fault>>
    BY <1>0, <1>14 DEF CleanupNext
  <2> QED BY <1>0, <2>3, <2>4, <2>5, <2>6 DEF TypeOK
<1>15. ASSUME CleanupDone PROVE TypeOK'
  BY <1>0, <1>15 DEF CleanupDone, TypeOK
<1>16. ASSUME UNCHANGED vars PROVE TypeOK'
  BY <1>0, <1>16 DEF vars, TypeOK
<1> QED
  BY <1>2, <1>3, <1>4, <1>5, <1>6, <1>7, <1>8, <1>9, <1>10, <1>11, <1>12, <1>13,
     <1>14, <1>15, <1>16
  DEF Next, ClientNext, AdminNext, LoopNext, Halted

(***************************************************************************)
(* The containers.                                                         *)
(***************************************************************************)
\* Steps that leave the containers and the mutex alone.
LEMMA PoolInvFrame ==
  ASSUME PoolInv, TypeOK', UNCHANGED <<queueVars, loopVars, created>>
  PROVE  PoolInv'
BY DEF PoolInv, NodesValid, StoragesInv, SectionInv, Queued, queueVars, loopVars

LEMMA PoolInvNext == PoolInv /\ [Next]_vars => PoolInv'
<1> SUFFICES ASSUME PoolInv, [Next]_vars PROVE PoolInv'
  OBVIOUS
<1> USE DEF Remaining, loopVars, clientVars, serverVars, Holds, Unlocked
<1>t. TypeOK /\ TypeOK'
  BY TypeOKNext DEF PoolInv
<1>q. /\ Queued \cup acquired \subseteq storages \ null_nodes
      /\ Queued \cap acquired = {}
      /\ IsInjective(connections)
      /\ connections \in Seq(Conns)
      /\ \A m, n \in storages : Hash[m] = Hash[n] => m = n
      /\ null_nodes \subseteq storages
      /\ storages \subseteq created
      /\ Len(connections) \in Nat
  BY <1>t, LenProperties DEF PoolInv, NodesValid, StoragesInv, TypeOK
<1>e. /\ Range(<<>>) = {} /\ IsInjective(<<>>) /\ Len(<<>>) = 0
  BY EmptySeq, LenProperties DEF Range, IsInjective
<1>1. ASSUME NEW t \in Clients, Acquire(t) \/ Resume(t) PROVE PoolInv'
  <2>1. CASE UNCHANGED <<acquired, connections>>
    BY <1>1, <1>t, <2>1, PoolInvFrame DEF Acquire, Resume, queueVars
  <2>2. CASE connections # <<>> /\ TakeFront(t)
    <3>1. /\ Head(connections) \in Queued
          /\ Queued = Queued' \cup {Head(connections)}
          /\ Head(connections) \notin Queued'
          /\ IsInjective(connections')
      <4>1. connections' = Tail(connections)
        BY <2>2 DEF TakeFront
      <4> QED BY <1>q, <2>2, <4>1, PopElements DEF Queued
    <3>2. owner = "free" /\ UNCHANGED <<storages, null_nodes, loopVars, created>>
      BY <1>1 DEF Acquire, Resume
    <3>3. NodesValid'
      BY <1>q, <2>2, <3>1, <3>2 DEF TakeFront, NodesValid
    <3> QED BY <1>t, <1>q, <3>2, <3>3 DEF PoolInv, StoragesInv, SectionInv
  <2> QED BY <1>1, <2>1, <2>2 DEF Acquire, Resume, AfterWait, Refuse, TakeFront
<1>2. ASSUME NEW t \in Clients, Return(t) PROVE PoolInv'
  <2>1. CASE UNCHANGED <<acquired, connections>>
    BY <1>2, <1>t, <2>1, PoolInvFrame DEF Return, queueVars
  <2>2. ASSUME NEW n \in acquired, connections' = Append(connections, n),
               acquired' = acquired \ {n}
        PROVE  PoolInv'
    <3>1. n \in Conns /\ n \notin Queued
      BY <1>t, <1>q DEF TypeOK
    <3>2. Queued' = Queued \cup {n} /\ IsInjective(connections')
      BY <1>q, <2>2, <3>1, PushElements DEF Queued
    <3>3. owner = "free" /\ UNCHANGED <<storages, null_nodes, loopVars, created>>
      BY <1>2 DEF Return
    <3>4. NodesValid'
      BY <1>q, <2>2, <3>2, <3>3 DEF NodesValid
    <3> QED BY <1>t, <1>q, <3>3, <3>4 DEF PoolInv, StoragesInv, SectionInv
  <2> QED BY <1>2, <2>1, <2>2 DEF Return, Originated, EraseAcquired
<1>3. ASSUME \/ \E t \in Clients : Expire(t)
             \/ SetPrimaryConnectionCallback \/ RemovePrimaryConnectionCallback
             \/ CallBadCallback
             \/ \E k \in {"ping", "cleanup"} : Fire(k)
             \/ UNCHANGED vars
      PROVE  PoolInv'
  <2>1. UNCHANGED <<queueVars, loopVars, created>>
    BY <1>3 DEF Expire, SetPrimaryConnectionCallback, CallBadCallback,
                RemovePrimaryConnectionCallback, Fire, vars, queueVars
  <2> QED BY <1>t, <2>1, PoolInvFrame
\* Steps that take or free the mutex.
<1>4. ASSUME UNCHANGED <<queueVars, pending, created>>,
             \/ owner' \in {"free", "run"}
             \/ owner' \in {"ping", "cleanup"} /\ todo' = Len(connections)
      PROVE  PoolInv'
  BY <1>t, <1>q, <1>4
  DEF PoolInv, NodesValid, StoragesInv, SectionInv, Queued, queueVars
<1>5. ASSUME \/ Run \/ RunDone \/ PingDone \/ CleanupDone
             \/ \E k \in {"ping", "cleanup"} : Enter(k) /\ owner' = k
      PROVE  PoolInv'
  <2>1. UNCHANGED <<queueVars, pending, created>>
    BY <1>5 DEF Run, RunDone, PingDone, CleanupDone, Enter, queueVars
  <2>2. \/ owner' \in {"free", "run"}
        \/ owner' \in {"ping", "cleanup"} /\ todo' = Len(connections)
    BY <1>5 DEF Run, RunDone, PingDone, CleanupDone, Enter
  <2> QED BY <1>4, <2>1, <2>2
<1>6. ASSUME NEW k \in {"ping", "cleanup"}, Enter(k) PROVE PoolInv'
  BY <1>4, <1>5, <1>6, <1>t, PoolInvFrame DEF Enter, queueVars
<1>7. ASSUME NEW c \in Conns, InitializePrimaryConnection(c) PROVE PoolInv'
  <2>1. owner' \in {"free", "run"} /\ UNCHANGED <<null_nodes, acquired, pending>>
        /\ created' = created \cup {c}
    BY <1>7 DEF InitializePrimaryConnection, RunThrows
  <2>2. CASE UNCHANGED <<storages, connections>>
    BY <1>t, <1>q, <2>1, <2>2 DEF PoolInv, NodesValid, StoragesInv, SectionInv, Queued
  <2>3. CASE /\ ~Collides(c) /\ storages' = storages \cup {c}
             /\ connections' = Append(connections, c)
    <3>1. c \notin storages /\ \A n \in storages : Hash[n] # Hash[c]
      BY <2>3 DEF Collides
    <3>2. Queued' = Queued \cup {c} /\ IsInjective(connections')
      BY <1>q, <2>3, <3>1, PushElements DEF Queued
    <3>3. NodesValid'
      BY <1>q, <2>1, <2>3, <3>1, <3>2 DEF NodesValid
    <3> QED BY <1>t, <1>q, <2>1, <2>3, <3>3 DEF PoolInv, StoragesInv, SectionInv
  <2> QED BY <1>7, <2>2, <2>3 DEF InitializePrimaryConnection
<1>8. ASSUME Stop PROVE PoolInv'
  BY <1>8, <1>t, <1>q DEF Stop, PoolInv, NodesValid, StoragesInv, SectionInv, Queued
<1>9. ASSUME StopServices PROVE PoolInv'
  <2>1. acquired = {} /\ acquired' = {} /\ Queued' = {} /\ connections' = <<>>
    BY <1>9, <1>e DEF StopServices, PopAll, PoolInv, SectionInv, Queued
  <2> QED BY <1>9, <1>t, <1>q, <1>e, <2>1
          DEF StopServices, ToClose, PoolInv, NodesValid, StoragesInv, SectionInv
<1>10. ASSUME NEW n \in Conns, StopClose(n) PROVE PoolInv'
  <2>1. /\ acquired = {} /\ connections = <<>> /\ Queued = {} /\ n \in storages
        /\ pending \subseteq storages
    BY <1>10, <1>e DEF StopClose, PoolInv, SectionInv, Queued
  <2>2. /\ acquired' = {} /\ connections' = <<>> /\ Queued' = {}
        /\ null_nodes' \subseteq storages /\ pending' \subseteq storages
        /\ owner' \in {"close", "free"} /\ UNCHANGED <<storages, created>>
    BY <1>10, <1>q, <2>1 DEF StopClose, Queued
  <2> QED BY <1>t, <1>q, <1>e, <2>2 DEF PoolInv, NodesValid, StoragesInv, SectionInv
<1>11. ASSUME StopDone PROVE PoolInv'
  <2>1. acquired' = {} /\ connections' = <<>> /\ Queued' = {} /\ owner' = "free"
        /\ storages' = {} /\ null_nodes' = {}
    BY <1>11, <1>e DEF StopDone, ClearStorages, PoolInv, SectionInv, Queued
  <2> QED BY <1>11, <1>t, <1>e, <2>1 DEF PoolInv, NodesValid, StoragesInv, SectionInv
<1>12. ASSUME owner \in {"ping", "cleanup"}, owner' = owner, todo > 0, Rotate,
              todo' = todo - 1,
              UNCHANGED <<storages, null_nodes, acquired, pending, created>>
       PROVE  PoolInv'
  <2>1. connections # <<>> /\ todo \in Nat /\ todo <= Len(connections)
    BY <1>12, <1>e, <1>t DEF PoolInv, SectionInv, TypeOK
  <2>2. Queued' = Queued /\ IsInjective(connections') /\ Len(connections') = Len(connections)
    BY <1>12, <1>q, <2>1, RotateElements DEF Rotate, Queued
  <2>3. NodesValid'
    BY <1>12, <1>q, <2>2 DEF NodesValid
  <2> QED BY <1>12, <1>t, <1>q, <2>1, <2>2, <2>3 DEF PoolInv, StoragesInv, SectionInv
<1>13. ASSUME PingNext PROVE PoolInv'
  BY <1>12, <1>13 DEF PingNext, NextIteration
<1>14. ASSUME CleanupNext PROVE PoolInv'
  <2>1. CASE Rotate /\ NextIteration /\ UNCHANGED <<null_nodes, driver, owner>>
    BY <1>12, <1>14, <2>1 DEF CleanupNext, NextIteration
  <2>2. CASE /\ connections' = Tail(connections)
             /\ null_nodes' \subseteq null_nodes \cup {Head(connections)}
             /\ \/ owner' = owner /\ todo' = todo - 1
                \/ owner' = "free"
    <3>1. connections # <<>> /\ todo \in Nat /\ todo <= Len(connections) /\ todo > 0
      BY <1>14, <1>e, <1>t DEF CleanupNext, PoolInv, SectionInv, TypeOK
    <3>2. /\ Queued = Queued' \cup {Head(connections)}
          /\ Head(connections) \notin Queued' /\ Head(connections) \in Queued
          /\ IsInjective(connections') /\ Len(connections') = Len(connections) - 1
      BY <1>q, <2>2, <3>1, PopElements DEF Queued
    <3>3. UNCHANGED <<storages, acquired, created, pending>> /\ owner = "cleanup"
      BY <1>14 DEF CleanupNext
    <3>4. NodesValid' /\ StoragesInv'
      BY <1>q, <2>2, <3>2, <3>3 DEF NodesValid, StoragesInv
    <3> QED BY <1>t, <1>q, <2>2, <3>1, <3>2, <3>3, <3>4 DEF PoolInv, SectionInv
  <2> QED BY <1>14, <2>1, <2>2 DEF CleanupNext, NextIteration
<1> QED
  BY <1>1, <1>2, <1>3, <1>5, <1>6, <1>7, <1>8, <1>9, <1>10, <1>11, <1>13, <1>14
  DEF Next, ClientNext, AdminNext, LoopNext, Halted

\* The pool's inductive invariant.
THEOREM PoolInvariant == Spec => []PoolInv
<1>1. Init => PoolInv
  BY PoolInvInit
<1>2. PoolInv /\ [Next]_vars => PoolInv'
  BY PoolInvNext
<1> QED BY <1>1, <1>2, PTL DEF Spec

\* All state of the pool keeps its type (ConnectionPool as a whole).
THEOREM TypeCorrect == Spec => []TypeOK
<1>1. PoolInv => TypeOK
  BY DEF PoolInv
<1> QED BY <1>1, PoolInvariant, PTL

\* No queue entry or acquired_ entry points at a node that is gone, that lost
\* its connection or that is listed twice, whatever fails in Run, Stop and the
\* cleanup.
THEOREM NodesStayValid == Spec => []NodesValid
<1>1. PoolInv => NodesValid
  BY DEF PoolInv
<1> QED BY <1>1, PoolInvariant, PTL
=============================================================================
