------------------------ MODULE PgTransactionsProofs ------------------------
(***************************************************************************)
(* Theorems about PgTransactions, for every set of clients, connections,   *)
(* modes and queries and every hash function.                              *)
(***************************************************************************)
EXTENDS PgTransactions, TLAPS

Items == {PreparedStatementItem(q) : q \in Queries}

TxTypes ==
  /\ offered \subseteq Conns /\ free \subseteq offered /\ lent \subseteq offered
  /\ held \in [Clients -> offered \cup {NoConn}]
  /\ phase \in [Clients -> {"none", "leased", "active", "ended", "returned"}]
  /\ mode \in [Clients -> Modes \cup {"Unknown"}]
  /\ connection \in [Clients -> offered \cup {NoConn}]

PgTypes ==
  /\ registered \in [Conns -> Clients \cup {NoClient}]
  /\ server \in [Conns -> {"idle", "begun", "failed"}]
  /\ pending \in [Conns -> SUBSET Clients]
  /\ closed \subseteq Conns

\* What a client holds is the connection_ of its transaction, until the body
\* of the destructor; and that is not free.
HoldingInv ==
  \A t \in Clients :
    /\ phase[t] = "none" <=> connection[t] = NoConn
    /\ held[t] = IF InUse(t) THEN connection[t] ELSE NoConn
    /\ InUse(t) => connection[t] \notin free

\* pqxx has a transaction registered on its own connection, from CreateTransaction
\* on; nobody else's is there before it has been returned.
RegisteredInv ==
  /\ \A c \in Conns : registered[c] # NoClient =>
       /\ connection[registered[c]] = c
       /\ phase[registered[c]] \in {"active", "ended", "returned"}
  /\ \A t \in Clients :
       /\ phase[t] = "active" => registered[connection[t]] = t
       /\ phase[t] = "ended" => registered[connection[t]] \in {t, NoClient}

\* Only a registered transaction leaves one open in Postgres.
ServerInv == \A c \in Conns : server[c] # "idle" => registered[c] # NoClient

\* The statements of a connection have distinct keys.
StatementsInv ==
  /\ statements \in [Conns -> SUBSET Items] /\ prepared \in [Conns -> SUBSET Items]
  /\ \A c \in Conns :
       /\ prepared[c] \subseteq statements[c]
       /\ \A item, other \in statements[c] : item.key = other.key => item = other

\* Nothing is written on a closed session.
ClosedInv == \A c \in closed : pending[c] = {}

LeaseInv == TxTypes /\ HoldingInv /\ ConnectionsNotShared
PgInv == PgTypes /\ RegisteredInv /\ ServerInv /\ PendingWritesOwned
TxInv == LeaseInv /\ PgInv /\ StatementsInv /\ ClosedInv

-----------------------------------------------------------------------------
LEMMA TxInvInit == Init => TxInv
BY LeasesAssumption, TransactionsAssumption
   DEF Init, LeasesInit, TxInv, LeaseInv, PgInv, TxTypes, PgTypes, HoldingInv, RegisteredInv,
       ServerInv, StatementsInv, ClosedInv, PendingWritesOwned, ConnectionsNotShared, InUse

(***************************************************************************)
(* The leases.                                                             *)
(***************************************************************************)
LEMMA LeaseInvStutter ==
  LeaseInv /\ UNCHANGED <<leaseVars, txVars>> => LeaseInv'
BY DEF LeaseInv, leaseVars, txVars, TxTypes, HoldingInv, ConnectionsNotShared, InUse

LEMMA LeaseInvPool ==
  ASSUME LeaseInv, \/ \E c \in Conns : PoolOpens(c)
                   \/ PoolStops
  PROVE  LeaseInv'
<1> USE LeasesAssumption
    DEF LeaseInv, TxTypes, HoldingInv, ConnectionsNotShared, InUse, txVars
<1>1. ASSUME NEW c \in Conns, PoolOpens(c) PROVE LeaseInv'
  BY <1>1 DEF PoolOpens, Offer
<1>2. ASSUME PoolStops PROVE LeaseInv'
  BY <1>2 DEF PoolStops, SessionsEnd
<1> QED BY <1>1, <1>2

LEMMA LeaseInvBegin ==
  ASSUME LeaseInv, NEW t \in Clients, NEW m \in Modes, Begin(t, m)
  PROVE  LeaseInv'
<1>1. PICK c \in free : Take(t, c) /\ connection' = [connection EXCEPT ![t] = c]
  BY DEF Begin
<1>2. TxTypes'
  BY <1>1 DEF LeaseInv, TxTypes, Begin, Take
<1>3. /\ phase'[t] = "leased" /\ connection'[t] = c /\ held'[t] = c
      /\ c # NoConn /\ c \notin free'
  BY <1>1, LeasesAssumption DEF LeaseInv, TxTypes, Begin, Take
<1>4. \A u \in Clients \ {t} :
        phase'[u] = phase[u] /\ connection'[u] = connection[u] /\ held'[u] = held[u]
  BY <1>1 DEF LeaseInv, TxTypes, Begin, Take
<1>5. \A u \in Clients \ {t} : InUse(u) => connection[u] # c
  BY DEF LeaseInv, HoldingInv
<1>6. HoldingInv'
  BY <1>1, <1>3, <1>4 DEF LeaseInv, HoldingInv, InUse, Take
<1>7. ConnectionsNotShared'
  BY <1>3, <1>4, <1>5 DEF LeaseInv, ConnectionsNotShared, InUse
<1> QED BY <1>2, <1>6, <1>7 DEF LeaseInv

\* Steps that end a transaction's use of its connection.
LEMMA LeaseInvEnds ==
  ASSUME LeaseInv, NEW t \in Clients,
         \/ CreateTransactionThrows(t) \/ ReturnConnectionToThePool(t) \/ DestroyMembers(t)
  PROVE  LeaseInv'
<1> USE DEF LeaseInv, TxTypes, HoldingInv, InUse
<1>1. \A u \in Clients \ {t} :
        /\ phase'[u] = phase[u] /\ connection'[u] = connection[u] /\ held'[u] = held[u]
  BY DEF CreateTransactionThrows, ReturnConnectionToThePool, DestroyMembers, GiveBack, leaseVars
<1>2. TxTypes' /\ ~InUse(t)'
  BY DEF CreateTransactionThrows, ReturnConnectionToThePool, DestroyMembers, GiveBack, leaseVars
<1>3. /\ held'[t] = NoConn
      /\ phase'[t] = "none" <=> connection'[t] = NoConn
  BY DEF CreateTransactionThrows, ReturnConnectionToThePool, DestroyMembers, GiveBack, leaseVars
<1>4. free' \subseteq free \cup ({connection[t]} \ {NoConn})
  BY DEF CreateTransactionThrows, ReturnConnectionToThePool, DestroyMembers, GiveBack, leaseVars
<1>5. free' = free \/ InUse(t)
  BY DEF CreateTransactionThrows, ReturnConnectionToThePool, DestroyMembers, leaseVars
<1>6. \A u \in Clients \ {t} : InUse(u) => connection[u] \notin free'
  BY <1>4, <1>5 DEF ConnectionsNotShared
<1>7. HoldingInv'
  BY <1>1, <1>2, <1>3, <1>6
<1>8. ConnectionsNotShared'
  BY <1>1, <1>2 DEF ConnectionsNotShared
<1> QED BY <1>2, <1>7, <1>8

\* A transaction stays in use of the same connection.
LEMMA LeaseInvKeeps ==
  ASSUME LeaseInv, NEW t \in Clients, InUse(t), NEW p \in {"active", "ended"},
         phase' = [phase EXCEPT ![t] = p], UNCHANGED <<leaseVars, mode, connection>>
  PROVE  LeaseInv'
BY DEF LeaseInv, TxTypes, HoldingInv, ConnectionsNotShared, InUse, leaseVars

LEMMA LeaseInvNext == LeaseInv /\ [Next]_vars => LeaseInv'
<1> SUFFICES ASSUME LeaseInv, [Next]_vars PROVE LeaseInv'
  OBVIOUS
<1>1. ASSUME NEW c \in Conns, PoolOpens(c) \/ ConnectionBreaks(c) PROVE LeaseInv'
  BY <1>1, LeaseInvPool, LeaseInvStutter DEF ConnectionBreaks
<1>2. ASSUME PoolStops PROVE LeaseInv'
  BY <1>2, LeaseInvPool
<1>3. ASSUME NEW t \in Clients, ClientNext(t) PROVE LeaseInv'
  <2>1. ASSUME NEW m \in Modes, Begin(t, m) PROVE LeaseInv'
    BY <2>1, LeaseInvBegin
  <2>2. ASSUME CreateTransaction(t) PROVE LeaseInv'
    BY <2>2, LeaseInvKeeps DEF CreateTransaction, InUse
  <2>3. ASSUME NEW q \in Queries, Execute(t, q) \/ ExecuteNonPrepared(t, q) PROVE LeaseInv'
    BY <2>3, LeaseInvStutter DEF Execute, ExecuteNonPrepared
  <2>4. ASSUME Commit(t) \/ Rollback(t) PROVE LeaseInv'
    BY <2>4, LeaseInvKeeps DEF Commit, Rollback, EndsOn, InUse
  <2>5. ASSUME CreateTransactionThrows(t) \/ ReturnConnectionToThePool(t) \/ DestroyMembers(t)
        PROVE  LeaseInv'
    BY <2>5, LeaseInvEnds
  <2> QED BY <1>3, <2>1, <2>2, <2>3, <2>4, <2>5 DEF ClientNext
<1>4. ASSUME UNCHANGED vars PROVE LeaseInv'
  BY <1>4, LeaseInvStutter DEF vars
<1> QED BY <1>1, <1>2, <1>3, <1>4 DEF Next

(***************************************************************************)
(* The transactions of pqxx and Postgres.                                  *)
(***************************************************************************)
LEMMA PgInvStutter ==
  ASSUME PgInv, UNCHANGED <<txVars, pgVars, closed>>
  PROVE  PgInv'
BY DEF PgInv, txVars, pgVars, PgTypes, RegisteredInv, ServerInv, PendingWritesOwned

\* A session that ends leaves no transaction open and no uncommitted write.
LEMMA PgInvSessionsEnd ==
  ASSUME PgInv, UNCHANGED txVars, NEW ended \in SUBSET Conns, SessionsEnd(ended)
  PROVE  PgInv'
<1>1. /\ closed' = closed \cup ended
      /\ server' = [c \in Conns |-> IF c \in ended THEN "idle" ELSE server[c]]
      /\ pending' = [c \in Conns |-> IF c \in ended THEN {} ELSE pending[c]]
      /\ UNCHANGED registered
  BY DEF SessionsEnd
<1>2. PgTypes'
  BY <1>1 DEF PgInv, PgTypes
<1>3. RegisteredInv'
  BY <1>1 DEF PgInv, RegisteredInv, txVars
<1>4. ServerInv'
  BY <1>1 DEF PgInv, ServerInv
<1>5. PendingWritesOwned'
  BY <1>1 DEF PgInv, PendingWritesOwned, txVars
<1> QED BY <1>2, <1>3, <1>4, <1>5 DEF PgInv

\* A transaction that begins has none registered yet.
LEMMA PgInvBegin ==
  ASSUME LeaseInv, PgInv, NEW t \in Clients, NEW m \in Modes, Begin(t, m)
  PROVE  PgInv'
<1> USE DEF PgInv, PgTypes
<1>1. /\ phase' = [phase EXCEPT ![t] = "leased"] /\ phase[t] = "none"
      /\ \A u \in Clients \ {t} : connection'[u] = connection[u] /\ mode'[u] = mode[u]
      /\ UNCHANGED <<pgVars, closed>>
  BY DEF Begin, LeaseInv, TxTypes
<1>2. \A c \in Conns : registered[c] # t
  BY <1>1, TransactionsAssumption DEF RegisteredInv
<1>3. RegisteredInv'
  BY <1>1, <1>2 DEF RegisteredInv, pgVars, LeaseInv, TxTypes
<1>4. PendingWritesOwned'
  BY <1>1, <1>2 DEF PendingWritesOwned, pgVars
<1> QED BY <1>1, <1>3, <1>4 DEF ServerInv, pgVars

LEMMA PgInvCreate ==
  ASSUME LeaseInv, PgInv, NEW t \in Clients, CreateTransaction(t)
  PROVE  PgInv'
<1> DEFINE c == connection[t]
<1>1. c \in Conns /\ phase[t] = "leased" /\ registered[c] = NoClient
  BY DEF CreateTransaction, CanCreate, LeaseInv, TxTypes, HoldingInv
<1>2. /\ registered' = [registered EXCEPT ![c] = t]
      /\ phase' = [phase EXCEPT ![t] = "active"]
      /\ UNCHANGED <<mode, connection, pending, closed>>
      /\ server' \in {server, [server EXCEPT ![c] = "begun"]}
  BY DEF CreateTransaction
<1> HIDE DEF c
<1>3. PgTypes'
  BY <1>1, <1>2 DEF PgInv, PgTypes
<1>4. c = connection[t] /\ \A u \in Clients \ {t} : InUse(u) => connection[u] # c
  BY <1>1 DEF c, LeaseInv, ConnectionsNotShared, InUse
<1>5. /\ registered'[c] = t /\ \A d \in Conns \ {c} : registered'[d] = registered[d]
      /\ phase'[t] = "active" /\ \A u \in Clients \ {t} : phase'[u] = phase[u]
      /\ \A d \in Conns \ {c} : server'[d] = server[d]
  BY <1>1, <1>2 DEF PgInv, PgTypes, LeaseInv, TxTypes
<1>6. \A u \in Clients \ {t} : InUse(u) => connection[u] \in Conns \ {c}
  BY <1>4 DEF LeaseInv, TxTypes, HoldingInv, InUse
<1>7. RegisteredInv'
  <2>1. \A d \in Conns : registered'[d] # NoClient =>
          /\ connection'[registered'[d]] = d
          /\ phase'[registered'[d]] \in {"active", "ended", "returned"}
    BY <1>1, <1>2, <1>4, <1>5 DEF PgInv, PgTypes, RegisteredInv
  <2>2. \A u \in Clients :
          /\ phase'[u] = "active" => registered'[connection'[u]] = u
          /\ phase'[u] = "ended" => registered'[connection'[u]] \in {u, NoClient}
    BY <1>2, <1>4, <1>5, <1>6 DEF PgInv, RegisteredInv, InUse
  <2> QED BY <2>1, <2>2 DEF RegisteredInv
<1>8. ServerInv'
  BY <1>5, TransactionsAssumption DEF PgInv, ServerInv
<1>9. PendingWritesOwned'
  BY <1>1, <1>2, <1>5, TransactionsAssumption DEF PgInv, PgTypes, PendingWritesOwned
<1> QED BY <1>3, <1>7, <1>8, <1>9 DEF PgInv

\* The constructor throws before there is a transaction of pqxx.
LEMMA PgInvThrows ==
  ASSUME LeaseInv, PgInv, NEW t \in Clients, CreateTransactionThrows(t)
  PROVE  PgInv'
<1>1. /\ phase[t] = "leased" /\ phase' = [phase EXCEPT ![t] = "none"]
      /\ connection' = [connection EXCEPT ![t] = NoConn]
      /\ UNCHANGED <<mode, pgVars, closed>>
  BY DEF CreateTransactionThrows
<1>2. \A c \in Conns : registered[c] # t
  BY <1>1, TransactionsAssumption DEF PgInv, RegisteredInv
<1>3. RegisteredInv'
  BY <1>1, <1>2 DEF PgInv, PgTypes, RegisteredInv, pgVars, LeaseInv, TxTypes
<1>4. PendingWritesOwned'
  BY <1>1, <1>2 DEF PgInv, PgTypes, PendingWritesOwned, pgVars, LeaseInv, TxTypes
<1> QED BY <1>1, <1>3, <1>4 DEF PgInv, PgTypes, ServerInv, pgVars

\* A statement of a transaction that is active or has ended writes for no other.
LEMMA PgInvRun ==
  ASSUME LeaseInv, PgInv, NEW t \in Clients, NEW q \in Queries, NEW known \in BOOLEAN,
         phase[t] \in {"active", "ended"}, Run(t, q, known),
         UNCHANGED <<txVars, registered, closed>>
  PROVE  PgInv'
<1>1. connection[t] \in Conns
  BY DEF LeaseInv, TxTypes, HoldingInv
<1>2. PgTypes' /\ ServerInv'
  BY <1>1 DEF Run, Failed, PgInv, PgTypes, ServerInv
<1>3. RegisteredInv'
  BY DEF PgInv, RegisteredInv, txVars
<1>4. PendingWritesOwned'
  <2> SUFFICES ASSUME NEW c \in Conns, NEW u \in pending'[c]
               PROVE  registered[c] = u /\ connection[u] = c /\ mode[u] = "ReadWrite"
    BY DEF PendingWritesOwned, txVars
  <2>1. CASE u \in pending[c]
    BY <2>1 DEF PgInv, PendingWritesOwned
  <2>2. CASE u \notin pending[c]
    <3>1. phase[t] = "active" /\ Inner(mode[t]) = "work" /\ c = connection[t] /\ u = t
      BY <1>1, <2>2 DEF Run, PgInv, PgTypes
    <3>2. mode[t] = "ReadWrite"
      BY <3>1 DEF Inner
    <3> QED BY <3>1, <3>2 DEF PgInv, RegisteredInv
  <2> QED BY <2>1, <2>2
<1> QED BY <1>2, <1>3, <1>4 DEF PgInv

LEMMA PgInvEnds ==
  ASSUME LeaseInv, PgInv, NEW t \in Clients, Commit(t) \/ Rollback(t)
  PROVE  PgInv'
<1> DEFINE c == connection[t]
<1>1. c \in Conns /\ phase[t] = "active" /\ registered[c] = t
  BY DEF Commit, Rollback, LeaseInv, TxTypes, HoldingInv, PgInv, RegisteredInv
<1>2. /\ registered' \in {registered, [registered EXCEPT ![c] = NoClient]}
      /\ server' = [server EXCEPT ![c] = "idle"]
      /\ pending' = [pending EXCEPT ![c] = @ \ {t}]
      /\ phase' = [phase EXCEPT ![t] = "ended"]
      /\ UNCHANGED <<mode, connection, closed>>
  BY DEF Commit, Rollback, EndsOn
<1> HIDE DEF c
<1>3. PgTypes' /\ ServerInv'
  BY <1>1, <1>2, TransactionsAssumption DEF PgInv, PgTypes, ServerInv
<1>4. c = connection[t] /\ \A u \in Clients \ {t} : InUse(u) => connection[u] \in Conns \ {c}
  BY <1>1 DEF c, LeaseInv, ConnectionsNotShared, InUse, TxTypes, HoldingInv
<1>5. /\ registered'[c] \in {t, NoClient} /\ \A d \in Conns \ {c} : registered'[d] = registered[d]
      /\ phase'[t] = "ended" /\ \A u \in Clients \ {t} : phase'[u] = phase[u]
      /\ t \notin pending'[c] /\ pending'[c] \subseteq pending[c]
      /\ \A d \in Conns \ {c} : pending'[d] = pending[d]
  BY <1>1, <1>2 DEF PgInv, PgTypes, LeaseInv, TxTypes
<1>6. RegisteredInv'
  <2>1. \A d \in Conns : registered'[d] # NoClient =>
          /\ connection'[registered'[d]] = d
          /\ phase'[registered'[d]] \in {"active", "ended", "returned"}
    BY <1>1, <1>2, <1>4, <1>5 DEF PgInv, PgTypes, RegisteredInv
  <2>2. \A u \in Clients :
          /\ phase'[u] = "active" => registered'[connection'[u]] = u
          /\ phase'[u] = "ended" => registered'[connection'[u]] \in {u, NoClient}
    BY <1>2, <1>4, <1>5 DEF PgInv, RegisteredInv, InUse
  <2> QED BY <2>1, <2>2 DEF RegisteredInv
<1>7. PendingWritesOwned'
  BY <1>1, <1>2, <1>5 DEF PgInv, PendingWritesOwned
<1> QED BY <1>3, <1>6, <1>7 DEF PgInv

LEMMA PgInvReturns ==
  ASSUME LeaseInv, PgInv, NEW t \in Clients, ReturnConnectionToThePool(t)
  PROVE  PgInv'
<1>1. /\ phase' = [phase EXCEPT ![t] = "returned"]
      /\ UNCHANGED <<mode, connection, pgVars, closed>>
  BY DEF ReturnConnectionToThePool
<1>2. RegisteredInv'
  BY <1>1 DEF PgInv, PgTypes, RegisteredInv, pgVars, LeaseInv, TxTypes
<1>3. PendingWritesOwned'
  BY <1>1 DEF PgInv, PendingWritesOwned, pgVars
<1> QED BY <1>1, <1>2, <1>3 DEF PgInv, PgTypes, ServerInv, pgVars

\* The destructor ends what is registered of its own transaction and nothing
\* of the one that has its connection now.
LEMMA PgInvDestroy ==
  ASSUME LeaseInv, PgInv, NEW t \in Clients, DestroyMembers(t)
  PROVE  PgInv'
<1> DEFINE c == connection[t]
<1>1. /\ c \in Conns /\ phase[t] = "returned"
      /\ phase' = [phase EXCEPT ![t] = "none"]
      /\ connection' = [connection EXCEPT ![t] = NoConn]
      /\ UNCHANGED <<mode, closed>>
      /\ Abort(t, c)
  BY DEF DestroyMembers, LeaseInv, TxTypes, HoldingInv
<1>2. \A d \in Conns : registered[d] = t => d = c
  BY TransactionsAssumption DEF PgInv, RegisteredInv
<1> HIDE DEF c
<1>3. PgTypes' /\ ServerInv'
  BY <1>1, TransactionsAssumption DEF Abort, pgVars, PgInv, PgTypes, ServerInv
<1>4. /\ \A d \in Conns : /\ registered'[d] = IF registered[d] = t THEN NoClient ELSE registered[d]
                          /\ pending'[d] \subseteq pending[d]
      /\ registered[c] = t => t \notin pending'[c]
  BY <1>1, <1>2, TransactionsAssumption DEF Abort, pgVars, PgInv, PgTypes
<1>5. /\ \A u \in Clients \ {t} : phase'[u] = phase[u] /\ connection'[u] = connection[u]
      /\ phase'[t] = "none"
  BY <1>1 DEF LeaseInv, TxTypes
<1>6. RegisteredInv'
  <2>1. \A d \in Conns : registered'[d] # NoClient =>
          /\ connection'[registered'[d]] = d
          /\ phase'[registered'[d]] \in {"active", "ended", "returned"}
    BY <1>4, <1>5 DEF PgInv, PgTypes, RegisteredInv
  <2>2. \A u \in Clients :
          /\ phase'[u] = "active" => registered'[connection'[u]] = u
          /\ phase'[u] = "ended" => registered'[connection'[u]] \in {u, NoClient}
    <3> SUFFICES ASSUME NEW u \in Clients \ {t}, phase[u] \in {"active", "ended"}
                 PROVE  /\ phase[u] = "active" => registered'[connection[u]] = u
                        /\ phase[u] = "ended" => registered'[connection[u]] \in {u, NoClient}
      BY <1>5
    <3>1. connection[u] \in Conns
      BY DEF LeaseInv, TxTypes, HoldingInv
    <3> QED BY <1>4, <3>1, TransactionsAssumption DEF PgInv, RegisteredInv
  <2> QED BY <2>1, <2>2 DEF RegisteredInv
<1>7. PendingWritesOwned'
  <2> SUFFICES ASSUME NEW d \in Conns, NEW u \in pending'[d]
               PROVE  registered'[d] = u /\ connection'[u] = d /\ mode'[u] = "ReadWrite"
    BY DEF PendingWritesOwned
  <2>1. u \in Clients /\ registered[d] = u /\ connection[u] = d /\ mode[u] = "ReadWrite"
    BY <1>4 DEF PgInv, PgTypes, PendingWritesOwned
  <2>2. u # t
    BY <1>2, <1>4, <2>1
  <2> QED BY <1>1, <1>4, <1>5, <2>1, <2>2
<1> QED BY <1>3, <1>6, <1>7 DEF PgInv

LEMMA PgInvNext == TxInv /\ [Next]_vars => PgInv'
<1> SUFFICES ASSUME LeaseInv, PgInv, StatementsInv, [Next]_vars PROVE PgInv'
  BY DEF TxInv
<1>1. ASSUME NEW c \in Conns, PoolOpens(c) \/ ConnectionBreaks(c) PROVE PgInv'
  BY <1>1, PgInvStutter, PgInvSessionsEnd DEF PoolOpens, ConnectionBreaks
<1>2. ASSUME PoolStops PROVE PgInv'
  BY <1>2, PgInvSessionsEnd DEF PoolStops, LeaseInv, TxTypes
<1>3. ASSUME NEW t \in Clients, ClientNext(t) PROVE PgInv'
  <2>1. ASSUME NEW m \in Modes, Begin(t, m) PROVE PgInv'
    BY <2>1, PgInvBegin
  <2>2. ASSUME CreateTransaction(t) PROVE PgInv'
    BY <2>2, PgInvCreate
  <2>3. ASSUME CreateTransactionThrows(t) PROVE PgInv'
    BY <2>3, PgInvThrows
  <2>4. ASSUME NEW q \in Queries, Execute(t, q) PROVE PgInv'
    <3>1. ASSUME NEW r \in Queries, NEW known \in BOOLEAN, Run(t, r, known) PROVE PgInv'
      BY <2>4, <3>1, PgInvRun DEF Execute
    <3>2. ASSUME Failed(connection[t]), UNCHANGED pending PROVE PgInv'
      <4>1. /\ server' = [server EXCEPT ![connection[t]] = IF @ = "begun" THEN "failed" ELSE @]
            /\ UNCHANGED <<txVars, registered, pending, closed>>
        BY <2>4, <3>2 DEF Execute, Failed
      <4>2. PgTypes' /\ ServerInv'
        BY <4>1 DEF PgInv, PgTypes, ServerInv
      <4> QED BY <4>1, <4>2 DEF PgInv, RegisteredInv, PendingWritesOwned, txVars
    <3>3. ASSUME NEW item \in Keyed(prepared[connection[t]], q), Run(t, item.query, TRUE)
          PROVE  PgInv'
      <4>1. connection[t] \in Conns
        BY <2>4 DEF Execute, LeaseInv, TxTypes, HoldingInv
      <4>2. item.query \in Queries
        BY <4>1 DEF Keyed, StatementsInv, Items, PreparedStatementItem
      <4> QED BY <3>1, <3>3, <4>2
    <3> QED BY <2>4, <3>1, <3>2, <3>3 DEF Execute
  <2>5. ASSUME NEW q \in Queries, ExecuteNonPrepared(t, q) PROVE PgInv'
    BY <2>5, PgInvRun DEF ExecuteNonPrepared
  <2>6. ASSUME Commit(t) \/ Rollback(t) PROVE PgInv'
    BY <2>6, PgInvEnds
  <2>7. ASSUME ReturnConnectionToThePool(t) PROVE PgInv'
    BY <2>7, PgInvReturns
  <2>8. ASSUME DestroyMembers(t) PROVE PgInv'
    BY <2>8, PgInvDestroy
  <2> QED BY <1>3, <2>1, <2>2, <2>3, <2>4, <2>5, <2>6, <2>7, <2>8 DEF ClientNext
<1>4. ASSUME UNCHANGED vars PROVE PgInv'
  BY <1>4, PgInvStutter DEF vars
<1> QED BY <1>1, <1>2, <1>3, <1>4 DEF Next

(***************************************************************************)
(* The prepared statements.                                                *)
(***************************************************************************)
\* An item is recorded only under a key that is not there yet.
LEMMA PrepareKeepsKeys ==
  ASSUME StatementsInv, NEW c \in Conns, NEW q \in Queries, Prepare(c, q),
         prepared' \in {prepared,
                        [prepared EXCEPT ![c] = @ \cup {PreparedStatementItem(q)}]}
  PROVE  StatementsInv'
<1>1. /\ statements' = [statements EXCEPT ![c] = @ \cup {PreparedStatementItem(q)}]
      /\ \A item \in statements[c] : item.key # GenerateKey(hash_fn[q])
  BY DEF Prepare, IsKeyExist, Keyed
<1>2. /\ PreparedStatementItem(q) \in Items
      /\ PreparedStatementItem(q).key = GenerateKey(hash_fn[q])
  BY DEF Items, PreparedStatementItem
<1>3. statements' \in [Conns -> SUBSET Items] /\ prepared' \in [Conns -> SUBSET Items]
  BY <1>1, <1>2 DEF StatementsInv
<1>4. \A d \in Conns : prepared'[d] \subseteq statements'[d]
  BY <1>1 DEF StatementsInv
<1>5. \A d \in Conns : \A item, other \in statements'[d] : item.key = other.key => item = other
  BY <1>1, <1>2 DEF StatementsInv
<1> QED BY <1>3, <1>4, <1>5 DEF StatementsInv

\* Postgres forgets what the manager goes on recording.
LEMMA StatementsInvSessionsEnd ==
  ASSUME StatementsInv, NEW ended, SessionsEnd(ended)
  PROVE  StatementsInv'
<1>1. /\ prepared' = [c \in Conns |-> IF c \in ended THEN {} ELSE prepared[c]]
      /\ UNCHANGED statements
  BY DEF SessionsEnd
<1> QED BY <1>1 DEF StatementsInv

LEMMA StatementsInvNext == TxInv /\ [Next]_vars => StatementsInv'
<1> SUFFICES ASSUME TxInv, [Next]_vars PROVE StatementsInv'
  OBVIOUS
<1>1. CASE UNCHANGED stmtVars
  BY <1>1 DEF TxInv, StatementsInv, stmtVars
<1>2. ASSUME NEW t \in Clients, NEW q \in Queries, Execute(t, q) PROVE StatementsInv'
  <2>1. connection[t] \in Conns
    BY <1>2 DEF Execute, TxInv, LeaseInv, TxTypes, HoldingInv
  <2>2. CASE Prepare(connection[t], q)
    BY <1>1, <1>2, <2>1, <2>2, PrepareKeepsKeys DEF Execute, TxInv
  <2> QED BY <1>1, <1>2, <2>2 DEF Execute
<1>3. ASSUME NEW ended, SessionsEnd(ended) PROVE StatementsInv'
  BY <1>3, StatementsInvSessionsEnd DEF TxInv
<1>4. \/ UNCHANGED stmtVars
      \/ \E t \in Clients, q \in Queries : Execute(t, q)
      \/ \E ended : SessionsEnd(ended)
  <2>1. ASSUME NEW c \in Conns, PoolOpens(c) \/ ConnectionBreaks(c)
        PROVE  UNCHANGED stmtVars \/ \E ended : SessionsEnd(ended)
    BY <2>1 DEF PoolOpens, ConnectionBreaks
  <2>2. ASSUME NEW t \in Clients, ClientNext(t)
        PROVE  UNCHANGED stmtVars \/ \E q \in Queries : Execute(t, q)
    BY <2>2 DEF ClientNext, Begin, CreateTransaction, CreateTransactionThrows,
       ExecuteNonPrepared, Commit, Rollback, ReturnConnectionToThePool, DestroyMembers
  <2> QED BY <2>1, <2>2 DEF Next, PoolStops, vars
<1> QED BY <1>1, <1>2, <1>3, <1>4

(***************************************************************************)
(* Closed sessions.                                                        *)
(***************************************************************************)
LEMMA RunWrites ==
  ASSUME PgTypes, NEW t \in Clients, NEW q, NEW known \in BOOLEAN, Run(t, q, known)
  PROVE  \A c \in Conns : /\ pending[c] \subseteq pending'[c]
                          /\ c \in closed => pending'[c] = pending[c]
BY DEF Run, Reachable, PgTypes

\* What a step writes on open sessions, and what it ends.
LEMMA StepWrites ==
  ASSUME TxInv, Next
  PROVE  \/ /\ UNCHANGED closed
            /\ \A c \in Conns : /\ pending[c] \subseteq pending'[c]
                                /\ c \in closed => pending'[c] = pending[c]
         \/ /\ UNCHANGED closed
            /\ \E t \in Clients : Commit(t) \/ Rollback(t) \/ DestroyMembers(t)
         \/ \E ended \in SUBSET Conns : SessionsEnd(ended)
<1>1. PgTypes /\ TxTypes
  BY DEF TxInv, LeaseInv, PgInv
<1>2. ASSUME NEW c \in Conns, PoolOpens(c) \/ ConnectionBreaks(c)
      PROVE  UNCHANGED <<pending, closed>> \/ \E ended \in SUBSET Conns : SessionsEnd(ended)
  BY <1>2 DEF PoolOpens, ConnectionBreaks, pgVars
<1>3. ASSUME PoolStops PROVE \E ended \in SUBSET Conns : SessionsEnd(ended)
  BY <1>1, <1>3 DEF PoolStops, TxTypes
<1>4. ASSUME NEW t \in Clients, NEW q \in Queries, Execute(t, q) \/ ExecuteNonPrepared(t, q)
      PROVE  /\ UNCHANGED closed
             /\ UNCHANGED pending \/ \E r : \E known \in BOOLEAN : Run(t, r, known)
  BY <1>4 DEF Execute, ExecuteNonPrepared
<1>5. ASSUME NEW t \in Clients, ClientNext(t)
      PROVE  /\ UNCHANGED closed
             /\ \/ UNCHANGED pending
                \/ \E q \in Queries : Execute(t, q) \/ ExecuteNonPrepared(t, q)
                \/ Commit(t) \/ Rollback(t) \/ DestroyMembers(t)
  BY <1>4, <1>5 DEF ClientNext, Begin, CreateTransaction, CreateTransactionThrows, Commit,
              Rollback, ReturnConnectionToThePool, DestroyMembers, pgVars
<1> QED BY <1>1, <1>2, <1>3, <1>4, <1>5, RunWrites DEF Next

LEMMA ClosedInvNext == TxInv /\ [Next]_vars => ClosedInv'
<1> SUFFICES ASSUME TxInv, [Next]_vars PROVE ClosedInv'
  OBVIOUS
<1>1. PgTypes /\ ClosedInv
  BY DEF TxInv, PgInv
<1>2. ASSUME NEW ended \in SUBSET Conns, SessionsEnd(ended) PROVE ClosedInv'
  BY <1>1, <1>2 DEF SessionsEnd, ClosedInv, PgTypes
<1>3. ASSUME NEW t \in Clients, Commit(t) \/ Rollback(t) \/ DestroyMembers(t), UNCHANGED closed
      PROVE  ClosedInv'
  <2>1. \A c \in Conns : pending'[c] \subseteq pending[c]
    BY <1>1, <1>3 DEF Commit, Rollback, EndsOn, DestroyMembers, Abort, pgVars, PgTypes
  <2> QED BY <1>1, <1>3, <2>1 DEF ClosedInv, PgTypes
<1>4. CASE UNCHANGED vars
  BY <1>1, <1>4 DEF vars, pgVars, ClosedInv
<1> QED BY <1>1, <1>2, <1>3, <1>4, StepWrites DEF ClosedInv, PgTypes

-----------------------------------------------------------------------------
LEMMA TxInvNext == TxInv /\ [Next]_vars => TxInv'
BY LeaseInvNext, PgInvNext, StatementsInvNext, ClosedInvNext DEF TxInv

\* TxInv is inductive.
THEOREM TransactionInvariant == Spec => []TxInv
BY TxInvInit, TxInvNext, PTL DEF Spec

\* The variables have their types, and held and connection_ agree.
THEOREM TypeCorrect == Spec => []TypeOK
<1>1. TxInv => TypeOK
  BY DEF TxInv, LeaseInv, PgInv, TxTypes, PgTypes, HoldingInv, StatementsInv, Items, TypeOK
<1> QED BY <1>1, TransactionInvariant, PTL

\* Two transactions in use never share a connection, although each destructor
\* goes on to use its own after it has been returned.
THEOREM ConnectionsStayApart == Spec => []ConnectionsNotShared
<1>1. TxInv => ConnectionsNotShared
  BY DEF TxInv, LeaseInv
<1> QED BY <1>1, TransactionInvariant, PTL

\* What is uncommitted on a connection belongs to the ReadWrite transaction that
\* pqxx has registered there, so that nobody commits the writes of another.
THEOREM WritesStayOwned == Spec => []PendingWritesOwned
<1>1. TxInv => PendingWritesOwned
  BY DEF TxInv, PgInv
<1> QED BY <1>1, TransactionInvariant, PTL

\* A connection in the queue has no transaction open but that of a destructor
\* which is about to roll it back.
LEMMA TxInvFreeIsClean == TxInv => FreeConnectionIsClean
<1> SUFFICES ASSUME TxInv, NEW c \in free
             PROVE  IF registered[c] = NoClient THEN server[c] = "idle"
                    ELSE phase[registered[c]] = "returned" /\ connection[registered[c]] = c
  BY DEF FreeConnectionIsClean
<1>1. c \in Conns
  BY DEF TxInv, LeaseInv, TxTypes
<1>2. CASE registered[c] = NoClient
  BY <1>1, <1>2 DEF TxInv, PgInv, ServerInv
<1>3. CASE registered[c] # NoClient
  BY <1>1, <1>3 DEF TxInv, PgInv, PgTypes, RegisteredInv, LeaseInv, HoldingInv, InUse
<1> QED BY <1>2, <1>3

\* FreeConnectionIsClean is an invariant of the transactions.
THEOREM FreeStaysClean == Spec => []FreeConnectionIsClean
BY TransactionInvariant, TxInvFreeIsClean, PTL

\* A step, as EndedOnlyByOwner and PreparedOnce say it.
EndsOwn ==
  \A c \in Conns : \A t \in pending[c] \ pending'[c] :
    phase'[t] # phase[t] \/ c \in closed' \ closed

PreparesNew ==
  \A c \in Conns : \A item \in prepared'[c] \ prepared[c] :
    Keyed(prepared[c], item.query) = {}

\* The writes that a closed session loses, it loses when it is closed.
LEMMA SessionsEndOwn ==
  ASSUME PgTypes, ClosedInv, NEW ended \in SUBSET Conns, SessionsEnd(ended)
  PROVE  EndsOwn
BY DEF SessionsEnd, EndsOwn, ClosedInv, PgTypes

LEMMA StepEndsOwn == TxInv /\ [Next]_vars => EndsOwn \/ UNCHANGED vars
<1> SUFFICES ASSUME TxInv, Next PROVE EndsOwn
  OBVIOUS
<1>1. PgTypes /\ TxTypes /\ ClosedInv
  BY DEF TxInv, LeaseInv, PgInv
<1>2. ASSUME NEW t \in Clients, Commit(t) \/ Rollback(t) \/ DestroyMembers(t) PROVE EndsOwn
  <2>1. phase'[t] # phase[t]
    BY <1>1, <1>2 DEF Commit, Rollback, EndsOn, DestroyMembers, TxTypes
  <2>2. \A c \in Conns : pending[c] \ pending'[c] \subseteq {t}
    BY <1>1, <1>2 DEF Commit, Rollback, EndsOn, DestroyMembers, Abort, pgVars, PgTypes
  <2> QED BY <2>1, <2>2 DEF EndsOwn
<1> QED BY <1>1, <1>2, StepWrites, SessionsEndOwn DEF EndsOwn

\* The uncommitted writes of a transaction end in a step of its own, or with
\* the session that is closed under it.
THEOREM OwnersEndTheirWrites == Spec => EndedOnlyByOwner
<1>1. EndsOwn => [EndsOwn]_vars
  OBVIOUS
<1> QED BY TransactionInvariant, StepEndsOwn, PTL DEF Spec, EndedOnlyByOwner, EndsOwn

\* What is prepared was not recorded, and what was not recorded has no name.
LEMMA StepPreparesNew == TxInv /\ [Next]_vars => PreparesNew
<1> SUFFICES ASSUME TxInv, [Next]_vars PROVE PreparesNew
  OBVIOUS
<1>1. ASSUME NEW t \in Clients, NEW q \in Queries, Execute(t, q) PROVE PreparesNew
  <2> DEFINE c == connection[t]
  <2>1. UNCHANGED prepared \/ /\ ~IsKeyExist(c, q)
                              /\ prepared' = [prepared EXCEPT ![c] = @ \cup {PreparedStatementItem(q)}]
    BY <1>1 DEF Execute, Prepare, stmtVars
  <2>2. c \in Conns
    BY <1>1 DEF Execute, TxInv, LeaseInv, TxTypes, HoldingInv
  <2> HIDE DEF c
  <2>3. ASSUME ~IsKeyExist(c, q) PROVE Keyed(prepared[c], q) = {}
    BY <2>2, <2>3 DEF IsKeyExist, Keyed, TxInv, StatementsInv
  <2>4. PreparedStatementItem(q).query = q
    BY DEF PreparedStatementItem
  <2> QED BY <2>1, <2>2, <2>3, <2>4 DEF PreparesNew, TxInv, StatementsInv
<1>2. \/ UNCHANGED prepared
      \/ \E t \in Clients, q \in Queries : Execute(t, q)
      \/ \E ended : SessionsEnd(ended)
  <2>1. ASSUME NEW c \in Conns, PoolOpens(c) \/ ConnectionBreaks(c)
        PROVE  UNCHANGED prepared \/ \E ended : SessionsEnd(ended)
    BY <2>1 DEF PoolOpens, ConnectionBreaks, stmtVars
  <2>2. ASSUME NEW t \in Clients, ClientNext(t)
        PROVE  UNCHANGED prepared \/ \E q \in Queries : Execute(t, q)
    BY <2>2 DEF ClientNext, Begin, CreateTransaction, CreateTransactionThrows, stmtVars,
       ExecuteNonPrepared, Commit, Rollback, ReturnConnectionToThePool, DestroyMembers
  <2> QED BY <2>1, <2>2 DEF Next, PoolStops, vars, stmtVars
<1>3. CASE UNCHANGED prepared
  BY <1>3 DEF PreparesNew
<1>4. ASSUME NEW ended, SessionsEnd(ended) PROVE PreparesNew
  BY <1>4 DEF SessionsEnd, PreparesNew
<1> QED BY <1>1, <1>2, <1>3, <1>4

\* No PREPARE is sent with a name that the session has already, although two
\* queries may share a name and preparations fail half way.
THEOREM StatementsPreparedOnce == Spec => PreparedOnce
<1>1. PreparesNew => [PreparesNew]_vars
  OBVIOUS
<1> QED BY <1>1, TransactionInvariant, StepPreparesNew, PTL DEF Spec, PreparedOnce, PreparesNew

-----------------------------------------------------------------------------
(***************************************************************************)
(* ConnectionPool is proved to keep the promise of ConnectionLeases, which *)
(* may withdraw any connections at any time; PgTransactions only has a     *)
(* Stop that withdraws and closes all.  What it shows does not rest on     *)
(* that: it holds over every pool that keeps the promise.                  *)
(***************************************************************************)
\* The pool gives up some connections, and may close or release some, whose
\* sessions end.
PoolWithdraws ==
  /\ Withdraw
  /\ \E ended \in SUBSET Conns : SessionsEnd(ended)
  /\ UNCHANGED txVars

SpecOverLeases == Init /\ [][Next \/ PoolWithdraws]_vars

LEMMA TxInvWithdraw == TxInv /\ PoolWithdraws => TxInv'
<1> SUFFICES ASSUME TxInv, PoolWithdraws PROVE TxInv'
  OBVIOUS
<1>1. LeaseInv'
  BY DEF PoolWithdraws, Withdraw, TxInv, LeaseInv, TxTypes, HoldingInv, ConnectionsNotShared,
         InUse, txVars
<1>2. PICK ended \in SUBSET Conns : SessionsEnd(ended)
  BY DEF PoolWithdraws
<1>3. PgInv' /\ StatementsInv'
  BY <1>2, PgInvSessionsEnd, StatementsInvSessionsEnd DEF PoolWithdraws, TxInv
<1>4. ClosedInv'
  BY <1>2 DEF SessionsEnd, ClosedInv, TxInv, PgInv, PgTypes
<1> QED BY <1>1, <1>3, <1>4 DEF TxInv

\* Whatever connections the pool withdraws, and whatever sessions it closes in
\* the middle of their transactions: connections are not shared, writes stay
\* with their owner and end by it or with its session, free connections are
\* clean, and no name is prepared twice.
THEOREM WithdrawalsAreHarmless ==
  SpecOverLeases =>
    /\ [](ConnectionsNotShared /\ PendingWritesOwned /\ FreeConnectionIsClean)
    /\ EndedOnlyByOwner
    /\ PreparedOnce
<1>1. TxInv /\ [Next \/ PoolWithdraws]_vars => TxInv'
  BY TxInvNext, TxInvWithdraw
<1>2. TxInv => ConnectionsNotShared /\ PendingWritesOwned /\ FreeConnectionIsClean
  BY TxInvFreeIsClean DEF TxInv, LeaseInv, PgInv
<1>3. TxInv /\ [Next \/ PoolWithdraws]_vars => [EndsOwn]_vars /\ [PreparesNew]_vars
  <2>1. TxInv /\ PoolWithdraws => EndsOwn
    BY SessionsEndOwn DEF PoolWithdraws, TxInv, PgInv
  <2>2. PoolWithdraws => PreparesNew
    BY DEF PoolWithdraws, SessionsEnd, PreparesNew
  <2> QED BY <2>1, <2>2, StepEndsOwn, StepPreparesNew
<1> QED BY <1>1, <1>2, <1>3, TxInvInit, PTL
        DEF SpecOverLeases, EndedOnlyByOwner, EndsOwn, PreparedOnce, PreparesNew
=============================================================================
