----------------------- MODULE ConnectionLeasesProofs -----------------------
(***************************************************************************)
(* Theorems about ConnectionLeases.                                        *)
(***************************************************************************)
EXTENDS ConnectionLeases, TLAPS

\* A client holds only connections that have entered the pool, so that a new
\* connection is nobody's.
LeasesTypeOK ==
  /\ offered \subseteq Conns
  /\ free \subseteq offered /\ lent \subseteq offered
  /\ held \in [Clients -> offered \cup {NoConn}]

LeasesInv == LeasesTypeOK /\ LeasesExclusive

LEMMA LeasesInvInit == LeasesInit => LeasesInv
BY LeasesAssumption DEF LeasesInit, LeasesInv, LeasesTypeOK, LeasesExclusive

LEMMA LeasesInvNext == LeasesInv /\ [LeasesNext]_leaseVars => LeasesInv'
<1> SUFFICES ASSUME LeasesInv, [LeasesNext]_leaseVars PROVE LeasesInv'
  OBVIOUS
<1> USE LeasesAssumption DEF LeasesInv, LeasesTypeOK
<1>1. ASSUME NEW c \in Conns, Offer(c) PROVE LeasesInv'
  BY <1>1 DEF Offer, LeasesExclusive
<1>2. ASSUME NEW t \in Clients, GiveBack(t) PROVE LeasesInv'
  <2>1. held[t] \in Conns
    BY <1>2 DEF GiveBack
  <2>2. LeasesTypeOK'
    BY <1>2 DEF GiveBack, LeasesExclusive
  <2>3. \A u \in Clients \ {t} : held'[u] = held[u] /\ held[u] # held[t]
    BY <1>2, <2>1 DEF GiveBack, LeasesExclusive
  <2>4. held'[t] = NoConn
    BY <1>2 DEF GiveBack
  <2>5. LeasesExclusive'
    BY <1>2, <2>2, <2>3, <2>4 DEF GiveBack, LeasesExclusive
  <2> QED BY <2>2, <2>5
<1>3. ASSUME NEW t \in Clients, NEW c \in Conns, Take(t, c) PROVE LeasesInv'
  <2>1. LeasesTypeOK'
    BY <1>3 DEF Take
  <2>2. held'[t] = c /\ \A u \in Clients \ {t} : held'[u] = held[u] /\ held[u] # c
    BY <1>3 DEF Take, LeasesExclusive
  <2>3. \A u, v \in Clients : held'[u] # NoConn /\ held'[u] = held'[v] => u = v
    <3> SUFFICES ASSUME NEW u \in Clients, NEW v \in Clients, u # v, held'[u] # NoConn
                 PROVE  held'[u] # held'[v]
      OBVIOUS
    <3> QED BY <2>2 DEF LeasesExclusive
  <2>4. \A u \in Clients : held'[u] \notin free'
    BY <1>3, <2>2 DEF Take, LeasesExclusive
  <2>5. lent' \subseteq {held'[u] : u \in Clients}
    <3> SUFFICES ASSUME NEW d \in lent' PROVE \E u \in Clients : held'[u] = d
      OBVIOUS
    <3>1. CASE d = c
      BY <2>2, <3>1
    <3>2. CASE d \in lent
      <4>1. PICK u \in Clients : held[u] = d
        BY <3>2 DEF LeasesExclusive
      <4>2. d # NoConn
        BY <3>2
      <4> QED BY <1>3, <2>2, <4>1, <4>2 DEF Take
    <3> QED BY <1>3, <3>1, <3>2 DEF Take
  <2> QED BY <2>1, <2>3, <2>4, <2>5 DEF LeasesExclusive
<1>4. ASSUME Withdraw PROVE LeasesInv'
  BY <1>4 DEF Withdraw, LeasesExclusive
<1>5. ASSUME UNCHANGED leaseVars PROVE LeasesInv'
  BY <1>5 DEF leaseVars, LeasesExclusive
<1> QED BY <1>1, <1>2, <1>3, <1>4, <1>5 DEF LeasesNext

\* A lease is exclusive, and a connection is never free while it is held, for
\* any number of clients and connections.
THEOREM LeasesStayExclusive == LeasesSpec => []LeasesExclusive
<1>1. LeasesInit => LeasesInv
  BY LeasesInvInit
<1>2. LeasesInv /\ [LeasesNext]_leaseVars => LeasesInv'
  BY LeasesInvNext
<1>3. LeasesInv => LeasesExclusive
  BY DEF LeasesInv
<1> QED BY <1>1, <1>2, <1>3, PTL DEF LeasesSpec
=============================================================================
