-------------------------- MODULE ConnectionLeases --------------------------
(***************************************************************************)
(* What a connection pool promises to the transactions that use it, with   *)
(* no queue, mutex or event loop: a connection is free or leased to one    *)
(* client, and one that was withdrawn (the pool stopped, or could not keep *)
(* it) is never leased again, even if a client still holds it and gives it *)
(* back to a pool that was started again.                                  *)
(***************************************************************************)
CONSTANTS Clients, Conns, NoConn

ASSUME LeasesAssumption == NoConn \notin Conns

VARIABLES
  offered,  \* connections that have entered the pool so far
  free,     \* connections that can be leased
  lent,     \* connections that the pool takes back
  held      \* the connection each client has, if any

leaseVars == <<offered, free, lent, held>>

LeasesInit ==
  /\ offered = {} /\ free = {} /\ lent = {}
  /\ held = [t \in Clients |-> NoConn]

\* A new connection enters the pool.
Offer(c) ==
  /\ c \in Conns \ offered
  /\ offered' = offered \cup {c}
  /\ free' = free \cup {c}
  /\ UNCHANGED <<lent, held>>

Take(t, c) ==
  /\ held[t] = NoConn
  /\ c \in free
  /\ free' = free \ {c}
  /\ lent' = lent \cup {c}
  /\ held' = [held EXCEPT ![t] = c]
  /\ UNCHANGED offered

\* The pool takes back a connection that it still counts as lent.
GiveBack(t) ==
  /\ held[t] # NoConn
  /\ free' = free \cup ({held[t]} \cap lent)
  /\ lent' = lent \ {held[t]}
  /\ held' = [held EXCEPT ![t] = NoConn]
  /\ UNCHANGED offered

\* The pool gives up some connections.  Their holders are not told.
Withdraw ==
  /\ free' \in SUBSET free
  /\ lent' \in SUBSET lent
  /\ UNCHANGED <<offered, held>>

LeasesNext ==
  \/ \E c \in Conns : Offer(c)
  \/ \E t \in Clients : GiveBack(t) \/ \E c \in Conns : Take(t, c)
  \/ Withdraw

LeasesSpec == LeasesInit /\ [][LeasesNext]_leaseVars

-----------------------------------------------------------------------------
\* No connection is held by two clients, or free while somebody holds it.
LeasesExclusive ==
  /\ \A t, u \in Clients : held[t] # NoConn /\ held[t] = held[u] => t = u
  /\ \A t \in Clients : held[t] \notin free
  /\ lent \subseteq {held[t] : t \in Clients}
=============================================================================
