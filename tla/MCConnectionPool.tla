-------------------------- MODULE MCConnectionPool --------------------------
(***************************************************************************)
(* Instances of ConnectionPool for TLC.                                    *)
(***************************************************************************)
EXTENDS ConnectionPool, TLC

\* Every connection draws a hash of its own.
DistinctHash == [c \in Conns |-> c]

\* Two of the connections draw the same hash.  They meet in one Run, or the
\* second is created after a Stop, while a client still holds the first.
Twins == CHOOSE s \in SUBSET Conns : Cardinality(s) = 2
CollidingHash == [c \in Conns |-> IF c \in Twins THEN Twins ELSE {c}]

Symmetry == Permutations(Clients) \cup Permutations(Conns)

\* With a standby connection, only the clients are interchangeable.
ClientSymmetry == Permutations(Clients)
=============================================================================
