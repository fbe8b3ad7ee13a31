----------------------------- MODULE MCPgServers -----------------------------
(***************************************************************************)
(* Instances of PgServers for TLC.                                         *)
(***************************************************************************)
EXTENDS PgServers

CONSTANTS h1, h2

SameLogin == <<PgClusterConfig("db", "app", h1), PgClusterConfig("db", "app", h2)>>
AllGrant == [h \in {h1, h2} |-> {Asked(SameLogin[1])}]

Symmetry == Permutations(Threads) \cup Permutations(Conns)
=============================================================================
