-------------------------- MODULE MCPgTransactions --------------------------
(***************************************************************************)
(* Instances of PgTransactions for TLC.                                    *)
(***************************************************************************)
EXTENDS PgTransactions, TLC

\* "select" collides with "insert", and "delete" with "typo".
MCHash == [q \in Queries |-> IF q \in {"typo", "delete"} THEN 1 ELSE 0]

Symmetry == Permutations(Clients) \cup Permutations(Conns)
=============================================================================
