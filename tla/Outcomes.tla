------------------------------ MODULE Outcomes ------------------------------
(* What a call that may throw comes to. *)
Returned(value) == [returned |-> value]
Thrown(exception) == [thrown |-> exception]

Returns(outcome) == "returned" \in DOMAIN outcome
=============================================================================
