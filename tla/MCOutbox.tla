------------------------------ MODULE MCOutbox ------------------------------
(* Model-checking instance of Outbox: one case, whose comments meet those of *)
(* no other.                                                                 *)
EXTENDS Outbox

MCIssue == {1}
=============================================================================
