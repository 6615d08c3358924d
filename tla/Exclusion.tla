----------------------------- MODULE Exclusion -----------------------------
(***************************************************************************)
(* What the sandbox promises about a repository's workspace: one attempt   *)
(* has it at a time, and nobody takes it from an attempt that has it.      *)
(***************************************************************************)
CONSTANT Client     \* the attempts and the repair rounds

VARIABLE inside     \* who has the workspace

Init == inside = {}

Enter(a) == inside = {} /\ inside' = {a}

\* The client gives the workspace back, or dies with the daemon.
Leave == inside # {} /\ inside' = {}

Next == Leave \/ \E a \in Client : Enter(a)

ExclusionSpec == Init /\ [][Next]_inside
=============================================================================
