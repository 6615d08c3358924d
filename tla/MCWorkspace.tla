---------------------------- MODULE MCWorkspace ----------------------------
(* Model-checking instances of Workspace: two attempts of one case, one      *)
(* after the other on its branch, and a repair round on a bump's.            *)
EXTENDS Workspace

CONSTANTS a1, a2, r1, case, bump

AndARound == {a1, a2, r1}

OneRound == {r1}

BothBranches == {case, bump}

OnBoth == [a \in AndARound |-> IF a = r1 THEN bump ELSE case]

=============================================================================
