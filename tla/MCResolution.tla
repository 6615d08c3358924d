---------------------------- MODULE MCResolution ----------------------------
(* Model-checking instance of Resolution.                                   *)
EXTENDS Resolution, TLC

CONSTANTS i1, i2

OneIssue == {i1}
TwoIssues == {i1, i2}
Symmetry == Permutations(TwoIssues)
=============================================================================
