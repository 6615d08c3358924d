------------------------------ MODULE MCUpkeep ------------------------------
(* Model-checking instances of Upkeep: one pull request.  Bumps share only   *)
(* the sandbox slots and the sweep's mutex.                                  *)
EXTENDS Upkeep

MCPull == {"pull"}

TwoCommits == 1..2

ThreeCommits == 1..3
=============================================================================
