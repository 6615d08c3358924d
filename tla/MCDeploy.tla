----------------------------- MODULE MCDeploy -----------------------------
(* Model-checking instances of Deploy: an attempt, a repair round and one or  *)
(* two deliveries of three releases in order and one with a tag of its own.   *)
EXTENDS Deploy

CONSTANTS a1, r1, d1, d2

Tags == 1..4

OddTags == {4}
===========================================================================
