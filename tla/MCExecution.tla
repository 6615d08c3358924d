---------------------------- MODULE MCExecution ----------------------------
(* Model-checking instance of Execution: one attempt is the whole state.     *)
EXTENDS Execution
=============================================================================
