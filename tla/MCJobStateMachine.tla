----------------------------- MODULE MCJobStateMachine -------------------------
(* Model-checking instance of JobStateMachine.                             *)
EXTENDS JobStateMachine
=============================================================================
