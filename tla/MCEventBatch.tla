---------------------------- MODULE MCEventBatch ----------------------------
(* Model-checking instance of EventBatch: symmetric jobs given as model    *)
(* values in the cfg.                                                      *)
EXTENDS EventBatch, TLC

MCSymmetry == Permutations(Jobs)
=============================================================================
