----------------------------- MODULE MCAffinity -----------------------------
(* Model-checking instance of Affinity: two tasks, every option class.     *)
EXTENDS Affinity

CONSTANTS t1, t2

MCTasks == {t1, t2}
MCOptionValues == {"unset", "invalid", "on", "off", "per-task", "other"}
MCSymmetry == Permutations(MCTasks)
=============================================================================
