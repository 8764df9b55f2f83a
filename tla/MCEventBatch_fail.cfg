CONSTANTS
  Jobs = {j1, j2}
  Values = {"e"}
  States = {"s"}
  Msgs = {"m1"}
  MaxAppends = 2
  CommitMayFail = TRUE
  PubMayFail = TRUE
SPECIFICATION Spec
CHECK_DEADLOCK FALSE
SYMMETRY MCSymmetry
INVARIANT DurableBeforePub
