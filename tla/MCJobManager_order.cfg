CONSTANTS
  Jobs = {j1}
  d1 = d1
  Deps = {d1}
  PerilogMax = 2
  MaxRaise = 1
  CommitMayFail = TRUE
  PubMayFail = FALSE
  Severities <- MCCancelOnly
SPECIFICATION Spec
INVARIANT PubStatesFollowDag
CHECK_DEADLOCK FALSE
