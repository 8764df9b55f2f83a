CONSTANTS
  Jobs = {j1}
  d1 = d1
  Deps = {d1}
  PerilogMax = 2
  MaxRaise = 2
  CommitMayFail = FALSE
  PubMayFail = FALSE
  Plugs <- MCNoPlugs
SPECIFICATION Spec
INVARIANT EventIdsMatchEventlog
CHECK_DEADLOCK FALSE
