CONSTANTS
  Jobs = {j1}
  d1 = d1
  Deps = {d1}
  PerilogMax = 2
  MaxRaise = 1
  CommitMayFail = FALSE
  PubMayFail = FALSE
  Plugs <- MCPlugsPerilog
  Severities <- MCCancelOnly
SPECIFICATION Spec
INVARIANT InactiveIsClean
PROPERTY CleanupCompletes
CHECK_DEADLOCK FALSE
