CONSTANTS
  Jobs = {j1}
  d1 = d1
  Deps = {d1}
  PerilogMax = 2
  MaxRaise = 1
  CommitMayFail = FALSE
  PubMayFail = FALSE
  Plugs <- MCPlugs
SPECIFICATION Spec
INVARIANT TypeOK
PROPERTY ImplementsLifecycle
INVARIANT RunningCount
INVARIANT InactiveIsClean
INVARIANT EventlogSeqMatches
CHECK_DEADLOCK FALSE
INVARIANT JournalMatchesEventlog
PROPERTY TransitionsPublished
