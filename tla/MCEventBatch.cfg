CONSTANTS
  Jobs = {j1, j2}
  Values = {"e"}
  States = {"s"}
  Msgs = {"m1"}
  MaxAppends = 2
  CommitMayFail = FALSE
  PubMayFail = TRUE
SPECIFICATION Spec
INVARIANT TypeOK
INVARIANT DurableBeforePub
INVARIANT RespondAfterCommit
PROPERTY EventuallyFlushed
CHECK_DEADLOCK FALSE
