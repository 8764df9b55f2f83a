CONSTANTS
  Deps = {d1, d2}
  PerilogMax = 2
SPECIFICATION Spec
INVARIANT TypeOK
INVARIANT EndEventIsCleanupCause
PROPERTY StateFollowsDag
