CONSTANTS
  Deps = {d1}
  PerilogMax = 1
SPECIFICATION Spec
INVARIANT NoFinalReleaseInRun
