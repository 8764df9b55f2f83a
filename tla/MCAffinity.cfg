CONSTANTS
  t1 = t1
  t2 = t2
  Tasks <- MCTasks
  OptionValues <- MCOptionValues
SPECIFICATION Spec
INVARIANT NoDoubleFree
INVARIANT TaskBindingFollowsOption
SYMMETRY MCSymmetry
CHECK_DEADLOCK FALSE
