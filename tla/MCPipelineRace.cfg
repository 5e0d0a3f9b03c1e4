\* The same instance against the comment on the parallel epochs.
SPECIFICATION Spec
CONSTANTS
  MaxSp = 1
  Step <- Steps
  Plans <- MCPlans
  Needs <- StepNeeds
  PortCounts <- MCPortCounts
  Outputs <- MCAllShown
INVARIANT
  DocEpochsCanBeParallelized
CHECK_DEADLOCK FALSE
