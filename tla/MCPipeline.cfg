\* Up to two service providers, both plans, ranges that fit and ranges that do not.
SPECIFICATION Spec
CONSTANTS
  MaxSp = 2
  Step <- Steps
  Plans <- MCPlans
  Needs <- StepNeeds
  PortCounts <- MCPortCounts
  Outputs <- MCOutputs
INVARIANTS
  TypeOK
  QuietWhenOver
  OutcomeIsHonest
  FailureHasACause
  SuccessIsExportable
PROPERTIES
  ImplementsOrder
  Terminates
CHECK_DEADLOCK FALSE
