\* Up to three providers, three attempts at a check, two failures.
SPECIFICATION Spec
CONSTANTS
  MaxSp = 3
  MaxTries = 3
  MaxFaults = 2
INVARIANTS
  TypeOK
  SuccessMatchesChain
  EndorsedAreApproved
  FailureHasACause
CHECK_DEADLOCK FALSE
