\* Two users and up to two providers, batches of two, a supply for one provider.
SPECIFICATION Spec
CONSTANTS
  Users = 2
  MaxSp = 2
  Batch = 2
  Supply = 5
  MaxTries = 2
  MaxFaults = 3
INVARIANTS
  TypeOK
  SuccessMeansPaid
  FailureHasACause
PROPERTY
  FundingEnds
CHECK_DEADLOCK FALSE
