\* Up to two providers, two attempts, four things that go wrong.
SPECIFICATION Spec
CONSTANTS
  MaxSp = 2
  MaxTries = 2
  MaxFaults = 4
INVARIANTS
  TypeOK
  PartOfParamsHasACause
  OutcomeIsHonest
PROPERTY
  ServicesEnd
CHECK_DEADLOCK FALSE
