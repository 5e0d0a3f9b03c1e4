\* The numbers of the program.
SPECIFICATION Spec
CONSTANTS
  Users = 3
  MaxSp = 5
  Batch = 6
  Supply = 10
  MaxTries = 6
  MaxFaults = 0
INVARIANT
  DocEveryCountIsFunded
CHECK_DEADLOCK FALSE
