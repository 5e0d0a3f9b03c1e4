\* One start after another on one repository.
SPECIFICATION Spec
CONSTANTS
  None = None
  Torn = Torn
  Contracts <- MCContracts
  Predeployed <- MCPredeployed
  Announced = "session_key_registry"
  MaxStarts = 3
  MaxFaults = 2
INVARIANTS
  TypeOK
  AddressesAreLive
  FailureHasACause
CHECK_DEADLOCK FALSE
