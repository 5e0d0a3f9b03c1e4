\* Two threads with two calls each: every pair of calls, with failures and a crash.
SPECIFICATION Spec
CONSTANTS
  usdfc = usdfc
  multicall3 = multicall3
  address = address
  tx = tx
  Thread <- MCThreads
  Key <- MCKeys
  MaxCalls = 2
  None = None
INVARIANTS
  TypeOK
  FileKeepsUp
PROPERTIES
  ImplementsStore
  CallsReturn
CHECK_DEADLOCK FALSE
