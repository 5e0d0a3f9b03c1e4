\* Ports 0..6: every range of up to 4 ports, the one that ends at the last port
\* included (its end wraps), in a debug and in a release build.
SPECIFICATION PortSpec
CONSTANTS
  MaxPort = 6
  MaxCount = 4
  MaxWant = 2
  Ranges <- MCRanges
INVARIANTS
  NoPortGivenTwice
  RefusesOnlyWhenFull
  LoopFindsFirstFree
PROPERTIES
  ImplementsPool
CHECK_DEADLOCK FALSE
