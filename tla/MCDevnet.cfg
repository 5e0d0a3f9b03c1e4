\* One or two commands at a time.
SPECIFICATION Spec
CONSTANTS
  p1 = p1
  p2 = p2
  r1 = r1
  r2 = r2
  None = None
  MaxCommands = 3
  MaxTroubles = 2
  Proc <- MCProcs
  RunId <- MCRuns
SYMMETRY Symmetric
INVARIANTS
  TypeOK
  StopCleansUp
  StartIsAlone
  PoisonIsTruthful
  NeverWedged
CHECK_DEADLOCK FALSE
