\* A build reads the url of its location and uses that of the clone.
SPECIFICATION Spec
CONSTANTS
  p1 = p1
  p2 = p2
  e1 = e1
  e2 = e2
  None = None
  Torn = Torn
  Mixed = Mixed
  DefaultUrl = "upstream"
  DefaultRef = "v1"
  MaxCommands = 3
  MaxTroubles = 1
  Proc <- MCProcs
  Entropy <- MCEntropy
  Ref <- MCRefs
  Url <- MCUrls
SYMMETRY Symmetric
INVARIANT DocBuildsConfigured
CHECK_DEADLOCK FALSE
