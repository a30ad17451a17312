SPECIFICATION Spec
CONSTANTS
  r1 = r1
  r2 = r2
  r3 = r3
  a = a
  b = b
  Runs <- MCRuns
  Contents <- MCContents
  Feed <- MCFeed
  Records <- MCRecords
  DryRuns = {r3}
  LastDay = 1
INVARIANTS
  ClosedOnExit
CHECK_DEADLOCK FALSE
