SPECIFICATION FairSpec
CONSTANTS
  r1 = r1
  r2 = r2
  r3 = r3
  a = a
  b = b
  Runs <- MCRuns
  Contents <- MCContents
  Feed <- MCFeed
  Records <- MCRecords
  DryRuns = {r3}
  LastDay = 1
INVARIANTS
  TypeOK
  RowsHaveObjects
  GraphTraceable
  SucceededIsComplete
  WaitsCanEnd
PROPERTIES
  EveryRunEnds
  ImplementsLedger
CHECK_DEADLOCK FALSE
