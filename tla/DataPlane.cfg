SPECIFICATION FairSpec
CONSTANTS
  None = None
  ingest = ingest
  other = other
  Processes <- MCProcesses
  Script <- MCScript
  Feed <- MCFeed
  MkLookup <- MCMkLookup
  FactionOf <- MCFactionOf
  Knesset = 25
  PageSize = 1
  Today = 6
  MaxStarts = 3
  MaxFaults = 1
INVARIANTS
  TypeOK
  LoadedRowsStand
  OfficeAnswersTrue
  SittingLostOnlyByRejoining
  DecisionsLostOnlyBehindADrop
PROPERTIES
  NothingForgotten
  CrawlsAdvance
  StartedScriptsEnd
  ImplementsFactBase
CHECK_DEADLOCK FALSE
