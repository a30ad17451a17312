SPECIFICATION FairSpec
CONSTANTS
  jobA = jobA
  jobB = jobB
  None = None
  Workers = {w1, w2}
  Jobs <- MCJobs
  Kind <- MCKind
  Adapter <- MCAdapter
  Priority <- MCPriority
  Registry <- MCRegistry
  MaxAttempts = 2
  StartTimes = {1}
  Horizon = 2
  MaxFaults = 2
  MaxStops = 1
INVARIANTS
  TypeOK
  OneOwner
  AttemptLedger
  OutcomeIsTrue
  OrphansOnlyByFault
PROPERTIES
  SettledIsFinal
  BackoffRespected
  ImplementsWorkItems
  EveryJobSettles
CHECK_DEADLOCK FALSE
