SPECIFICATION FairSpec
CONSTANTS
  jobA = jobA
  jobB = jobB
  None = None
  Workers = {w1, w2}
  Jobs <- MCJobs
  Kind <- MCKind
  Adapter <- MCAdapter
  Priority <- MCPriority
  Registry <- MCRegistryDefault
  MaxAttempts = 2
  StartTimes = {}
  Horizon = 2
  MaxFaults = 1
  MaxStops = 1
PROPERTIES
  NoJobLost
CHECK_DEADLOCK FALSE
