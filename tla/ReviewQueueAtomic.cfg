SPECIFICATION Spec
CONSTANTS
  linking = linking
  stray = stray
  ruling = ruling
  c1 = c1
  c2 = c2
  None = None
  Requests = {r1, r2, r3}
  Tasks <- MCTasks
  Candidates <- MCCandidates
  Stored <- MCStored
  Kind <- MCKind
  Payload <- MCPayload
  Decisions = {"approve", "annotate", "escalate"}
  MaxFaults = 1
INVARIANTS
  FailureLeavesNothing
SYMMETRY RequestSymmetry
CHECK_DEADLOCK FALSE
