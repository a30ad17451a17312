SPECIFICATION Spec
CONSTANTS
  None = None
  conflicting = conflicting
  homonymous = homonymous
  wrong = wrong
  undated = undated
  cohen = cohen
  danaEn = danaEn
  levi = levi
  budget = budget
  budgetEn = budgetEn
  d550 = d550
  Cohen = Cohen
  Dana = Dana
  LeviA = LeviA
  LeviB = LeviB
  Budget = Budget
  Housing = Housing
  Nodes <- MCNodes
  Names <- MCNames
  ScanLimit = 6
  Requests = {r1, r2}
  Statements <- MCStatements
  Declarations = {d1}
  Facts <- MCFacts
  Spans <- MCSpans
  Today = 20260501
  TopK = 5
  MaxFaults = 0
INVARIANTS
  AlarmOpensTask
SYMMETRY RequestSymmetry
CHECK_DEADLOCK FALSE
