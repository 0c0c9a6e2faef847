SPECIFICATION Spec
CONSTANTS
  a = a
  b = b
  broken = broken
  none = none
  Tool <- MCTool
  Program <- MCProgram
  Broken = broken
  NoSig = none
  Limits <- MCLimits
  MaxBatch = 2
INVARIANTS BudgetHolds RoundsBounded NoThirdRun
PROPERTIES TurnEnds WarnedNeverRuns
CHECK_DEADLOCK FALSE
