SPECIFICATION DataSpec
CONSTANTS
  Tables <- MCTables
  Candidates <- MCCandidates
  MaxPlan = 2
  BatchSize = 3
CHECK_DEADLOCK FALSE
INVARIANT SharedExecution
