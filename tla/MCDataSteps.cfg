SPECIFICATION DataSpec
CONSTANTS
  Tables <- MCTables
  Candidates <- MCCandidates
  MaxPlan = 3
  BatchSize = 3
CHECK_DEADLOCK FALSE
INVARIANTS ChildrenOfParents MergedSelectsAgree
PROPERTY EffectExact
