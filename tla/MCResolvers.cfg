SPECIFICATION ResSpec
CONSTANTS
  Resources <- MCResources
  Rows <- MCRows
  Inputs <- MCInputs
  Calls <- MCCalls
  WalkSizes = {1, 2}
  DefaultPageSize = 20
  MaxWrites = 2
CHECK_DEADLOCK FALSE
INVARIANTS PageIsSlice WalkComplete MutationExact
