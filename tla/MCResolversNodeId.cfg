SPECIFICATION ResSpec
CONSTANTS
  Resources <- MCMembers
  Rows <- MCRows
  Inputs <- MCInputs
  Calls <- MCCalls
  WalkSizes = {1, 2}
  DefaultPageSize = 20
  MaxWrites = 2
CHECK_DEADLOCK FALSE
INVARIANT NodeIdNamesRow
