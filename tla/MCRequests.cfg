SPECIFICATION ReqSpec
CONSTANTS
  Clients = {r1, r2}
  Fields = {"posts", "author"}
  Kind <- MCKind
  Table <- MCTable
  ParentKeys <- MCParentKeys
  NoKey = NoKey
  PoolMax = 2
  DefaultLimit = 2
  MaxSwaps = 1
  MaxFaults = 1
CHECK_DEADLOCK FALSE
INVARIANTS ConnectionsConserved LoadsAreServed OwnRows
PROPERTY Resolved
