CONSTANTS
    MaxSteps = 3
    MaxDeps = 1
    Kinds = {"read", "unary"}
    UnaryKinds = {"unary"}
    BatchSize = 1
    Registrable <- Plans
    FlagLists <- OneFlagList
    Readers = {r1, r2}
SPECIFICATION CtxSpec
INVARIANTS ReadAfterExecute ReadIsOwnOutput
