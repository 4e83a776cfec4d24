CONSTANTS
    MaxSteps = 5
    MaxDeps = 2
    Kinds = {"read", "unary"}
    UnaryKinds = {"unary"}
    BatchSize = 2
    Registrable <- Plans
    FlagLists <- AllFlagLists
SPECIFICATION FairExecSpec
INVARIANTS RunInv ResultsConsistent ErrorContained
PROPERTIES ImplementsDataflow Termination
\* A request that got its outputs or its error takes no further step.
CHECK_DEADLOCK FALSE
