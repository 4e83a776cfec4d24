CONSTANTS
    MaxSteps = 4
    MaxDeps = 2
    Kinds = {"read", "unary"}
    UnaryKinds = {"unary"}
    Registrable <- ChainsAndJoins
    BatchSize = 1
SPECIFICATION OptSpec
INVARIANTS OptInv RemapCanonical DepsBefore
\* A built, rejected or optimized plan is the end of this module's part.
CHECK_DEADLOCK FALSE
