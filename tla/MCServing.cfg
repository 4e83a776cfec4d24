CONSTANTS
    Callers = {c1, c2, c3}
    Hashes = {h1, h2, h3, h4, h5}
    MaxSize = 2
    Schemas = {"auth", "public"}
    DefaultSchemas = {"public"}
    Catalogs = {"classes", "attributes"}
    Capacity = 1
    SpawnsListener = TRUE
    MaxMigrations = 3
    MaxFaults = 1
SPECIFICATION ServingSpec
INVARIANTS SizeBound QuiescentFresh
PROPERTY Freshness
\* When no further migration commits, nothing is left to do.
CHECK_DEADLOCK FALSE
