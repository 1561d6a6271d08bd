SPECIFICATION Spec
CONSTANTS
    Base = 3
    SeqSize = 2
    UserKeys <- Nested
    Prefixes <- NestedPrefixes
    BlockEntries = 2
    MaxPuts = 2
CHECK_DEADLOCK FALSE
INVARIANTS
    GetFindsNewest
