SPECIFICATION Spec
CONSTANTS
    Base = 3
    SeqSize = 3
    UserKeys <- PrefixFree
    Prefixes <- SomePrefixes
    BlockEntries = 2
    MaxPuts = 4
CHECK_DEADLOCK FALSE
INVARIANTS
    ListSorted
    GetFindsNewest
    
    
