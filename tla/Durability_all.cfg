SPECIFICATION Spec
CONSTANTS
    MemtableSize = 2
    L0CompactionTrigger = 2
    Compacting = TRUE
    Torn = TRUE
    BatchSizes = {1, 2}
    MaxWrites = 3
    MaxCrashes = 2
    MaxFaults = 1
INVARIANTS
    TypeOK
    
    OpenSucceeds
    FirstHitIsNewest
    SeqsFresh
CHECK_DEADLOCK FALSE
