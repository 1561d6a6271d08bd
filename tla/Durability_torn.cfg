SPECIFICATION Spec
CONSTANTS
    MemtableSize = 2
    L0CompactionTrigger = 2
    Compacting = FALSE
    Torn = TRUE
    BatchSizes = {1}
    MaxWrites = 2
    MaxCrashes = 2
    MaxFaults = 0
INVARIANTS
    AckedSurvive
CHECK_DEADLOCK FALSE
