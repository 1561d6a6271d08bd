SPECIFICATION Spec
CONSTANTS
    Keys = {1, 2, 3}
    L0CompactionTrigger = 2
    LevelSizeBase = 2
    LevelSizeMultiplier = 2
    MaxLevels = 4
    TargetFileSize = 1
    Memtables <- Overwrites
    MaxFlushes = 4
    MaxFaults = 0
INVARIANT GetFindsNewest
