SPECIFICATION FairSpec
CONSTANTS
    Keys = {1, 2, 3}
    L0CompactionTrigger = 2
    LevelSizeBase = 2
    LevelSizeMultiplier = 2
    MaxLevels = 4
    TargetFileSize = 20
    Memtables <- MixedMemtables
    MaxFlushes = 4
    MaxFaults = 0
INVARIANT GetFindsNewest
PROPERTY CompactionSettles
