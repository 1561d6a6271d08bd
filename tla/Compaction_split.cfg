SPECIFICATION Spec
CONSTANTS
    Keys = {1, 2, 3}
    L0CompactionTrigger = 2
    LevelSizeBase = 2
    LevelSizeMultiplier = 2
    MaxLevels = 4
    TargetFileSize = 2
    Memtables <- MixedMemtables
    MaxFlushes = 4
    MaxFaults = 1
INVARIANTS
    TypeOK
    LevelsDisjoint
    
    FilesPresent
    NoOrphans
