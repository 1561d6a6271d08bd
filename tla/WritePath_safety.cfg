SPECIFICATION Spec
CONSTANTS
    a = a
    b = b
    w1 = w1
    w2 = w2
    w3 = w3
    Keys = {a, b}
    Writers = {w1, w2}
    Batches <- MCBatches
    MemtableSize = 2
    MaxImmutableCount = 2
    MaxCalls = 4
    MaxFaults = 1
    Recovered = 1
    CanClose = TRUE
SYMMETRY WriterSymmetry
INVARIANTS
    TypeOK
    UniqueSeqs
    NewestFirst
    NothingLost
    Backpressure
CHECK_DEADLOCK FALSE
