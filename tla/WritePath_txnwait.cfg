SPECIFICATION Spec
CONSTANTS
    a = a
    b = b
    w1 = w1
    w2 = w2
    w3 = w3
    Keys = {a, b}
    Writers = {w1, w2}
    Batches <- MCBatches
    MemtableSize = 2
    MaxImmutableCount = 1
    MaxCalls = 4
    MaxFaults = 0
    Recovered = 0
    CanClose = FALSE
INVARIANT
    CommitIsolated
