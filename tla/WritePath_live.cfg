SPECIFICATION FairSpec
CONSTANTS
    a = a
    b = b
    w1 = w1
    w2 = w2
    w3 = w3
    Keys = {a, b}
    Writers = {w1, w2, w3}
    Batches <- OnePut
    MemtableSize = 1
    MaxImmutableCount = 2
    MaxCalls = 5
    MaxFaults = 0
    Recovered = 1
    CanClose = FALSE
PROPERTIES
    WaitersReturn
    SignalDrains
