SPECIFICATION RSpec
CONSTANTS
    a = a
    b = b
    w1 = w1
    w2 = w2
    r1 = r1
    r2 = r2
    s1 = s1
    Keys = {a, b}
    Writers = {w1, w2}
    Batches <- MCBatches
    MemtableSize = 2
    MaxImmutableCount = 2
    MaxCalls = 3
    MaxFaults = 1
    Recovered = 0
    CanClose = FALSE
    Readers = {r1}
    Scanners = {}
    ScanKinds = {}
CHECK_DEADLOCK FALSE
INVARIANTS
    ReadersTypeOK
    GetIsNewest
PROPERTY
    ImplementsStore
