CONSTANTS
    t1 = t1
    t2 = t2
    Threads = {t1, t2}
    Keys = {1, 2, 3, 4}
    Vals = {1, 2}
    ScanSizes = {1, 2, 9}
    MaxKey = 5
    WithBuffer = FALSE
    LeafCapacity = 2
    BufferCapacity = 1
    MergeLow = 2
    MergeHigh = 2
    Workloads <- Unbuffered
    MaxNodes = 6
SPECIFICATION Spec
INVARIANTS
    LocksHeld
    TreeHoldsStore
    
PROPERTIES
    Linearizable
