CONSTANTS
    t1 = t1
    t2 = t2
    Threads = {t1, t2}
    Keys <- MCKeys
    ValsOf <- MCValsOf
    Calls <- MCCalls
    Loaded <- MCLoaded
    MaxKey = 7
    LeafCapacity = 4
    BufferCapacity = 1
    MergeLow = 3
    MergeHigh = 3
    PoolSize = 4
    MaxLeaves = 3
    MaxCalls = 4
    MaxCrashes = 2
    MaxEarly = 1
SYMMETRY Symmetry
SPECIFICATION Spec
CHECK_DEADLOCK FALSE
INVARIANTS
    
    
    LogHasBuffered
