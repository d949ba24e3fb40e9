CONSTANTS
    t1 = t1
    t2 = t2
    Threads = {t1, t2}
    Keys = {1, 2, 3, 4, 5, 6, 7, 8, 9, 10}
    Vals = {1, 2}
    ScanSizes = {1, 2, 9}
    MaxKey = 11
    WithBuffer = TRUE
    LeafCapacity = 4
    BufferCapacity = 1
    MergeLow = 2
    MergeHigh = 3
    Workloads <- Buffering
    MaxNodes = 5
SPECIFICATION FairSpec
INVARIANTS
    NodesSound
    TreeHoldsStore
    SplitFits
PROPERTIES
    Linearizable
    CallsReturn
