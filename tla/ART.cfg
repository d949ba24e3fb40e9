CONSTANTS
    t1 = t1
    t2 = t2
    Threads <- MCThreads
    Symbols <- MCSymbols
    KeyLen = 3
    Inserts <- MCInserts
    Removes <- MCRemoves
    Lookups <- MCLookups
    Seeks <- MCSeeks
    FullAt <- MCFullAt
    UnderAt <- MCUnderAt
    InitTrees <- MCInitTrees
    MaxCalls = 3
    MaxWord = 12
    EpochStep = 2
    GCThreshold = 0
    LabelSize = 1
SYMMETRY Symm
SPECIFICATION Spec
INVARIANTS TreeSound LookupsLinearize SeeksReturnNeighbour FreedUnused LocksHaveOneOwner
CHECK_DEADLOCK FALSE
