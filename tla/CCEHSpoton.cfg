CONSTANTS
    p1 = p1
    p2 = p2
    Procs <- MCProcs
    Keys <- MCKeys
    HashBits = 3
    Hash <- MCHash
    Home1 <- MCHome1
    Home2 <- MCHome2
    NumSlot = 3
    Probe = 2
    Gets <- MCGets
    MaxGets = 1
    kBufNodeFull = 1
    kNodeNum = 6
    BucketHash <- MCBucketHash
    MaxSegs = 10
    Modes <- MCModes
    InitTables <- MCInitTables
SPECIFICATION Spec
INVARIANTS   SomeoneMoves
CHECK_DEADLOCK FALSE
