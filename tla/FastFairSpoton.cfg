CONSTANTS
    p1 = p1
    p2 = p2
    Procs <- MCProcs
    Searches <- MCSearches
    Modes <- MCModes
    Card = 7
    kBufNodeFull = 2
    MaxPages = 13
    MaxReads = 1
    InitTrees <- MCInitTrees
SPECIFICATION Spec
  
PROPERTY CallsReturn
CHECK_DEADLOCK FALSE
