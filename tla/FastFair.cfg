CONSTANTS
    p1 = p1
    p2 = p2
    Procs <- MCProcs
    Inserts <- MCInserts
    Removes <- MCRemoves
    Searches <- MCSearches
    Ranges <- MCRanges
    Card = 4
    MaxPages = 12
    MaxReads = 1
    InitTrees <- MCInitTrees
SPECIFICATION Spec
INVARIANTS TreeSound 
PROPERTY CallsReturn
CHECK_DEADLOCK FALSE
