CONSTANTS
    p1 = p1
    p2 = p2
    Procs <- MCProcs
    Keys <- MCKeys
    Vals <- MCVals
    Home <- MCHome
    Tag <- MCTag
    SlotCount = 3
    MaxProbe = 2
    CellLimit = 4
    Puts <- MCPuts
    Deletes <- MCDeletes
    Finds <- MCFinds
    MaxOps = 3
    MaxSweeps = 1
    InitTables <- MCInitTables
SYMMETRY Symm
SPECIFICATION Spec
INVARIANTS TableSound 
CHECK_DEADLOCK FALSE
