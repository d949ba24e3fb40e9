CONSTANTS
    p1 = p1
    p2 = p2
    Procs <- MCProcs
    MaxHeight = 4
    Heights <- MCHeights
    kValNum = 2
    Reads <- MCReads
    MaxReads = 1
    InitLists <- MCInitLists
SYMMETRY Symm
SPECIFICATION Spec
INVARIANTS  ContainsFinds
CHECK_DEADLOCK FALSE
