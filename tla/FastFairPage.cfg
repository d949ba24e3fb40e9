CONSTANTS
    Keys <- MCKeys
    Removable <- MCRemovable
    Card = 4
    HdrSlots = 1
    PerLine = 2
    MaxOps = 5
    MaxEvicts = 2
    MaxReads = 1
    MaxOverlap = 1
SPECIFICATION Spec
INVARIANTS SearchesLinearize InsertsSurviveCrash
CHECK_DEADLOCK FALSE
