CONSTANTS
    t1 = t1
    t2 = t2
    t3 = t3
    Threads = {t1, t2, t3}
    MaxWrites = 3
SPECIFICATION Spec
SYMMETRY ThreadSymmetry
INVARIANTS
    LockBitMeansOneHolder
    ValidatedReadIsConsistent
PROPERTIES
    UpgradeKeepsValidatedRead
    ObsoleteIsFinal
CHECK_DEADLOCK FALSE
