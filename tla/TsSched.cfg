SPECIFICATION Spec
CONSTANTS
    Task = {t1, t2}
    Idle = idle
    Nice <- NiceWorse
    RtPriority = {1}
    ResetOnFork = {FALSE}
    Donor = {98}
    SliceUnit = 1
    UINT_MAX = 99
CONSTRAINTS RenicedIsFresh OneSliceBegun
SYMMETRY TaskSymmetry
INVARIANTS
    TypeOK
    TsIndexInRange
    SliceNeverPassesZero
    NoLostTask
    RunQueueConsistent
PROPERTIES
    BetterTaskNoticed
    PrioGainNeedsSleep
