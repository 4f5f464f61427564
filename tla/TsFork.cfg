SPECIFICATION Spec
CONSTANTS
    Task = {t1, t2}
    Idle = idle
    Nice <- NiceTwo
    RtPriority = {1}
    ResetOnFork = {TRUE, FALSE}
    Donor = {98}
    SliceUnit = 1
    UINT_MAX = 99
SYMMETRY TaskSymmetry
CONSTRAINT BeforeFirstTick
PROPERTY ForkDropsBoost
