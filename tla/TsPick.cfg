SPECIFICATION Spec
CONSTANTS
    Task = {t1, t2}
    Idle = idle
    Nice <- NiceSmall
    RtPriority = {}
    ResetOnFork = {FALSE}
    Donor = {}
    SliceUnit = 1
    UINT_MAX = 99
SYMMETRY TaskSymmetry
PROPERTY PicksHighestClass
