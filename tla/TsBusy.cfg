SPECIFICATION BusySpec
CONSTANTS
    Task = {t1, t2, t3}
    Idle = idle
    Nice <- NiceWorse
    RtPriority = {}
    ResetOnFork = {FALSE}
    Donor = {}
    SliceUnit = 1
    UINT_MAX = 99
PROPERTY QueuedTsRuns
