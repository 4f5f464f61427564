SPECIFICATION Spec
CONSTANTS
    Job = {j1}
    NoJob = nojob
    Failed = failed
    New = new
    MaxPipe = 2
    MaxJobId = 2
    MaxFault = 1
INVARIANT AllChildrenDone
CHECK_DEADLOCK FALSE
