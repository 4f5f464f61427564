SPECIFICATION Spec
CONSTANTS
    Job = {j1}
    NoJob = nojob
    Failed = failed
    New = new
    MaxPipe = 1
    MaxJobId = 2
    MaxFault = 0
INVARIANT ExecDoneAtWait
CHECK_DEADLOCK FALSE
