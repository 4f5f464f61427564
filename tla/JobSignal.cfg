SPECIFICATION SignalSpec
CONSTANTS
    Job = {j1, j2}
    NoJob = nojob
    Failed = failed
    New = new
    MaxPipe = 2
    MaxJobId = 3
    MaxFault = 0
PROPERTIES
    SignalledJobIsDone
CHECK_DEADLOCK FALSE
