SPECIFICATION FairSpec
CONSTANTS
    Job = {j1, j2}
    NoJob = nojob
    Failed = failed
    New = new
    MaxPipe = 2
    MaxJobId = 3
    MaxFault = 0
PROPERTIES
    BackToPrompt
    FgEndsJob
CHECK_DEADLOCK FALSE
