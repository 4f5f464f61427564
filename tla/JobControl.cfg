SPECIFICATION Spec
CONSTANTS
    Job = {j1, j2}
    NoJob = nojob
    Failed = failed
    New = new
    MaxPipe = 2
    MaxJobId = 4
    MaxFault = 1
CONSTRAINT LaterJobsAreShort
INVARIANTS
    TypeOK
    NoOrphan
    TerminalReturned
    SigchldOpen
    JobIdsDistinct
    NoPendingAtPrompt
CHECK_DEADLOCK FALSE
