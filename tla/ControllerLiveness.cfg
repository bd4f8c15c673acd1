SPECIFICATION FairSpec
CONSTANTS
    Name = {n1}
    GVR = {deployments}
    Body = {good, bad}
    Compiles = {good}
    None = None
    RequeueInterval = 60
    MaxHandlers = 9
    MaxEdits = 3
    MaxFaults = 1
    MaxCrashes = 1
INVARIANTS LoadedIsFinalized
PROPERTIES EventuallyJudged DeletionCompletes
CHECK_DEADLOCK FALSE
