SPECIFICATION Spec
CONSTANTS
    Name = {n1}
    GVR = {deployments}
    Body = {good}
    Compiles = {good}
    None = None
    RequeueInterval = 60
    MaxHandlers = 9
    MaxEdits = 3
    MaxFaults = 0
    MaxCrashes = 0
INVARIANTS WatchActiveIsTrue
CHECK_DEADLOCK FALSE
