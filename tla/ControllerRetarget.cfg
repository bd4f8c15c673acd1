SPECIFICATION Spec
CONSTANTS
    Name = {n1}
    GVR = {deployments, pvcs}
    Body = {good}
    Compiles = {good}
    None = None
    RequeueInterval = 60
    MaxHandlers = 9
    MaxEdits = 2
    MaxFaults = 0
    MaxCrashes = 0
INVARIANTS WatchesOnlyTargets
CHECK_DEADLOCK FALSE
