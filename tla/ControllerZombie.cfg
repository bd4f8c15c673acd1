SPECIFICATION Spec
CONSTANTS
    Name = {n1, n2}
    GVR = {deployments}
    Body = {good}
    Compiles = {good}
    None = None
    RequeueInterval = 60
    MaxHandlers = 9
    MaxEdits = 3
    MaxFaults = 0
    MaxCrashes = 0
SYMMETRY Symmetry
INVARIANTS DeletedIsUnloaded
CHECK_DEADLOCK FALSE
