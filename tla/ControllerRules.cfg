SPECIFICATION Spec
CONSTANTS
    Name = {n1, n2}
    GVR = {deployments, pvcs}
    Body = {good, bad}
    Compiles = {good}
    None = None
    RequeueInterval = 60
    MaxHandlers = 9
    MaxEdits = 3
    MaxFaults = 1
    MaxCrashes = 0
SYMMETRY Symmetry
INVARIANTS TypeOK UniqueNames WatchesMatchRules ReadyIsLoaded
PROPERTIES VerdictIsCurrent
CHECK_DEADLOCK FALSE
