SPECIFICATION FairSpec
CONSTANTS
    on = on moved = moved off = off migrating = migrating draining = draining
    plain = plain other = other turning = turning zoneA = zoneA zoneB = zoneB
    r1 = r1 r2 = r2 v1 = v1 v2 = v2 None = None
    Name = {r1, r2}
    GVR = {v1, v2}
    Body = {plain}
    Subject = {vm}
    Content = {on}
    Operation = {migrating}
    Label = {}
    Id = {i1, i2}
    Serves <- MCServes
    Applies <- MCApplies
    Matches <- MCMatches
    EvalFails <- MCEvalFails
    Labels <- NoLabels
    Deployed <- TwoVersions
    DebounceThreshold = 1
    K8SAPITimeout = 1
    RetainCompletedIFOs = FALSE
    MaxTime = 1
    MaxQueue = 1
    MaxChanges = 2
    MaxFaults = 0
    MaxCrashes = 1
INVARIANTS GoneIsClean
PROPERTIES ImplementsLifecycle ActiveWhenDetected
CHECK_DEADLOCK FALSE
