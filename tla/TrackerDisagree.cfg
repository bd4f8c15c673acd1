SPECIFICATION Spec
CONSTANTS
    on = on moved = moved off = off migrating = migrating draining = draining
    plain = plain other = other turning = turning zoneA = zoneA zoneB = zoneB
    r1 = r1 r2 = r2 v1 = v1 v2 = v2 None = None
    Name = {r1, r2}
    GVR = {v1, v2}
    Body = {plain, turning}
    Subject = {vm}
    Content = {moved}
    Operation = {migrating, draining}
    Label = {}
    Id = {i1, i2}
    Serves <- MCServes
    Applies <- MCApplies
    Matches <- MCMatches
    EvalFails <- MCEvalFails
    Labels <- NoLabels
    Deployed <- DifferentVersions
    DebounceThreshold = 1
    K8SAPITimeout = 1
    RetainCompletedIFOs = TRUE
    MaxTime = 1
    MaxQueue = 2
    MaxChanges = 1
    MaxFaults = 0
    MaxCrashes = 0
PROPERTIES CompletesOnlyWhenOver
CHECK_DEADLOCK FALSE
