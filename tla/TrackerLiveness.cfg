SPECIFICATION FairSpec
CONSTANTS
    on = on moved = moved off = off migrating = migrating draining = draining
    plain = plain other = other turning = turning zoneA = zoneA zoneB = zoneB
    r1 = r1 r2 = r2 v1 = v1 v2 = v2 None = None
    Name = {r1}
    GVR = {v1}
    Body = {plain}
    Subject = {vm}
    Content = {on, moved, off}
    Operation = {migrating}
    Label = {zoneA, zoneB}
    Id = {i1, i2}
    Serves <- MCServes
    Applies <- MCApplies
    Matches <- MCMatches
    EvalFails <- MCEvalFails
    Labels <- ZoneLabels
    Deployed <- OneRuleSet
    DebounceThreshold = 1
    K8SAPITimeout = 1
    RetainCompletedIFOs = FALSE
    MaxTime = 1
    MaxQueue = 1
    MaxChanges = 3
    MaxFaults = 1
    MaxCrashes = 0
PROPERTIES ActiveWhenDetected CompletedWhenOver GoneEventuallyClean
CHECK_DEADLOCK FALSE
