SPECIFICATION Spec
CONSTANTS
    on = on moved = moved off = off migrating = migrating draining = draining
    plain = plain other = other turning = turning zoneA = zoneA zoneB = zoneB
    r1 = r1 r2 = r2 v1 = v1 v2 = v2 None = None
    Name = {r1}
    GVR = {v1}
    Body = {plain}
    Subject = {vm}
    Content = {on, off}
    Operation = {migrating}
    Label = {}
    Id = {i1, i2}
    Serves <- MCServes
    Applies <- MCApplies
    Matches <- MCMatches
    EvalFails <- MCEvalFails
    Labels <- NoLabels
    Deployed <- OneRuleSet
    DebounceThreshold = 1
    K8SAPITimeout = 1
    RetainCompletedIFOs = TRUE
    MaxTime = 4
    MaxQueue = 2
    MaxChanges = 3
    MaxFaults = 1
    MaxCrashes = 1
PROPERTIES ClosedStaysClosed ImplementsLifecycle
CHECK_DEADLOCK FALSE
SYMMETRY Symmetry
