SPECIFICATION APISpec
CONSTANTS
    Name = {n1, n2}
    GVR = {deployments, pvcs}
    Body = {b1}
    MaxHandlers = 3
    MaxRules = 2
INVARIANTS GaugeExact WatchGaugeExact NoLeakedInformer RunningHasHandler WatchWillRun
PROPERTIES OthersKept
