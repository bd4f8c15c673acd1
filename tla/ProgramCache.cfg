SPECIFICATION FairSpec
CONSTANTS
    ready = ready
    zone = zone
    broken = broken
    vm = vm
    pod = pod
    Nobody = Nobody
    Handler = {h1, h2}
    Controller = controller
    Expression = {ready, zone, broken}
    Compilable = {ready, zone}
    Validated = {ready, broken}
    Subject = {vm, pod}
    Value <- MCValue
    RuleSet <- MCRuleSet
INVARIANTS CompiledOnce MapIsGuarded ProgramGaugeExact ResultIsReference
PROPERTIES CallsReturn
