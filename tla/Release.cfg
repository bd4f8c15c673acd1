SPECIFICATION FairSpec
CONSTANTS
    bad = bad
    RuleFile = {1, 2, 3}
    Yaml = {1, 2}
    Checkout <- MCCheckout
    Content <- MCContent
    Bad = bad
    LeaseGrant <- MCLease
    ManagerGrant <- MCManager
    MetricsGrant <- MCMetrics
    Crds <- MCCrds
    MaxEdits = 2
    Process = {p1, p2}
    Setting = {"DEBOUNCE_THRESHOLD", "K8S_API_TIMEOUT"}
    Default <- MCDefault
    Environment <- MCEnvironment
    Unset = Unset
    Malformed = Malformed
    Second = 4
    Width = 8
    LeaseDuration = 4
    RenewDeadline = 2
    Former = Former
    MaxCrashes = 3
INVARIANTS GrantsMatchRules OperatorMayWatch OneActiveManager SettingsAreEnvironments
PROPERTIES LeaderEventually
CHECK_DEADLOCK FALSE
