SPECIFICATION FairSpec
CONSTANTS
    check = check  promql = promql  log = log  k8s = k8s
    checkFp = checkFp  promqlFp = promqlFp
    log1 = log1  log2 = log2  k8s1 = k8s1  k8s2 = k8s2
    app = app
    NoApp = NoApp
    None = None
    Rules <- MCRules
    Fingerprints <- MCFingerprints
    Apps = {app}
    Builtin = {check, promql}
    RuleSets <- TimedRules
    RuleType <- MCRuleType
    Selected <- MCSelected
    RuleOf <- MCRuleOf
    AppOf <- MCAppOf
    Similar <- MCSimilar
    For <- MCFor
    KeepFiringFor <- MCKeep
    PendingTTL = 2
    MaxAlertsPerApp = 1
    MaxAge <- MCMaxAge
    MaxChanges = 3
    MaxRequests <- OneRequest
    MaxFaults = 1
    Operations = {"resolve", "suppress", "delete"}
PROPERTIES ClearedIsResolved LastingConditionFires
