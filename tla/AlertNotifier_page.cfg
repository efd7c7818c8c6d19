SPECIFICATION Spec
CONSTANTS
    r1 = r1  r2 = r2
    slack = slack  pager = pager
    warning = warning  critical = critical
    NoKey = NoKey  Posted = Posted  None = None
    Replicas = {r1, r2}
    Destinations = {slack, pager}
    Routes <- MCRoutes
    Pagers = {pager}
    Slacks = {slack}
    Alerts = {1}
    Severities = {warning, critical}
    Window = 1
    MaxTime = 2
    MaxRequests = 2
    MaxFaults = 0
    LockLoss = FALSE
    Operations = {"end", "severity"}
PROPERTIES EndClosesPage
