SPECIFICATION FairSpec
CONSTANTS
    r1 = r1  r2 = r2
    slack = slack  pager = pager
    warning = warning
    NoKey = NoKey  Posted = Posted  None = None
    Replicas = {r1, r2}
    Destinations = {slack, pager}
    Routes <- MCRoutes
    Pagers = {pager}
    Slacks = {slack}
    Alerts = {1}
    Severities = {warning}
    Window = 1
    MaxTime = 2
    MaxRequests = 1
    MaxFaults = 2
    LockLoss = FALSE
    Operations = {"end"}
PROPERTIES EventuallySent
