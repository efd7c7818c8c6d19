SPECIFICATION PipelineSpec
CONSTANTS
    r1 = r1
    r2 = r2
    m1 = m1
    m2 = m2
    d1 = d1
    s1 = s1
    s2 = s2
    q1 = q1
    t1 = t1
    c1 = c1
    None = None
    Replicas = {r1, r2}

    Migrators = {m1, m2}
    ReplicaOf <- MCReplicaOf
    ClickHouses = {c1}
    Targets = {t1}
    TargetOf <- MCTargetOf
    Latest = 2
    Size = 2
    Sentinel = 1
    MaxBreaks = 2
    MaxWipes = 1

    Collectors = {r1}
    Databases = {d1, d2}
    MaxMoves = 1
    MaxErrors = 1

    Requests = {1}
    Limit = 2
    MaxHeld = 1
    Memory = 2
    Rewrite = 2
    TTL = 4
    Day = 2
    MaxTime = 2
    MaxMishaps = 1

    Queries = {q1}
    Series = {s1, s2}
    QueryOf <- MCQueryOf
    Rule = rule
    Backfill = 1
    Margin = 2
    Lag = 1
    Lookahead = 1
    Timeout = 1
    StartTime = 4
    MaxClock = 7
    MaxTroubles = 2

    Evaluated = {p1, p2}
    Multicluster = {p3}
    QueueSize = 1
    MaxStores = 2

    Applications = {a1}
    Messengers = {}
    Pagers = {pager}
    MaxIncidents = 2
    MaxIncidentFaults = 2

    ReplicaSets = {1, 2}
    DeployMessengers = {slack}
    Window = 3
    SnapshotAfter = 2
    StuckAfter = 1
    MaxSteps = 5
    MaxDeployFaults = 3

    MaxStartFaults = 2
INVARIANTS
    RecordedIsApplied
    TakeTurns
    Follows
    CountedAtMostOnce
    CountedAtLeastOnce
    BodyKept
    EachStepOnce
    LabelsFirst
    RulesWhole
    NoLostUpdate
    PagesClose
    RowsAreRollouts
    HeardInOrder
    StartsWhole
CHECK_DEADLOCK FALSE
