SPECIFICATION FairSpec
CONSTANTS
    Replicas = {r1, r2}
    Jobs = {evaluator, watcher}
    Sessions = {s1, s2, s3}
    None = None
    MaxFaults = 2
INVARIANTS TypeOK LockConnHoldsLock OneLivePrimary
PROPERTIES StartsOnlyWithLock StablePrimary JobsKeepRunning
