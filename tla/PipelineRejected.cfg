SPECIFICATION FairSpec
CONSTANTS
    Requests = {r1, r2}
    BodySizes = {1}
    MaxSent = 1
    MaxBody = 1
    StoreUpstream = FALSE
    QueueSize = 2
    CollectorQueue = 1
    BatchSize = 2
    Rejected = {r2}
    Unstorable = {}
    LateHooks = {}
    MaxFaults = 0
    Threads = {t1}
PROPERTIES AcceptedIsArchived
CHECK_DEADLOCK FALSE
