SPECIFICATION FairSpec
CONSTANTS
    Requests = {r1, r2}
    BodySizes = {1}
    MaxSent = 1
    MaxBody = 1
    StoreUpstream = FALSE
    QueueSize = 1
    CollectorQueue = 2
    BatchSize = 2
    Rejected = {}
    Unstorable = {r2}
    LateHooks = {}
    MaxFaults = 2
    Threads = {t1}
INVARIANTS SummariesExact AcceptedIsKept
PROPERTIES AcceptedIsArchived
CHECK_DEADLOCK FALSE
