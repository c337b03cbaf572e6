SPECIFICATION Spec
CONSTANTS
    Requests = {r1}
    BodySizes = {0, 1, 3}
    MaxSent = 4
    MaxBody = 2
    StoreUpstream = TRUE
    QueueSize = 1
    CollectorQueue = 1
    BatchSize = 2
    Rejected = {}
    Unstorable = {}
    LateHooks = {r1}
    MaxFaults = 2
    Threads = {t1}
INVARIANTS CutIsFlagged ActiveIsOpen
CHECK_DEADLOCK FALSE
