SPECIFICATION FairSpec
CONSTANTS
    Clients = {c1, c2}
    Ids = {1, 2}
    MaxActive = 1
    TTL = 2
    IdleTTL = 1
    TicketTTL = 2
    TicketGrace = 1
    PageCount = 2
    MaxTime = 3
    MaxRestarts = 1
INVARIANTS NeverClosedWhileExporting NoReaderLeaks
PROPERTIES ReadersEventuallyClose RequestsAnswered
