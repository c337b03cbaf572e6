SPECIFICATION Spec
CONSTANTS
    Clients = {c1, c2}
    Ids = {1, 2}
    MaxActive = 1
    TTL = 3
    IdleTTL = 2
    TicketTTL = 2
    TicketGrace = 1
    PageCount = 2
    MaxTime = 5
    MaxRestarts = 0
SYMMETRY Interchangeable
PROPERTIES ClosedIsGone
