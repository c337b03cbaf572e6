SPECIFICATION Spec
CONSTANTS
    HistoryLimit = 2
    Commands = {"c1", "c2"}
    Priors <- MCPriors
    TurnNames <- MCTurnNames
    MaxRequests = 4
    Readers = {"u1"}
    MaxRead = 2
    MaxFaults = 1
INVARIANTS
    NothingHidden
    TimelineExact
    TurnsMatch
    SampleIsWhole
    OneJobPerTurn
    TextIsOwn
PROPERTY PagesAreAnswered
CHECK_DEADLOCK FALSE
