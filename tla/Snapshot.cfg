SPECIFICATION FairSpec
CONSTANTS
  Requests = {r1, r2}
  Sessions = {1, 2}
  Bodies = {a}
  MaxTx = 2
  MaxClock = 3
  InvalidSessions = {}
  QueueCap = 1
  BatchLimit = 2
  OlderCopies <- EmptyCopies
  MaxFaults = 1
INVARIANTS DigestSound SummariesMatchView CopyCurrent
PROPERTIES ImplementsReplica CatchesUp
CHECK_DEADLOCK FALSE
