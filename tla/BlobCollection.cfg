SPECIFICATION MCSpec
CONSTANTS
  Requests = {"r1", "r2"}
  Payloads <- MCPayloads
  Blobs <- MCBlobs
  Parts <- MCParts
  Terminal <- MCTerminal
  MaxCommits = 2
  Rank <- MCRank
  BatchSize = 2
  Small = {"ma", "mb", "ms", "attachment"}
  CacheSize = 2
  MaxWrites = 2
INVARIANTS NoDanglingReference MarkedIsNormalized ExportIsFaithful
PROPERTIES KeepsContract FailsOnlyWhenRewritten
CHECK_DEADLOCK FALSE
