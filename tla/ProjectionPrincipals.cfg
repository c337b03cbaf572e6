SPECIFICATION Spec
CONSTANTS
  Requests <- MCRequests
  Sessions = {"thread", "execution"}
  Credentials = {"k1", "k2"}
  Principals = {"p", "q"}
  Legacy <- MCLegacy
  Archived <- MCArchived
  ThreadId <- MCThreadId
  SessionHeader <- MCSessionHeader
  Fallback <- MCFallback
  Stable <- MCStable
  Cred <- MCCred
  Given <- MCGiven
  Command <- MCCommand
  TurnOf <- MCTurnOf
  Mappings <- MCMappings
  Attempts = 2
  MaxSends = 0
  MaxApplies = 2
  MaxFaults = 0
INVARIANT PrincipalsAreShown
CHECK_DEADLOCK FALSE
