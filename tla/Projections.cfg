SPECIFICATION FairSpec
CONSTANTS
  Requests <- MCRequests
  Sessions = {"thread", "execution"}
  Credentials = {"k1", "k2"}
  Principals = {"p", "q"}
  Legacy <- MCLegacy
  Archived <- MCArchived
  ThreadId <- MCThreadId
  SessionHeader <- MCSessionHeader
  Fallback <- MCFallback
  Stable <- MCStable
  Cred <- MCCred
  Given <- MCGiven
  Command <- MCCommand
  TurnOf <- MCTurnOf
  Mappings <- MCMappings
  Attempts = 2
  MaxSends = 2
  MaxApplies = 2
  MaxFaults = 2
INVARIANTS IndexExact ReadyIsComplete RecordedIsRepaired TurnViewsAgree SummaryFromOwnRows
PROPERTIES PrincipalIsKept BecomesReady
CHECK_DEADLOCK FALSE
