SPECIFICATION FairSessionSpec
CONSTANTS
  a = a
  b = b
  Nobody = nobody
  Tabs <- TwoTabs
  Lockless <- NoTabs
  Callers <- OneCaller
  MaxCalls = 1
  MaxRounds = 2
  MaxTerms = 4
  MaxChurn = 1
  MaxRestarts = 0
  Ordered = TRUE
  ClosingListeners = FALSE
PROPERTIES
  ConnectingEnds EveryCallSettles
CHECK_DEADLOCK FALSE
