SPECIFICATION SessionSpec
CONSTANTS
  a = a
  b = b
  Nobody = nobody
  Tabs <- TwoTabs
  Lockless <- NoTabs
  Callers <- NoTabs
  MaxCalls = 1
  MaxRounds = 2
  MaxTerms = 4
  MaxChurn = 2
  MaxRestarts = 1
  Ordered = TRUE
  ClosingListeners = TRUE
INVARIANTS
  OneWorker
  HostOwnsDataset
PROPERTIES
  ServesAsLease
CHECK_DEADLOCK FALSE
