SPECIFICATION OpfsSpec
CONSTANTS
  a = a
  b = b
  c = c
  v1 = v1
  v2 = v2
  Tabs <- MCTabs
  Lockless <- MCLockless
  MaxRounds = 2
  Nobody = nobody
  Versions <- TwoVersions
  MaxAttempts = 2
  MaxOpens = 3
  MaxEdits = 2
  MaxFaults = 1
INVARIANTS
  MutualExclusion
  CommitsAreKept
  OpenIsWhole
PROPERTIES
  ImplementsLease
  TakeOver
  EveryTaskEnds
CHECK_DEADLOCK FALSE
