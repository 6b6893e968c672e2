SPECIFICATION MCSpec
SYMMETRY TabSymmetry
CONSTANTS
  a = a
  b = b
  c = c
  Nobody = nobody
  Tabs <- ThreeTabs
  Callers <- OneCaller
  MaxCalls = 1
  MaxPosts = 1
  MaxTerms = 2
  MaxChurn = 1
  Ordered = FALSE
INVARIANTS
  NoStrandedCall
  AnsweredByItsLeader
  RunsAtMostOnce
  NoStrandedPort
CHECK_DEADLOCK FALSE
