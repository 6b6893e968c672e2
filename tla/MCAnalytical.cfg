SPECIFICATION AnalyticalSpec
CONSTANTS
  c1 = c1
  c2 = c2
  r1 = r1
  r2 = r2
  p1 = p1
  p2 = p2
  p3 = p3
  Clients <- Tabs
  Runs <- TwoRuns
  Previews <- ThreeQueries
  Account <- OneSession
  Budget <- OneBudget
  Cap <- Caps
  MaxChanges = 1
  PageRows <- FourPages
  MaxRows = 4
  MaxPages = 6
  MaxRebinds = 1
  Unguarded <- Careful
  None = None
SYMMETRY AnalyticalSymmetry
INVARIANTS
  BilledWithinBudget
  OneJobPerApproval
  SubmitsApproved
  NothingSkipped
  CursorIsHonoured
PROPERTIES
  NoRowTwice
  OldAccessReadsNothing
CHECK_DEADLOCK FALSE
