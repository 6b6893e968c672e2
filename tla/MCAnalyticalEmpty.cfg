SPECIFICATION CursorSpec
CONSTANTS
  c1 = c1
  c2 = c2
  Clients <- Tabs
  PageRows <- EmptyBetween
  MaxRows = 2
  MaxPages = 6
  MaxRebinds = 1
  Unguarded <- Careful
  None = None
SYMMETRY Symmetry
INVARIANTS
  BoundaryIsFetched
CHECK_DEADLOCK FALSE
