SPECIFICATION CursorSpec
CONSTANTS
  c1 = c1
  c2 = c2
  Clients <- Tabs
  PageRows <- ThreePages
  MaxRows = 4
  MaxPages = 6
  MaxRebinds = 1
  Unguarded <- Overtaking
  None = None
SYMMETRY Symmetry
PROPERTIES
  NoRowTwice
CHECK_DEADLOCK FALSE
