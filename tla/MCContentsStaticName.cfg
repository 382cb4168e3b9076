SPECIFICATION Spec
CONSTANTS
  Files = {1, 2}
  Base <- OwnBase
  SubDirs = 2
  Static = {2}
  PerPage = 1
  MaxEdits = 0
  MaxLoads = 0
  NoKey = NoKey
INVARIANTS
  RequestReturnsItsKey
