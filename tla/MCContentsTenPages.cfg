SPECIFICATION Spec
CONSTANTS
  Files = {1, 2, 3, 4, 5, 6, 7, 8, 9, 10}
  Base <- OwnBase
  SubDirs = 2
  Static = {}
  PerPage = 1
  MaxEdits = 0
  MaxLoads = 0
  NoKey = NoKey
INVARIANTS
  MoreLinkOpensNextPage
