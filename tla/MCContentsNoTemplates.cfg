SPECIFICATION Spec
CONSTANTS
  Files = {1, 2}
  Base <- OwnBase
  SubDirs = 2
  Static = {}
  PerPage = 1
  MaxEdits = 1
  MaxLoads = 1
  NoKey = NoKey
INVARIANTS
  RunsOnlyWithTemplates
