SPECIFICATION FairSpec
CONSTANTS
  Files = {1, 2}
  Base <- OwnBase
  SubDirs = 2
  Static = {}
  PerPage = 1
  MaxEdits = 1
  MaxLoads = 2
  NoKey = NoKey
PROPERTIES
  LoadTerminates
