SPECIFICATION FairSpec
CONSTANTS
  MaxPid = 3
  MaxMsg = 1
  MaxRegions = 1
  MaxFds = 2
  Fids = {0}
  NumPages = 3
  PageSize = 4096
  Reserved = {}
  RamPages = {0}
  RegionPages = {}
  Leftovers <- MCZeroed
  MaxMishaps = 3
  MaxTasks = 4
  MaxRefs = 3
INVARIANT TypeOK
INVARIANT LivePidsDistinct
INVARIANT FdsCounted
PROPERTY EveryTaskRuns
