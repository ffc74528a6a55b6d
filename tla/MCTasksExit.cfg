SPECIFICATION Spec
CONSTANTS
  MaxPid = 3
  MaxMsg = 1
  MaxRegions = 1
  MaxFds = 1
  Fids = {0, 1}
  NumPages = 8
  PageSize = 4096
  Reserved = {0}
  RamPages = {0, 1}
  RegionPages = {1}
  Leftovers <- MCZeroed
  MaxMishaps = 3
  MaxTasks = 3
  MaxRefs = 2
INVARIANT FreedNeverRuns
