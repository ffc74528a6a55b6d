SPECIFICATION Spec
CONSTANTS
  MaxPid = 4
  MaxMsg = 1
  MaxRegions = 1
  MaxFds = 1
  Fids = {0}
  NumPages = 7
  PageSize = 4096
  Reserved = {}
  RamPages = {0, 1}
  RegionPages = {1}
  Leftovers <- MCReused
  MaxMishaps = 0
  MaxTasks = 3
  MaxRefs = 1
INVARIANT NoSharedPage
PROPERTY MailKept
