SPECIFICATION MCSpec
CONSTANTS
  NumBlocks = 6
  PerSector = 3
  DirBlocks = 2
  NumSlots = 4
  Names = {"a", "truncated", "."}
  Stored <- MCStored
  Sizes = {0, 1, 2}
  Removable = {"a", "."}
  Cleaning = TRUE
  MaxCrashes = 2
  MaxFree = 8
INVARIANT TypeOK
INVARIANT LinksAscend
 
INVARIANT ListedAll
INVARIANT NoCrossLink
INVARIANT FreeNeverUnder
INVARIANT OneLossPerCrash
