SPECIFICATION Spec
CONSTANTS
  NumBlocks = 7
  PerSector = 3
  DirBlocks = 2
  NumSlots = 4
  Names = {"a", "b"}
  Stored <- MCShort
  Sizes = {1, 2}
  Removable = {}
  Cleaning = FALSE
  MaxCrashes = 0
  MaxFree = 12
PROPERTY ExtendAppends
