\* The heap starts at a multiple of its size.
CONSTANTS
  HeapBase = 128
  MinOrder = 1
  MaxOrder = 7
  BlockSize <- MCBlockSize
  HeaderSize = 4
  WordSize = 65536
  Requests = {0, 8, 9, 50, 120, 121}
SPECIFICATION Spec
INVARIANTS TypeOK NoOverlap Coverage FullyMerged NothingStranded HeapRestored
PROPERTY ImplementsRegionAlloc
