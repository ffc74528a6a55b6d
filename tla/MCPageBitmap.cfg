\* Two words of two bytes of two pages.
SPECIFICATION FairSpec
CONSTANTS
  NumPages = 8
  ByteBits = 2
  WordBytes = 2
  Reserved = {5}
  Requests = {1, 2, 3}
INVARIANT TypeOK
INVARIANT Accounted
PROPERTY ImplementsRegionAlloc
PROPERTY OnePageEnds
