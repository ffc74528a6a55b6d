\* Two words of two bytes of two pages.
SPECIFICATION FairSpec
CONSTANTS
  NumPages = 8
  ByteBits = 2
  WordBytes = 2
  Reserved = {}
  Requests = {1, 2, 3}
PROPERTY SearchEnds
