\* The same heap, asked whether every block handed out can be freed.
CONSTANTS
  HeapBase = 96
  MinOrder = 1
  MaxOrder = 7
  BlockSize <- MCBlockSize
  HeaderSize = 4
  WordSize = 65536
  Requests = {9, 25, 50}
SPECIFICATION Spec
INVARIANT NothingStranded
