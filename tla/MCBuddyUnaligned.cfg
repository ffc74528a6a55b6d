\* The linker aligns _kernel_heap to a page only, not to the size of the
\* heap; 65534 is a request so long that adding the header wraps around.
CONSTANTS
  HeapBase = 80
  MinOrder = 1
  MaxOrder = 6
  BlockSize <- MCBlockSize
  HeaderSize = 4
  WordSize = 65536
  Requests = {8, 9, 25, 65534}
SPECIFICATION Spec
INVARIANTS NoOverlap Coverage
