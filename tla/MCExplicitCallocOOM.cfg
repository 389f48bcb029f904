CONSTANTS
  HeapLo = 8
  MaxHeap = 64
  GARBAGE = 0
  SIZE_BITS = 16
  CallocArgs <- MCCallocArgs
  Requests <- MCRequests
  MAX_FIT <- MCMaxFit
  MAX_NFIT <- MCMaxNFit
SPECIFICATION Spec
CHECK_DEADLOCK FALSE
INVARIANT CallocNullChecked
