CONSTANTS
  HeapLo = 8
  MaxHeap = 80
  GARBAGE = 0
  SIZE_BITS = 7
  CallocArgs <- MCNoCallocArgs
  Requests <- MCWrapRequests
  MAX_FIT <- MCMaxFit
  MAX_NFIT <- MCMaxNFit
SPECIFICATION Spec
CHECK_DEADLOCK FALSE
INVARIANT LiveBlocksAllocated
