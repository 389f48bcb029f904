CONSTANTS
  HeapLo = 8
  MaxHeap = 104
  GARBAGE = 0
  SIZE_BITS = 16
  CallocArgs <- MCNoCallocArgs
  Requests <- MCListRequests
  MAX_FIT <- MCMaxFit
  MAX_NFIT <- MCMaxNFit
SPECIFICATION Spec
CHECK_DEADLOCK FALSE
VIEW ReadView
INVARIANTS
  FreeListExact
