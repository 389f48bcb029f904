CONSTANTS
  HeapLo = 1024
  MaxHeap = 88
  GARBAGE = 0
  SIZE_BITS = 16
  CallocArgs <- MCNoCallocArgs
  Requests <- MCRequests
  CHUNKSIZE <- MCChunk
  FIT_LIMIT <- MCFitLimit
SPECIFICATION Spec
CHECK_DEADLOCK FALSE
INVARIANT ReallocNullChecked
