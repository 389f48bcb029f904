CONSTANTS
  HeapLo = 1024
  MaxHeap = 88
  GARBAGE = 0
  SIZE_BITS = 16
  CallocArgs <- MCCallocArgs
  Requests <- MCRequests
  CHUNKSIZE <- MCChunk
  FIT_LIMIT <- MCFitLimit
SPECIFICATION Spec
CHECK_DEADLOCK FALSE
VIEW ReadView
INVARIANTS
  TypeOK
  EpilogueAtBreak
  NoAdjacentFree
  FreeListExact
  BoundaryTagsMatch
  LiveBlocksAllocated
  LivePayloadIntact
PROPERTIES
  MissOnlyWithoutFit
  Refinement
