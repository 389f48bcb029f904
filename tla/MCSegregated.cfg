CONSTANTS
  HeapLo = 8
  MaxHeap = 80
  GARBAGE = 0
  SIZE_BITS = 16
  CallocArgs <- MCCallocArgs
  Requests <- MCRequests
  threshold <- MCThreshold
  FIT_LIMIT <- MCFitLimit
SPECIFICATION Spec
CHECK_DEADLOCK FALSE
VIEW ReadView
INVARIANTS
  TypeOK
  HeapWalkReachesEpilogue
  PreAllocMatches
  NoAdjacentFree
  SegListsExact
  FreeFooterMatches
  LiveBlocksAllocated
  LivePayloadIntact
PROPERTIES
  MissOnlyWithoutFit
  Refinement
