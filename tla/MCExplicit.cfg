CONSTANTS
  HeapLo = 8
  MaxHeap = 80
  GARBAGE = 0
  SIZE_BITS = 16
  CallocArgs <- MCCallocArgs
  Requests <- MCRequests
  MAX_FIT <- MCMaxFit
  MAX_NFIT <- MCMaxNFit
SPECIFICATION Spec
CHECK_DEADLOCK FALSE
VIEW ReadView
INVARIANTS
  TypeOK
  HeapWalkReachesEpilogue
  PreAllocMatches
  NoAdjacentFree
  FreeListExact
  FreeFooterMatches
  LiveBlocksAllocated
  LivePayloadIntact
PROPERTIES
  MissOnlyWithoutFit
  Refinement
