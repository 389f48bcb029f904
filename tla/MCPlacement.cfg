CONSTANTS
  HeapLo = 8
  MaxHeap = 104
  GARBAGE = 0
  SIZE_BITS = 16
  threshold <- PlaceThreshold
  FIT_LIMIT = 2
  CHUNKSIZE = 32
  FitSizes = {16, 24, 32, 40}
  MaxLen = 4
SPECIFICATION Spec
CHECK_DEADLOCK FALSE
INVARIANTS
  SegPlacementAsSpecified
  FooterPlacementAsSpecified
