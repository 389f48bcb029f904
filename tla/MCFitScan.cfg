CONSTANTS
  HeapLo = 8
  MaxHeap = 104
  GARBAGE = 0
  SIZE_BITS = 16
  MAX_FIT = 3
  MAX_NFIT = 1
  FitSizes = {8, 16, 24}
  FitRequests = {16, 24}
  MaxLen = 4
SPECIFICATION Spec
CHECK_DEADLOCK FALSE
INVARIANT FitAsSpecified
