SPECIFICATION Spec
CONSTANTS
  Worker = {w1, w2}
  JobsCap = 2
  Footprint = {1, 2}
  MaxBytesPerFlush = 2
  PodSinks = 4
  MaxMessages = 6
INVARIANT PodTotalBounded
CHECK_DEADLOCK FALSE
