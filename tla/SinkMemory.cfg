SPECIFICATION FairSpec
CONSTANTS
  Worker = {w1, w2}
  JobsCap = 2
  Footprint = {1, 2}
  MaxBytesPerFlush = 1
  PodSinks = 1
  MaxMessages = 7
INVARIANTS TypeOK TallyExact CeilingHolds
PROPERTY PressureEnds
CHECK_DEADLOCK FALSE
