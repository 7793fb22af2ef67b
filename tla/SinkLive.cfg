SPECIFICATION FairSpec
CONSTANTS
  Msg = {m1, m2}
  Worker = {w1, w2}
  MaxRowsPerFlush = 2
  JobsCap = 1
  FetchBatch = 1
  MaxDeliver = 3
  PoisonThreshold = 2
  ProbeLimit = 3
  AckWaitCovers = TRUE
  MaxFaults = 1
PROPERTY HealthyIsStored
CHECK_DEADLOCK FALSE
