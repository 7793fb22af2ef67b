SPECIFICATION Spec
CONSTANTS
  Msg = {m1, m2}
  Worker = {w1, w2}
  MaxRowsPerFlush = 2
  JobsCap = 1
  FetchBatch = 1
  MaxDeliver = 2
  PoisonThreshold = 2
  ProbeLimit = 3
  AckWaitCovers = FALSE
  MaxFaults = 1
SYMMETRY Symmetry
INVARIANTS TypeOK AckedIsStored DropsHaveEvidence OneRowPerDelivery
PROPERTY KeepsPromise
CHECK_DEADLOCK FALSE
