SPECIFICATION FairSpec
CONSTANTS
  Consumer = {c1, c2}
  SnapshotKeep = 3
  Staleness = 2
  QueryGap = 1
  MaxSnapshots = 3
  MaxTime = 4
  MaxFaults = 1
INVARIANTS TypeOK LiveLosesNothing
PROPERTIES RetentionKept ExpiryProceeds
