SPECIFICATION FairSpec
CONSTANTS
  Consumer = {c1}
  SnapshotKeep = 3
  Staleness = 2
  QueryGap = 1
  MaxSnapshots = 3
  MaxTime = 6
  MaxFaults = 0
PROPERTY CursorIsKept
