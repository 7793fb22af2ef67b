SPECIFICATION MCSpec
CONSTANTS
  Payloads <- MCPayloads
  MaxEvents = 2
  MaxFaults = 2
  Remotes = {"r", "s", "t"}
  Burst = 3
  MaxKeys = 2
  Pods = {"p", "q"}
  Counts = {1, 2, 3}
  Subjects = {0, 1, 2}
  MaxRescales = 2
  Workers = {"v", "w"}
  Names <- MCNames
  MaxBatch = 2
  MaxDeliver = 2
  MaxFetchRetries = 2
  MaxLen = 3
  MaxTime = 4
  Now = 3
  maxLatLongDur = 2
INVARIANTS
  AnswerIsTrue
  PermanentIsEarned
  StoredOncePerWindow
  EvictionInvisible
  NothingStranded
  AckedIsPublished
  DecodeMatchesReference
PROPERTIES
  DeviceIsServed
CHECK_DEADLOCK FALSE
