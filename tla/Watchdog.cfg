SPECIFICATION WatchdogFairSpec
CONSTANTS
  Flusher = {w1, w2}
  Window = 5
  MaxLag = 1
INVARIANTS WatchdogTypeOK StreakIsRecent
PROPERTIES FatalMeansStarved BrokenIsReplaced
