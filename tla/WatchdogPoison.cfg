SPECIFICATION WatchdogSpec
CONSTANTS
  Flusher = {w1}
  Window = 3
  MaxLag = 1
INVARIANT HealthyNeverTrips
