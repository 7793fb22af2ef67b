SPECIFICATION Spec
CONSTANTS
  Bundles <- LargeBundles
  ProbeLimit = 8
  Unreliable = FALSE
INVARIANT ShortCircuitMeansOutage
CHECK_DEADLOCK FALSE
