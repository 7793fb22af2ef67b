SPECIFICATION FairSpec
CONSTANTS
  Bundles <- TestBundles
  ProbeLimit = 3
  Unreliable = TRUE
INVARIANTS
  OncePerPass
  TypeOK
  AckedIsStored
  TermedOnEvidence
  OutageProbes
  CompletePass
  SmallBundleProgress
  LogarithmicProbes
PROPERTY PassEnds
CHECK_DEADLOCK FALSE
