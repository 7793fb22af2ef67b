SPECIFICATION MCSpec
CONSTANTS
  Puts = {"a", "b", "c"}
  Keys = {"k", "l"}
  KeyOf <- MCKeyOf
  NoPut = "none"
  Dirs = {"d"}
  DirOf <- MCDirOf
  MaxCrashes = 1
  Pods = {"maint", "ingest"}
  Maintainers = {"maint"}
  Listing <- MCListing
  Batch = 1
  PauseStaleness = 1
  MaxRuns = 2
  MaxFailures = 2
  DataFiles = {1, 2, 3}
  Readers = {"r"}
  Grace = 1
  OrphanRetention = 3
  MaxRead = 1
  MaxWrite = 1
  MaxLag = 1
  MaxDetect = 1
  MaxRestores = 1
  Pins = {0, 7}
  Budgets = {100}
  Averages = {0, 2}
  Fits = {1, 32, 100}
  Backlog = 34
  MaxArrivals = 1
  MaxErrors = 4
INVARIANTS
  BackfillExact
  BytesOutliveTheirUse
PROPERTIES
  StoreImplements
  LayoutRestored
  MergeConverges
CHECK_DEADLOCK FALSE
