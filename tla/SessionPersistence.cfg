SPECIFICATION FairSpec
CHECK_DEADLOCK FALSE
CONSTANTS
  MaxDoc = 3
  MaxMeta = 2
  MaxWrites = 3
  MaxFaults = 1
  Hurried = FALSE
  None = None
INVARIANTS
  TypeOK SavedStaysSaved UnsavedIsKnown
PROPERTY
  SnapshotsArrive
