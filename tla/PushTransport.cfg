SPECIFICATION FairSpec
CHECK_DEADLOCK FALSE
CONSTANTS
  MaxPush = 3
  MaxFaults = 2
  BufferMax = 2
  RetainedMax = 1
  None = None
INVARIANTS
  TypeOK OneHome
PROPERTIES
  ImplementsPushChannel CatchesUp
