SPECIFICATION Spec
CHECK_DEADLOCK FALSE
CONSTANTS
  MaxDoc = 3
  MaxMeta = 2
  MaxWrites = 3
  MaxFaults = 1
  Hurried = TRUE
  None = None
INVARIANT
  EvictionKeepsTranscript
