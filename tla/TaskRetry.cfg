SPECIFICATION Spec
CHECK_DEADLOCK FALSE
CONSTANTS
  draft = draft
  report = report
  survey = survey
  Order <- GraphOrder
  Deps <- GraphDeps
  Overlaps <- GraphOverlaps
  Other = Other
  None = None
  MaxParallel = 2
  RetryLimit <- GraphRetries
  MaxRepairs = 1
  MaxReAsks = 1
  MaxAttempt = 4
  MaxEvents = 1
  LateFailures = TRUE
PROPERTY
  RetryIsANewAttempt
