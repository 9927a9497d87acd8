\* Two inputs, and two turns that are replaced after an authentication error.
SPECIFICATION FairSpec
CHECK_DEADLOCK FALSE
CONSTANTS
  Input = {i1, i2}
  Retries = 2
INVARIANTS
  TypeOK
  ForegroundOwnsItsRun
  DriversDoNotOverlap
  AdmittedInputsBegin
  InputsAreGivenOnce
  BusyHasAnOwner
PROPERTIES
  StoppedTurnsEnd
  QueuesAreServed
