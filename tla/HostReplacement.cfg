\* A turn that is replaced after an authentication error keeps its inputs.
SPECIFICATION Spec
CHECK_DEADLOCK FALSE
CONSTANTS
  Input = {i1, i2}
  Retries = 1
INVARIANT
  RetryKeepsInputs
