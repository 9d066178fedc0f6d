CONSTANTS
  Depth = 16
  K = 2
  Targets = {0, 1000}
SPECIFICATION Spec
INVARIANTS PathsAccepted NeverMissing
CHECK_DEADLOCK FALSE
