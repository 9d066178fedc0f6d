CONSTANTS
  Depth = 3
  ZERO = "ZERO"
  Commitment = {"one", "two"}
SPECIFICATION Spec
INVARIANTS
  RootsAgree
  PathsVerify
  OneIndexPerPath
  FrontierLive
CHECK_DEADLOCK FALSE
