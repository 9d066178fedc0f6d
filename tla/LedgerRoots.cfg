CONSTANTS
  PoolKey = {"k1"}
  Commitment = {"one", "two"}
  Value <- MCValue
  ZERO = "ZERO"
  Recipient = {"alice"}
  Domain = {"here"}
  Here = "here"
  MaxInputs = 1
  MinTxFee = 1
  TxFee = {0, 1}
  U64Max = 5
  Capacity = 7
  MaxValidRoots = 2
  MaxDeposited = 8
SPECIFICATION Spec
PROPERTY OldRootsRemainValid
CHECK_DEADLOCK FALSE
