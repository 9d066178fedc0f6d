CONSTANTS
  PoolKey = {"k"}
  Commitment = {"nil", "two"}
  Value <- MCValue
  ZERO = "ZERO"
  Recipient = {"alice"}
  Domain = {"default", "here"}
  Here = "here"
  MaxInputs = 2
  MinTxFee = 1
  TxFee = {1, 2}
  U64Max = 5
  Capacity = 8
  Depth = 3
  Contract = {"KT1A", "KT1B", "tz1"}
  KT1 = {"KT1A", "KT1B"}
  SignedDomain = {"here"}
  SignedBridge = {"KT1A", "tz1"}
  DefaultDomain = "default"
  None = "none"
  BasePrivateTxsPerLevel = 1
  MaxDynamicFeeStep = 1
  MaxLevel = 2
  MaxDeposited = 8
SPECIFICATION Spec
INVARIANTS
  TreeReadable
  MarkersMatchIndexes
  OutboxMatchesQueue
  DepositsAnchored
  FeeSchedule
PROPERTY ImplementsLedger
CHECK_DEADLOCK FALSE
