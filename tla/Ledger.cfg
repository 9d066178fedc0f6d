CONSTANTS
  PoolKey = {k1, k2}
  Commitment = {"one", "two"}
  Value <- MCValue
  ZERO = "ZERO"
  Recipient = {alice, bob}
  Domain = {"here", "elsewhere"}
  Here = "here"
  MaxInputs = 2
  MinTxFee = 1
  TxFee = {0, 1}
  U64Max = 5
  Capacity = 7
  MaxValidRoots = 3
  MaxDeposited = 7
SPECIFICATION Spec
SYMMETRY Symmetry
INVARIANTS
  TypeOK
  Conservation
  WithdrawalsAsSigned
  ShieldOnce
  NotesRecoverable
  RootWindow
PROPERTY AppendOnly
CHECK_DEADLOCK FALSE
