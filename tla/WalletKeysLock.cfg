CONSTANTS
  Pid = {1, 2, 3}
  MaxActive = 2
  Addr = {0, 1}
  TreeSize = 2
  PollCap = 2
  MaxUnknown = 2
  Sighash <- MCSighash
  W = 4
  MsgDigits = 2
  SumDigits = 2
SPECIFICATION Spec
INVARIANT OneHolder
CHECK_DEADLOCK FALSE
