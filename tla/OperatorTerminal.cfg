CONSTANTS
  Id = {1}
  Direct = {}
  MayDisconnect = {1}
  Reconciler = Reconciler
  None = None
  Empty = Empty
  Torn = Torn
  PayloadLen = 2
  ChunkSize = {2}
  DalEndpoint = {TRUE}
  MaxAttempts = 2
  MaxPointers = 2
  MaxFaults = 0
SPECIFICATION Spec
PROPERTY
  TerminalIsFinal
