CONSTANTS
  Id = {1}
  Direct = {}
  MayDisconnect = {}
  Reconciler = Reconciler
  None = None
  Empty = Empty
  Torn = Torn
  PayloadLen = 3
  ChunkSize = {1, 2}
  DalEndpoint = {TRUE, FALSE}
  MaxAttempts = 2
  MaxPointers = 2
  MaxFaults = 1
SPECIFICATION Spec
INVARIANTS
  PointersDeliverable
  Resumable
  DuplicatesNeedFaults
PROPERTIES
  TerminalIsFinal
  Terminates
