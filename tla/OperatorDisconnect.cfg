CONSTANTS
  Id = {1, 2}
  Direct = {2}
  MayDisconnect = {1}
  Reconciler = Reconciler
  None = None
  Empty = Empty
  Torn = Torn
  PayloadLen = 2
  ChunkSize = {2}
  DalEndpoint = {TRUE, FALSE}
  MaxAttempts = 1
  MaxPointers = 2
  MaxFaults = 1
SPECIFICATION Spec
INVARIANT
  SubmittedIsInjected
PROPERTY
  Terminates
