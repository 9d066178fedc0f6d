SPECIFICATION Spec
CONSTANTS
  MaxBytes = 64
  MaxChunks = 12
  SlotSize = 8
  PageSize = 4
  NumberOfSlots = 2
  SlotIndex = 1
  MaxDalPayload = 22
  Message <- MCMessage
  Plain <- MCPlain
  Tag <- MCTag
  OperatorKey = 2
  FeeIndex = 0
  RequiredDalFee = 1
  WatchedKey = 1
  ChunkSize = {5, 6, 8}
  NoteChunk = 2
  Concurrency = 2
  Addresses = 2
  MaxNotes = 3
  MaxEdits = 2
  MaxFaults = 1
INVARIANTS UniqueEncoding DeliveredOrNone DeliveredExact WatchExact ViewedReal
PROPERTIES WatchCatchesUp
