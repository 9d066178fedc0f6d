CONSTANTS
  Fee = 1
  DalFee = 1
  Amount = 1
  Ticket = 4
  FirstNotes <- MCFirstNotes
  CheckpointEvery = 2
  MaxEvents = 3
  MaxAddr = 3
  MaxNonce = 2
SPECIFICATION Spec
INVARIANTS NotesKept RefusedOnlyAfterLoss PoolsRecoverable
PROPERTIES SyncExact
