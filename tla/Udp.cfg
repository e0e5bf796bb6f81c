SPECIFICATION Spec
CONSTANTS
  MaxCalls = 3
  SeqMod = 4
  ReqMaxSize = 1
INVARIANTS OwnReply RspSlotFree NoOrphan
PROPERTIES KeepsWaiters ImplementsRpc Drained
