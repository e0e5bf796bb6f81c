SPECIFICATION Spec
CONSTANTS
  MaxCalls = 3
  SeqMod = 4
  ReqMaxSize = 1
  NetCap = 1
  MaxAnswers = 2
INVARIANT ClosedOnce
PROPERTIES ImplementsRpc BothLeave ReturnsUnlessStuck
CHECK_DEADLOCK FALSE
