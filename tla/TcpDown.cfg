SPECIFICATION SafeSpec
CONSTANTS
  MaxCalls = 3
  SeqMod = 4
  ReqMaxSize = 1
  NetCap = 1
  MaxAnswers = 1
PROPERTIES DownIsRefused
CHECK_DEADLOCK FALSE
