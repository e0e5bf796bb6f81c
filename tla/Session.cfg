SPECIFICATION Spec
CONSTANTS
  MaxPkgs = 3
  SendChanSize = 1
  NetCap = 1
  IdleLimit = 1
INVARIANT ClosedOnce
PROPERTIES LoopsEnd RecvEndsOrLeaks SilentIsDropped AcceptedIsWritten
CHECK_DEADLOCK FALSE
