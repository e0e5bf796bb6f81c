SPECIFICATION LogSpec
CONSTANTS
    g1 = g1
    g2 = g2
    Loggers = {g1, g2}
    maxFileCount = 2
    maxFileSize = 2
    MaxLines = 8
    MaxDays = 3
    MaxRestarts = 2
INVARIANT KeepsTail
PROPERTIES OncePerDay FullIsReplaced
CHECK_DEADLOCK FALSE
