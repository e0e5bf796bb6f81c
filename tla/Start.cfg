SPECIFICATION StartSpec
CONSTANTS
    c1 = c1
    c2 = c2
    Callers = {c1, c2}
    MaxSections = 2
    maxRemoteSrvIP = 3
INVARIANT PreparedIsSafe
PROPERTY WaitersAreServed
CHECK_DEADLOCK FALSE
