SPECIFICATION Spec
CONSTANTS
    u1 = u1
    u2 = u2
    u3 = u3
    u4 = u4
    c1 = c1
    c2 = c2
    c3 = c3
    c4 = c4
    Users = {u1, u2, u3, u4}
    Conns = {c1, c2, c3, c4}
    Repairers = {u1}
    MaxCalls = 4
INVARIANTS EveryConnOnce KeepsOnlyDead
PROPERTY ReturnsUnlessStuck
CHECK_DEADLOCK FALSE
