SPECIFICATION CacheSpec
CONSTANTS
    c1 = c1
    c2 = c2
    a = a
    b = b
    Clients = {c1, c2}
    Keys = {a, b}
    MaxOps = 5
INVARIANT NamedUnlessRaced
PROPERTY ClearAllClears
CHECK_DEADLOCK FALSE
