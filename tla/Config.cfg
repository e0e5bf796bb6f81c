SPECIFICATION Spec
CONSTANTS
    p1 = p1
    p2 = p2
    g = g
    s = s
    t = t
    Procs = {p1, p2}
    Savers = {p1}
    Names = {g, s, t}
    Regexes <- OneOrTwo
    Order <- FileOrder
    MaxSections = 4
    MaxOps = 2
    FileFails = TRUE
    FlushFails = TRUE
INVARIANTS OrderIsReal SomeCopy
PROPERTIES DeleteKeepsNames Finishes
CHECK_DEADLOCK FALSE
