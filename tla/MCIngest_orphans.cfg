SPECIFICATION Spec
CONSTANTS
    d1 = d1
    d2 = d2
    k1 = k1
    p1 = p1
    p2 = p2
    Bases = {k1}
    Docs = {d1}
    Pods = {p1}
    Slots = 2
    Size <- Sizes
    MaxFaults = 0
CHECK_DEADLOCK FALSE
INVARIANTS
    DeletedChunksStayDeleted
