SPECIFICATION MCSpec
CONSTANTS
    d1 = d1
    d2 = d2
    k1 = k1
    p1 = p1
    p2 = p2
    Bases = {k1}
    Docs = {d1, d2}
    Pods = {p1, p2}
    Slots = 1
    Size <- Sizes
    MaxFaults = 1
CHECK_DEADLOCK FALSE
INVARIANTS
    TypeOK
    StatusTellsChunks
    OrphansNeedRace
    CountsAgree
PROPERTIES
    UploadsSettle
