SPECIFICATION Spec
CONSTANTS
    s1 = s1
    s2 = s2
    t1 = t1
    t2 = t2
    x1 = x1
    x2 = x2
    c1 = c1
    c2 = c2
    c3 = c3
    Absent = Absent
    Shops = {s1, s2}
    Types = {t1}
    Places = {x1}
    Imported = {s1}
    Calls = {c1}
    MaxWrites = 1
    MaxFaults = 0
CHECK_DEADLOCK FALSE
INVARIANTS
    NearbyComplete
