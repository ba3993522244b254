SPECIFICATION Spec
CONSTANTS
    s1 = s1
    s2 = s2
    t1 = t1
    t2 = t2
    x1 = x1
    x2 = x2
    c1 = c1
    c2 = c2
    c3 = c3
    Absent = Absent
    Shops = {s1, s2}
    Types = {t1, t2}
    Places = {x1, x2}
    Imported = {s1}
    Calls = {c1, c2}
    MaxWrites = 2
    MaxFaults = 0
CHECK_DEADLOCK FALSE
SYMMETRY Symmetry
INVARIANTS
    CacheAgrees
    GeoAgrees
