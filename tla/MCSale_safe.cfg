SPECIFICATION PartSpec
CONSTANTS
    u1 = u1
    u2 = u2
    u3 = u3
    v1 = v1
    r1 = r1
    r2 = r2
    r3 = r3
    p1 = p1
    p2 = p2
    Users = {u1, u2, u3}
    Vouchers = {v1}
    Requests = {r1, r2, r3}
    Pods = {p1, p2}
    Stock <- TwoUnits
    MaxRetries = 1
    MaxFaults = 3
CHECK_DEADLOCK FALSE
SYMMETRY PartSymmetry
INVARIANTS
    TypeOK
    StockNeverDeductedTwice
    BooksBalanceWithoutFaults
    CommittedIsSettled
    OneOrderPerUser
    NoOversell
    OrderMatchesAnswer
PROPERTIES
    ImplementsFlashSale
