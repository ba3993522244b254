SPECIFICATION Spec
CONSTANTS
    u1 = u1
    u2 = u2
    b1 = b1
    b2 = b2
    f1 = f1
    f2 = f2
    a1 = a1
    c1 = c1
    c2 = c2
    r1 = r1
    r2 = r2
    r3 = r3
    t1 = t1
    t2 = t2
    t3 = t3
    Likers = {u1, u2}
    Posts = {b1, b2}
    Given <- LikesGiven
    Toggles = {c1, c2}
    MaxToggles = 4
    MaxCuts = 1
    Fans = {f1, f2}
    Authors = {a1}
    FollowCalls = {c1, c2}
    MaxFollows = 3
    MaxFollowFaults = 1
    MaxPosts = 4
    MaxClock = 4
    Lag = 1
    PageSize = 2
    Reader = f1
    Flights = {c1, c2}
    MaxAsks = 4
    MaxFeedFaults = 1
    Table <- TypeTable
    Readers = {r1, r2, r3}
    MaxTypeFaults = 2
SYMMETRY Symmetry
CHECK_DEADLOCK FALSE
INVARIANTS
    TypeOK
    LikesAgree
    FollowsAgree
    FanOut
    ScrollOrder
    ScrollComplete
    TypesInOrder
