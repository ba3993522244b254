SPECIFICATION Spec
CONSTANTS
    p1 = p1
    n0 = n0
    n1 = n1
    b1 = b1
    b2 = b2
    t1 = t1
    t2 = t2
    r1 = r1
    r2 = r2
    s1 = s1
    s2 = s2
    s3 = s3
    f1 = f1
    f2 = f2
    o1 = o1
    o2 = o2
    o3 = o3
    q1 = q1
    q2 = q2
    k1 = k1
    k2 = k2
    e1 = e1
    e2 = e2
    j1 = j1
    j2 = j2
    j3 = j3
    today = today
    tomorrow = tomorrow
    Phones = {p1}
    Nicks = {n0, n1}
    FirstNick = n0
    Tabs = {b1, b2}
    Tokens = {t1, t2}
    Requests = {r1, r2}
    Life = 2
    CodeLife = 1
    MaxAge = 1
    SkipCode = FALSE
    MaxTicks = 3
    MaxRequests = 3
    MaxSessionFaults = 1
    Saves = {s1, s2, s3}
    Fields = {f1, f2}
    MaxSaveFaults = 2
    Orders = {o1, o2, o3}
    Seconds = {0, 1, 2}
    Days = {today, tomorrow}
    DayOf <- DayOfSecond
    W = 4
    Chats = {q1, q2}
    Asks = {k1, k2}
    MaxAsked = 4
    MaxChatFaults = 1
    Evals = {e1, e2}
    Size <- EvalSize
    MaxEvalFaults = 2
    Jobs = {j1, j2, j3}
    MaxSecond = 3
    MaxDeployFaults = 1
    Methods = {"naive", "resume", "table", "one", "qa"}
    TokenNum = 4
    OverlapPercent = 40
    Kinds <- SomeKinds
    MaxBlocks = 3
    MaxLines = 5
SYMMETRY Symmetry
CHECK_DEADLOCK FALSE
INVARIANTS
    TypeOK
    SessionsAreWhole
    ExtendedSessionsLast
    SessionShowsNick
    SavesTellTrue
    UniqueIds
    LogsAgree
    RunsTellTrue
    RolloutsTellTrue
    NothingLost
    ChunksArePlaced
    CutsKeep
    LinesKept
    BlocksAreWhole
