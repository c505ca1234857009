SPECIFICATION ServicesSpec
CONSTANTS
    u1 = u1
    NoCall = NoCall
    Call = {c1}
    Url = {u1}
    url <- MCurl
    Task = {t1}
    Tab = {x1}
    NoTab = NoTab
    max_size = 2
    MaxClears = 1
    r1 = r1
    r2 = r2
    r3 = r3
    Request <- MCRequest
    Plans <- MCLagPlans
    InlineLimit = 1
    Capacity = 1
    MaxSessions = 1
    SessionTtl = 1
    ChromePermits = 1
    NoSession = NoSession
    MaxPages = 3
    MaxTime = 1
INVARIANT CrawlIsOverWhenTerminal
CHECK_DEADLOCK FALSE
