SPECIFICATION FairSpec
CONSTANTS
    s = s
    a = a
    b = b
    c = c
    d = d
    e = e
    NoLink = NoLink
    NoLimit = NoLimit
    Link <- MCLink
    Seed = s
    Points <- MCPoints
    Budgets <- MCBudgets
    Disallowed = {e}
    Outside = {d}
    Cached = {s, a, c}
    Section = {b, c}
    MaxCounter = 7
    Permits = 2
    ExtraLimit = 5
    QueueCapacity = 1
    Event <- MCEvent
    Allowances <- MCAllowances
INVARIANTS NoUrlTwice LimitIsKept QuietEndLosesNothing ShutdownKeepsTheRest PauseHolds
PROPERTIES CrawlEnds
CHECK_DEADLOCK FALSE
