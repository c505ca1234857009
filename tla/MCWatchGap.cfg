CONSTANTS
    WatchId = {w1}
    Process = {p1, p2, p3}
    Evidence = {e1, e2}
    Tick = {}
    PerSecond = 10
    Hash = {}
    Nothing = Nothing
    NoRow = NoRow
    NoOp = NoOp
    Rejected = Rejected
    NoTask = NoTask
    MaxRevision = 3
SYMMETRY WatchSymmetry
SPECIFICATION WatchSpec
INVARIANT EverySupersededStateIsPreserved
CHECK_DEADLOCK FALSE
