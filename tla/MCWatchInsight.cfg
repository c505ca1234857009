CONSTANTS
    WatchId = {w1}
    Process = {p1, p2}
    Evidence = {e1, e2}
    Tick = {4, 12}
    PerSecond = 10
    Hash = {h1, h2}
    Nothing = Nothing
    NoRow = NoRow
    NoOp = NoOp
    Rejected = Rejected
    NoTask = NoTask
    MaxRevision = 3
SYMMETRY InsightSymmetry
SPECIFICATION InsightSpec
INVARIANTS
    ChangeEventIsTruthful
    HealthOrderIsTruthful
CHECK_DEADLOCK FALSE
