CONSTANTS
    WatchId = {w1}
    Process = {p1, p2, p3}
    Evidence = {e1, e2}
    Tick <- MCTick
    PerSecond = 10
    Hash = {}
    Nothing = Nothing
    NoRow = NoRow
    NoOp = NoOp
    Rejected = Rejected
    NoTask = NoTask
    MaxRevision = 4
SYMMETRY ScheduleSymmetry
SPECIFICATION ScheduleSpec
INVARIANTS
    FetchedAtMostOnce
    ClaimIsExclusive
    CompletedRunIsBacked
    AnswersAgree
    ObservedEvidenceIsRecorded
PROPERTIES
    AbandonedRunStaysClaimed
CHECK_DEADLOCK FALSE
