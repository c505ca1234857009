CONSTANTS
    Identity = {s1}
    Entity = {s1}
    Process = {p1, p2, p3}
    Token = {k1, k2}
    NoToken = NoToken
    State <- AuthSessionState
    EntityState <- AuthSessionState
    Transition <- SessionTransition
    Initial <- Active
    Apply <- SessionApply
    NoRow = NoRow
    NoOp = NoOp
    Rejected = Rejected
    MaxRevision = 4
SYMMETRY SessionSymmetry
SPECIFICATION SessionSpec
INVARIANTS
    HistoryIsTruthful
    HistoryIsAccountedFor
    AppendNeverCollides
    ResumePresentsThePausedToken
PROPERTY AtomicLifecycle
CHECK_DEADLOCK FALSE
