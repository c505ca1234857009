CONSTANTS
    Identity = {t1}
    State <- MCState
    NoRow = NoRow
    Callback = {c1, c2, c3}
    Reader = {r1}
    NoTrace = NoTrace
    MaxRetries = 2
    MaxFailures = 1
SPECIFICATION FairIamSpec
INVARIANTS
    ObservationsAreContiguous
    AcknowledgedIsDurable
    ExhaustionNeedsContention
    ReadbackIsConsistent
PROPERTY ObservedIsMarked
