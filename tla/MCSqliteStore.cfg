CONSTANTS
    Handle = {h1, h2}
    Identity = {id1}
    State = {s1, s2}
    NoRow = NoRow
    NoHandle = NoHandle
    NoCall = NoCall
    MaxAttempts = 2
    MaxRevision = 2
SPECIFICATION FairSpec
INVARIANTS
    ReadyHandleHasTables
    CheckedRevisionIsCurrent
PROPERTIES
    AtomicStore
    OperationsTerminate
