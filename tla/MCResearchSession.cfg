CONSTANTS
    Research = {r1, r2}
    Evidence = {e1, e2, e3, e4}
    Identity <- MCIdentity
    State <- MCState
    NoRow = NoRow
    Bundle = Bundle
    NoResult = NoResult
    MaxPages = 3
    MaxCited = 2
SYMMETRY ResearchSymmetry
SPECIFICATION ResearchSpec
INVARIANTS
    ClaimPrecedesEffects
    PublishedSourcesAreOwn
    BuiltResultsAreValid
CHECK_DEADLOCK FALSE
