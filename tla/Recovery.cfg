SPECIFICATION Spec
CONSTANTS
    Unit = {u1, u2}
    Digest = {d1, d2}
    None = None
    Proc = {p1, p2}
    MaxAttempt = 2
    MaxRevision = 7
SYMMETRY Symmetry
INVARIANTS
    RegisteredIsPublished
    PublishedWasWrittenAhead
    AttemptHasOneOwner
    CompletedIsExact
    ShapesRefuseOnlyTwice
PROPERTIES
    EvidenceSurvives
    SelectionNeverSwitches
    ImplementsOutcome
