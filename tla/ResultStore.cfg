SPECIFICATION FairSpec
CONSTANTS
    b1 = b1
    b2 = b2
    a1 = a1
    a2 = a2
    Call = {c1, c2}
    Bundle = {b1, b2}
    Artifact = {a1, a2}
    ArtifactsOf <- SharedArtifacts
    None = None
INVARIANTS
    ManifestsAreComplete
    RegisteredHasNoStage
PROPERTIES
    ManifestsAreWrittenOnce
    ImplementsRegistry
    EveryCallEnds
CHECK_DEADLOCK FALSE
