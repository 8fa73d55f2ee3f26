SPECIFICATION Spec
CONSTANTS
    b1 = b1
    b2 = b2
    a1 = a1
    a2 = a2
    Call = {c1}
    Bundle = {b1, b2}
    Artifact = {a1, a2}
    ArtifactsOf <- SharedArtifacts
    None = None
INVARIANTS
    RaisedHasNoStage
CHECK_DEADLOCK FALSE
