SPECIFICATION FairController
CONSTANTS
    c1 = c1
    c2 = c2
    c3 = c3
    c4 = c4
    c5 = c5
    c6 = c6
    x = x
    y = y
    Claim = {c1, c2, c3, c4, c5, c6}
    Experiment = {x, y}
    ExperimentOf <- MCExperimentOf
    Fitting <- MCFitting
    MaximumRuns = 2
    MaxQueue = 2
INVARIANTS
    QueueSound
PROPERTIES
    NotOvertaken
    WaitingEnds
