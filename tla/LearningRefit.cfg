SPECIFICATION LearningSpec
CONSTANTS
    Horizons <- MCHorizons
    MaxTime = 4
    MinFit = 1
    InitialFit = 1
    BufferMax = 2
    MaxAge = 1
    Modes = {"LIVE"}
    Retention = 2
    Features = {"ok"}
    MaxFits = 2
    MaxCrashes = 1
INVARIANT
    PreviousModelKeepsServing
CHECK_DEADLOCK FALSE
