SPECIFICATION Spec
CONSTANTS
    Symbols = {"s", "t"}
    MaxAsof = 2
    MaxSlices = 1
    ListsClosed = TRUE
    Faults = {"swallowed"}
    MaxTarget = 1
    MaxTerminal = 0
    CrashPoints = {"idle"}
    FillIds = {"exec"}
PROPERTIES
    SubmitsAfterTruth
