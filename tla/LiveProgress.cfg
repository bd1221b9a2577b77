SPECIFICATION FairSpec
CONSTANTS
    Symbols = {"s"}
    MaxAsof = 2
    MaxSlices = 1
    ListsClosed = TRUE
    Faults <- ConnectedFaults
    MaxTarget = 2
    MaxTerminal = 0
    CrashPoints = {}
    FillIds = {"exec"}
INVARIANTS
    FillsAreAccountedFor
PROPERTIES
    ConfirmedOrdersLeave
