SPECIFICATION Spec
CONSTANTS
    Symbols = {"s"}
    MaxAsof = 2
    MaxSlices = 1
    ListsClosed = TRUE
    Faults <- LossyFaults
    MaxTarget = 2
    MaxTerminal = 0
    CrashPoints <- AnyPoint
    FillIds = {"exec"}
INVARIANTS
    TypeOK
    NoStacking
    FillsAreAccountedFor
    BookIsReal
