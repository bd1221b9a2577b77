SPECIFICATION Spec
CONSTANTS
    Symbols = {"s"}
    MaxAsof = 1
    MaxSlices = 1
    ListsClosed = TRUE
    Faults = {}
    MaxTarget = 1
    MaxTerminal = 0
    CrashPoints = {"ran"}
    FillIds = {"exec"}
INVARIANTS
    RestingIsTracked
