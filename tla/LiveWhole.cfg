SPECIFICATION Spec
CONSTANTS
    Symbols = {"s"}
    MaxAsof = 2
    MaxSlices = 2
    ListsClosed = TRUE
    Faults <- WholeFaults
    MaxTarget = 2
    MaxTerminal = 0
    CrashPoints = {"idle", "resolving"}
    FillIds = {"exec"}
INVARIANTS
    RestingIsTracked
    NeverOvertrades
    LedgerIsBetween
