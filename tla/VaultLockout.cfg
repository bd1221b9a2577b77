SPECIFICATION VaultSpec
CONSTANTS
    Passphrases = {"p", "q"}
    Names = {"key"}
    Values = {"v"}
    Procs = {"operator"}
    Operator = "operator"
    MaxSalt = 3
    MaxInterrupts = 2
INVARIANTS
    VaultOpens
CHECK_DEADLOCK FALSE
