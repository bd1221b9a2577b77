SPECIFICATION FairSpec
CONSTANTS
    Capital = 18
    MaxCycles = 3
    MaxResets = 2
    Faults = {"prices", "gate", "nav", "state_store", "ledger", "disk", "crash"}
    Navs <- MCNavs
INVARIANTS
    AuditShowsStop
    GovernorKeepsPeak
PROPERTIES
    ImplementsHalt
    OperatorIsServed
CHECK_DEADLOCK FALSE
