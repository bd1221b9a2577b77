SPECIFICATION Spec
CONSTANTS
    Capital = 18
    MaxCycles = 3
    MaxResets = 1
    Faults = {"state_store"}
    Navs <- MCNavs
PROPERTIES
    NoAutomaticReenable
CHECK_DEADLOCK FALSE
