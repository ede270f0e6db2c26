SPECIFICATION Spec
CONSTANTS
    Resources <- MCResources
    KymaNamespace = "kymaNs"
    OperatorRelated = {"kymaNs", "manager"}
    Refs <- MCRefs
    ResOf <- MCResOf
    InitialPolicies = {"create"}
    Faults = {}
    MaxFaults = 0
    Changes = {"delete"}
    MaxChanges = 1
    SettledOnly = TRUE
    SteadyCR = FALSE
INVARIANTS
    NothingLeftBehind
CHECK_DEADLOCK FALSE
