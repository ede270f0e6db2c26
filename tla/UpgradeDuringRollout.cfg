SPECIFICATION FairSpec
CONSTANTS
    Resources <- MCResources
    KymaNamespace = "kymaNs"
    OperatorRelated = {"kymaNs", "manager"}
    Refs <- MCRefs
    ResOf <- MCResOf
    InitialPolicies = {"none"}
    Faults = {}
    MaxFaults = 0
    Changes = {"upgrade"}
    MaxChanges = 1
    SettledOnly = FALSE
    SteadyCR = TRUE
PROPERTIES
    ReadyWhenUp
CHECK_DEADLOCK FALSE
