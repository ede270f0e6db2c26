SPECIFICATION FairSpec
CONSTANTS
    Resources <- MCResources
    KymaNamespace = "kymaNs"
    OperatorRelated = {"kymaNs", "manager"}
    Refs <- MCRefs
    ResOf <- MCResOf
    InitialPolicies = {"none", "create"}
    Faults = {"skr", "abort", "spec", "crRead", "secretList"}
    MaxFaults = 1
    Changes = {"upgrade", "delete", "moduleCR", "teardown", "rollout"}
    MaxChanges = 2
    SettledOnly = TRUE
    SteadyCR = FALSE
PROPERTIES
    EventuallySettles
    DeletingIsShown
CHECK_DEADLOCK FALSE
