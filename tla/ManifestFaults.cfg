SPECIFICATION Spec
CONSTANTS
    Resources <- MCResources
    KymaNamespace = "kymaNs"
    OperatorRelated = {"kymaNs", "manager"}
    Refs <- MCRefs
    ResOf <- MCResOf
    InitialPolicies = {"none", "create", "ignore"}
    Faults = {"skr", "abort", "client", "render", "orphan", "spec", "secretList"}
    MaxFaults = 1
    Changes = {"upgrade", "unmanage", "delete", "moduleCR", "defaultCR", "teardown", "rollout"}
    MaxChanges = 2
    SettledOnly = FALSE
    SteadyCR = FALSE
PROPERTIES
    AnnotationFollowsSync
    OperatorOutlivesCR
CHECK_DEADLOCK FALSE
