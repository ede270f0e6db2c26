SPECIFICATION Spec
CONSTANTS
    Resources <- MCResources
    KymaNamespace = "kymaNs"
    OperatorRelated = {"kymaNs", "manager"}
    Refs <- MCRefs
    ResOf <- MCResOf
    InitialPolicies = {"none", "create", "ignore"}
    Faults = {}
    MaxFaults = 0
    Changes = {"upgrade", "policy", "unmanage", "delete", "moduleCR", "defaultCR", "teardown", "rollout"}
    MaxChanges = 3
    SettledOnly = TRUE
    SteadyCR = TRUE
INVARIANTS
    TypeOK
    NothingLeftBehind
    UnmanagedLosesLabels
PROPERTIES
    ManifestOutlivesDefaultCR
    UpgradeComplete
    OperatorDeletedLast
CHECK_DEADLOCK FALSE
