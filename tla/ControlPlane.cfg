SPECIFICATION FairSpec
CONSTANTS
    Policies <- MCPolicies
    Runtimes <- MCRuntimes
    FirstCatalog <- MCCatalog
    Flags <- MCFlags
    Gateways <- MCGateways
    Directories <- MCDirectories
    Secrets <- MCSecrets
    Workloads <- MCWorkloads
INVARIANTS
    TypeOK
    UpdatesInsideWindow
    OnlyLateOnesStay
    CatalogIsUsable
PROPERTIES
    UpdateHappens
    WatcherSettles
    MandatorySettles
    UserObjectsStay
    CatalogConverges
    OneReplicaServes
    MetricsSettle
    ManagerStateFollows
CHECK_DEADLOCK FALSE
