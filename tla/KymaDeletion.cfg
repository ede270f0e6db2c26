SPECIFICATION Spec
CONSTANTS
    Regular = {"m1"}
    Mandatory = {"mm"}
    Webhook = {"w1", "w2"}
    Faults = {"skr", "kcp", "init", "restart"}
    MaxFaults = 1
    Changes = {"install", "mandatory", "skrKyma", "teardown"}
    MaxChanges = 2
INVARIANTS
    TypeOK
    NothingLeftBehind
PROPERTIES
    ShownBeforeDeleted
    DismantledInOrder
    ImplementsTeardown
CHECK_DEADLOCK FALSE
