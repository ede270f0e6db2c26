SPECIFICATION FairSpec
CONSTANTS
    Regular = {"m1"}
    Mandatory = {"mm"}
    Webhook = {"w1"}
    Faults = {"skr", "kcp", "init", "secretList", "lateList", "expiry", "restart"}
    MaxFaults = 1
    Changes = {"install", "mandatory", "skrKyma", "teardown", "force"}
    MaxChanges = 1
PROPERTIES
    DeletionCompletes
CHECK_DEADLOCK FALSE
