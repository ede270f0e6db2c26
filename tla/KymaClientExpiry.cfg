SPECIFICATION Spec
CONSTANTS
    Regular = {"m1"}
    Mandatory = {"mm"}
    Webhook = {"w1"}
    Faults = {"expiry"}
    MaxFaults = 1
    Changes = {}
    MaxChanges = 0
INVARIANT NothingLeftBehind
CHECK_DEADLOCK FALSE
