SPECIFICATION FairSpec
CONSTANTS
    Modules = {m1}
    Channels = {"regular", "fast"}
    DefaultChannel = "regular"
    Core <- MCCore
    RestrictedModules = {}
    InitialModules = {{}, {m1}}
    Changes <- AllChanges
    MaxChanges = 1
    Faults <- AllFaults
    MaxFaults = 1
    NewTemplate <- MCTemplates
PROPERTIES Converges Removed
CHECK_DEADLOCK FALSE
