SPECIFICATION BothSpec
CONSTANTS
    Modules = {m1, m2}
    Channels = {"regular", "fast"}
    DefaultChannel = "regular"
    Core <- MCCore
    RestrictedModules = {}
    InitialModules = {{m1, m2}}
    Changes <- OrderlyChanges
    MaxChanges = 2
    Faults <- OrderlyFaults
    MaxFaults = 1
    NewTemplate <- MCTemplates
INVARIANTS Tracked NoticedAtOnce RenderedAsReleased
PROPERTIES NoDowngrade WindowRespected KeepsResources
SYMMETRY ModuleSymmetry
CHECK_DEADLOCK FALSE
