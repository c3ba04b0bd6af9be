SPECIFICATION LiveSpec
CONSTANTS
    Toolbars = {status, watcher, logic}
    MaxCount = 2
    Anchored = {status}
    OnCore1 = {status, watcher}
    Reactivated = {status}
    NULL = NULL
    Loads = {{}, {"updates", "slow"}}
INVARIANTS
    RegistryOK
    QuietDrawingIsExclusive
    AtMostOneLateCycle
PROPERTIES
    NewToolbarIsPainted
    CallsReturn
