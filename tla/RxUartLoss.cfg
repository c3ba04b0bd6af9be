SPECIFICATION RxSpec
CONSTANTS
    Capacity = 4
    Configurations = {{"rtt", "uart"}}
    MaxInput = 4
INVARIANT NothingLost
CHECK_DEADLOCK FALSE
