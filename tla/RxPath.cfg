SPECIFICATION RxLiveSpec
CONSTANTS
    Capacity = 4
    Configurations = {{"usb", "rtt"}, {"uart"}}
    MaxInput = 5
INVARIANT CompleteInput
PROPERTIES InputArrives RxFifoSpec
