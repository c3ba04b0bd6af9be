SPECIFICATION LiveSpec
CONSTANTS
    QMax = 3
    Chunk = 2
    CdcSize = 3
    FrameLens = {1, 3}
    UsbEnabled = TRUE
    UartEnabled = TRUE
    HostMayLeave = TRUE
    DrainsWhenClosed = TRUE
    MaxBytes = 4
    MaxFrames = 2
INVARIANTS
    TypeOK
    NoByteVanishes
    FramesAreWhole
PROPERTIES
    FrameIsSent
    PutReturns
