SPECIFICATION LiveSpec
CONSTANTS
    QMax = 2
    Chunk = 2
    CdcSize = 3
    FrameLens = {1}
    UsbEnabled = TRUE
    UartEnabled = FALSE
    HostMayLeave = TRUE
    DrainsWhenClosed = FALSE
    MaxBytes = 6
    MaxFrames = 0
PROPERTY PutReturns
