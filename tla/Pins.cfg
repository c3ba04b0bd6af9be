SPECIFICATION Spec
CONSTANTS
    Pins = {0, 1, 2, 3, 4}
    Debug = {4}
    NoPwm = {0}
    Modes = {"HiZ", "dio", "spi", "i2c", "ir", "usbpd"}
    HIZ = "HiZ"
    DIO = "dio"
    ModePins <- MCModePins
    IoModes = {"ir"}
    PowerModes = {"usbpd"}
    FailingModes = {"usbpd"}
    InitModes = {"dio", "i2c", "ir", "usbpd"}
    SniffedPins <- MCSniffedPins
    SniffOutputs <- MCSniffOutputs
    Binmodes = {"sump", "arduino", "irman"}
    NoBinmode = "sump"
    BinPins <- MCBinPins
    ResetBinmodes = {"arduino", "irman"}
    PowerBinmodes = {"irman"}
    ExitBinmodes = {"arduino", "irman"}
INVARIANTS
    TypeOK
    SliceExclusive
    
    
