SPECIFICATION Spec
CONSTANTS
    Channels = {"io", "fuse"}
    Pins = {p1, p2}
INVARIANTS
    TypeOK
    ReadsOwnChannel
    LabelsReachTheLcd
    BusIsLeftAlone
SYMMETRY PinSymmetry
