SPECIFICATION Spec
CONSTANTS
    Capacity = 4
    Byte = {b1, b2}
INVARIANTS
    TypeOK
    NoDataRace
    ReservedSpaceHolds
    PromisedBytesHold
PROPERTY FifoSpec
SYMMETRY ByteSymmetry
