SPECIFICATION Spec
CONSTANTS
    MaxLength = 5
    MaxItems = 3
    Word = 16
    Repeats = {0, 1, 3, 15}
INVARIANTS
    TypeOK
    AcceptedProgramsRun
PROPERTY ChainIsHonoured
