SPECIFICATION LiveSpec
CONSTANTS
    Loads = {"ok", "short", "driven"}
INVARIANTS
    TypeOK
    OutputFollowsStatus
    
PROPERTY TripCutsPower
