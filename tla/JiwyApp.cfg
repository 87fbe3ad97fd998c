SPECIFICATION Spec
CONSTANTS
    Platforms = {"RPI", "DE10"}
    HomingWrites = 2
    MaxErrors = 1
INVARIANTS
    TypeOK
    LoopOnlyWhenHomed
    HardwareExclusiveBeforeEnd
    StillUnlessStarted
PROPERTIES
    StartTakesEffect
    EndsOnRequest
CHECK_DEADLOCK FALSE
