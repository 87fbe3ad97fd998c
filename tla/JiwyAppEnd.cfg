SPECIFICATION Spec
CONSTANTS
    Platforms = {"RPI", "DE10"}
    HomingWrites = 2
    MaxErrors = 0
INVARIANT
    StoppedAtEnd
CHECK_DEADLOCK FALSE
