SPECIFICATION Spec
CONSTANTS
    NaN = NaN
    Travel = 3
    EncMax = 16
    Coms <- MCComs
    MaxRounds = 4
    MaxEntries = 3
INVARIANTS
    ControlTypeOK
    PwmInRange
    SetPointSafe
    PositionFollowsShaft
CHECK_DEADLOCK FALSE
