SPECIFICATION IcoSpec
CONSTANTS
    WordBits = 6
    PwmWords <- MCPwmWords
    EncWords <- MCEncWords
    MidWord <- MCMidWord
    MinTicks = 3
    MAX_COUNT = 6
INVARIANTS
    SpiTypeOK
    WholeWords
    AnswerIsOneSample
    DriveCommanded
    DutyExact
PROPERTY
    WordArrives
