SPECIFICATION Spec
CONSTANTS
    Turns = 4
    MaxEvents = 2
    ENCODER_MAX = 4
INVARIANTS
    InStep
    OnlyMemInterface
PROPERTY
    StopCompletes
