SPECIFICATION Spec
CONSTANTS
    FrameSize = 5
    CHUNK_DATA_SIZE = 2
    MaxFrames = 2
    MaxFaults = 2
INVARIANTS
    ShownIsSent
    TableOnlyByFault
PROPERTY
    EveryFrameShown
CHECK_DEADLOCK FALSE
