SPECIFICATION Spec
CONSTANTS
    GREEN_MASK_QUEUE_SIZE = 2
    MaxFrames = 4
PROPERTY
    StopReturns
CHECK_DEADLOCK FALSE
