SPECIFICATION Spec
CONSTANTS
    GREEN_MASK_QUEUE_SIZE = 2
    MaxFrames = 4
INVARIANTS
    ImageTypeOK
    MutualExclusion
    FifoContents
    NoLostWakeup
PROPERTIES
    ImplementsFifo
    EveryMaskCalculated
CHECK_DEADLOCK FALSE
