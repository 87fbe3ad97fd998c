SPECIFICATION SpscSpec
CONSTANTS
    COM_QUEUE_SIZE = 4
    MaxValues = 9
    Delayed = TRUE
INVARIANTS
    SpscTypeOK
    NoSlotRace
    SpscContents
PROPERTIES
    SpscImplementsFifo
    AllDelivered
