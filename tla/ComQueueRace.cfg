SPECIFICATION Spec
CONSTANTS
    COM_QUEUE_SIZE = 4
    MaxValues = 8
    Delayed = FALSE
INVARIANT
    TailOnlyChangedByConsumer
