SPECIFICATION Spec
CONSTANTS
    WIDTH = 7
    HEIGHT = 7
    MAX_LABELS = 4
    MinSize = 6
    MIN_GREEN_PIXELS = 9
    Frames <- MCFrames
    Ground <- MCGround
INVARIANTS
    ImageTypeOK
    
    FilterExact
    ComAccepted
CHECK_DEADLOCK FALSE
