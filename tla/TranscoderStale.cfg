CONSTANTS
    MaxFrames = 3
    EncoderDelay = 0
SPECIFICATION Spec
INVARIANT
    AddedOnce
CHECK_DEADLOCK FALSE
