CONSTANTS
    Cameras = {front}
    MaxFrames = 3
SPECIFICATION Spec
INVARIANT
    NoUnderflow
CHECK_DEADLOCK FALSE
