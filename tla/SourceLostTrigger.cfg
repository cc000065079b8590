CONSTANTS
    Cameras = {front, yard}
    MaxFrames = 2
SPECIFICATION Spec
INVARIANT
    NoLostWakeup
CHECK_DEADLOCK FALSE
