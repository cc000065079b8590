CONSTANTS
    MaxFrames = 3
    EncoderDelay = 1
SPECIFICATION FairSpec
INVARIANT
    EncodedAsCaptured
PROPERTY
    StopEndsRun
\* The thread ends.
CHECK_DEADLOCK FALSE
