CONSTANTS
    Cameras = {front}
    MaxFrames = 5
SPECIFICATION FairSpec
INVARIANTS
    FramesOnce
    NoLostWakeup
PROPERTIES
    MailboxSafe
    MailboxSpec
\* The process is at an end when the empty buffer was popped.
CHECK_DEADLOCK FALSE
