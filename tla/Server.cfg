CONSTANTS
    NumCameras = 3
    MaxSignals = 2
    MaxNames = 3
    Names = {"webcam_0", "webcam_1"}
SPECIFICATION FairSpec
INVARIANTS
    TypeOK
    NoUseAfterDestruction
    ConfiguredAsNamed
PROPERTY
    SignalEndsProcess
