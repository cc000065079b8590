CONSTANTS
    NumCameras = 1
    MaxSignals = 1
SPECIFICATION Spec
INVARIANT
    StopStopsCapturing
