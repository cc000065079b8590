CONSTANTS
    Replicas = {a, b, c}
    NoReplica = none
    MaxFrames = 4
SPECIFICATION Spec
INVARIANT
    NoStall
