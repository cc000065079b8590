CONSTANTS
    Replicas = {a, b, c, d}
    NoReplica = none
    MaxFrames = 5
SPECIFICATION Spec
SYMMETRY Symmetry
INVARIANTS
    TypeOK
    AssertionsHold
    QueuedOnce
    CountsMatch
    InLockstep
    NoStallUnlessLost
PROPERTY
    InSequence
