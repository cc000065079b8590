CONSTANTS
    a = a
    b = b
    Tasks = {a}
    Delay <- MCDelay
    Granularity = 1
    NumSockets = 4
    NumTriggers = 1
    NumSources = 1
    MaxLag = 1
    MaxBack = 0
SPECIFICATION FairSpec
INVARIANT
    RegisteredAreWatched
PROPERTY
    SocketsAreServed
\* The loop has ended.
CHECK_DEADLOCK FALSE
