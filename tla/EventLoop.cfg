CONSTANTS
    a = a
    b = b
    Tasks = {a, b}
    Delay <- MCDelay
    Granularity = 1
    NumSockets = 2
    NumTriggers = 2
    NumSources = 3
    MaxLag = 1
    MaxBack = 1
SPECIFICATION FairSpec
INVARIANTS
    TypeOK
    QueueKeepsTime
    SleepIsBounded
    TriggersAreOwned
PROPERTIES
    NeverEarly
    SignalEndsLoop
    TriggersAreServed
    TasksAreRun
\* The loop has ended.
CHECK_DEADLOCK FALSE
