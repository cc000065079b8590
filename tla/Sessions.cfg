CONSTANTS
    s1 = s1
    s2 = s2
    Sockets = {s1, s2}
    NoSocket = NoSocket
    Deleted = Deleted
    Sessions = {id1, id2}
    id1 = id1
    id2 = id2
    NalSizes = {11}
    MaxPayload = 6
SPECIFICATION Spec
INVARIANTS TypeOK TableAgrees DescriptorsAgree StreamsHaveConnections
    PlayersAgree FragmentsAreWhole
PROPERTIES HeardUntilEnded
SYMMETRY Alike
\* Nothing happens any more once the program's behaviour is undefined, nor when
\* all numbers of sockets are lost to connections that nobody reads.
CHECK_DEADLOCK FALSE
