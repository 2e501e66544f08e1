SPECIFICATION Spec
CONSTANTS
    Kinds <- MCSockets
    MaxOpens = 2
    MaxData = 1
    MaxBacklogs = 0
INVARIANTS
    TypeOK
    PacketsAccepted
    NoFault
    WireOrder
    PeerStillThere
CHECK_DEADLOCK FALSE
