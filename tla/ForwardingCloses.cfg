SPECIFICATION FairSpec
CONSTANTS
    Kinds <- MCDisplays
    MaxOpens = 1
    MaxData = 3
    MaxBacklogs = 1
INVARIANTS
    NoFault
    SocketsReadInTime
PROPERTY ChannelsClose
CHECK_DEADLOCK FALSE
