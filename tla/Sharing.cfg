SPECIFICATION FairSpec
CONSTANTS
    Downstreams = {d1, d2}
    Ports = {p1}
    Budget = 6
    WishCost = 3
INVARIANTS
    TypeOK
    ChannelsAgree
    RepliesMatch
    NothingLeftBehind
    KnownFaults
PROPERTY WindsUp
CHECK_DEADLOCK FALSE
