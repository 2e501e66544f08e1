SPECIFICATION FairSpec
CONSTANTS
    WinSize = 4
    BigWin = 8
    MaxPkt = 2
    WinLimit = 8
    Setups <- MCSetups
    MaxBytes = 6
INVARIANTS
    TypeOK
    CreditConserved
    NeverThrottlesConn
    WindowWideEnough
    RepliesMatchRequests
PROPERTIES
    StreamSpec
    StreamCompletes
    ThrottleReleased
CHECK_DEADLOCK FALSE
