SPECIFICATION FairSpec
CONSTANTS
    Setups <- MCSetups
    MaxTyped = 1
    MaxPrinted = 2
    MaxAsides = 1
INVARIANTS
    TypeOK
    RepliesUnderstood
    ExitStatusFirst
    EofKept
    OtherAssertionsHold
PROPERTY SessionEnds
CHECK_DEADLOCK FALSE
