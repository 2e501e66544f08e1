SPECIFICATION FairSpec
CONSTANTS
    Setups <- MCSetups
    MaxTyped = 2
    MaxPrinted = 0
    MaxAsides = 0
PROPERTY InputArrives
CHECK_DEADLOCK FALSE
