SPECIFICATION Spec
CONSTANTS
    Setups <- MCSetups
    MaxTyped = 1
    MaxPrinted = 1
    MaxAsides = 1
INVARIANT NoDataAfterEof
CHECK_DEADLOCK FALSE
