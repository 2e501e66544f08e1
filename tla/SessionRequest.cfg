SPECIFICATION Spec
CONSTANTS
    Setups <- MCSetups
    MaxTyped = 1
    MaxPrinted = 1
    MaxAsides = 1
INVARIANT NoRequestAfterClose
CHECK_DEADLOCK FALSE
