SPECIFICATION Spec
CONSTANTS
    Setups <- MCSetups
    MaxTyped = 1
    MaxPrinted = 2
    MaxAsides = 0
INVARIANT OutputComplete
CHECK_DEADLOCK FALSE
