SPECIFICATION FairSpec
CONSTANTS
    MaxAsks = 1
    MaxReconfs = 1
    MaxTries = 1
    MaxData = 1
INVARIANTS
    TypeOK
    KeysInStep
    NoProtocolError
    QuietDuringKex
    StreamIntact
    SettingsInForce
    TimerArmed
    NoEndlessRekey
PROPERTY KexCompletes
CHECK_DEADLOCK FALSE
