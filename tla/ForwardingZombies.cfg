SPECIFICATION FairSpec
CONSTANTS
    Kinds <- MCDisplays
    MaxOpens = 1
    MaxData = 1
    MaxBacklogs = 0
PROPERTY ZombiesClose
CHECK_DEADLOCK FALSE
