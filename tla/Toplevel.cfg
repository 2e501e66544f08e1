SPECIFICATION FairSpec
CONSTANTS
    None = None
    Objects = {o1}
    Wrap = 8
    Slack = 0
    MaxDelay = 2
    MaxLate = 2
    MaxRun = 1
    MaxBack = 1
    MaxWaiting = 2
INVARIANT TypeOK
PROPERTIES
    RunsForTheLiving
    NothingForgotten
