CONSTANTS
    MaxSession = 2
    LastFrame = 3
    None = None
SPECIFICATION FairSpec
PROPERTY FirstIsSPS
CHECK_DEADLOCK FALSE
