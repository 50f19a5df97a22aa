SPECIFICATION FairSpec
CONSTANTS
    NBuf = 2
    MaxAsked = 2
    Width = 4
    Height = 4
INVARIANTS
    CaptureReady
    OutputIsThisFrame
    PhotoAnswered
    EndsClean
PROPERTY PhotoEnds
CHECK_DEADLOCK FALSE
