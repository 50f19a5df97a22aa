CONSTANTS
    MaxSession = 3
    LastFrame = 3
    None = None
SPECIFICATION FairSpec
INVARIANTS
    NothingOutlivesSession
    HeaderIsOurs
    CancelFindsHandler
    RtpServesClient
PROPERTIES
    DeliveredInOrder
    SessionEnds
    FramesFlow
    PhotosLookedAt
    Answered
CHECK_DEADLOCK FALSE
