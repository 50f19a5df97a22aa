SPECIFICATION FairSpec
CONSTANTS
    MaxPhotos = 2
    MaxClients = 2
    Room = 4
PROPERTIES
    RequestAnswered
    TransferEnds
CHECK_DEADLOCK FALSE
