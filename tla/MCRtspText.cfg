SPECIFICATION Spec
CONSTANTS
    Headers <- MCHeaders
    Requests <- MCRequests
    TransportRoom = 50
INVARIANTS
    ReplyFitsRequest
    SetsAreEncoders
PROPERTY PortIsClients
CHECK_DEADLOCK FALSE
