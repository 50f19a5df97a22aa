SPECIFICATION Spec
CONSTANTS
    MaxPhotos = 1
    MaxClients = 1
    Room = 2
INVARIANT NotKilledByPeer
CHECK_DEADLOCK FALSE
