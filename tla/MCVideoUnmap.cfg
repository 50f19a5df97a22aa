SPECIFICATION Spec
CONSTANTS
    NBuf = 2
    MaxAsked = 2
    Width = 4
    Height = 4
INVARIANT UnmapsMappings
CHECK_DEADLOCK FALSE
