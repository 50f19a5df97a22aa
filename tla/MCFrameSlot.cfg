CONSTANTS
    NALUs = {n1, n2, n3}
    None = None
SPECIFICATION FairSpec
INVARIANTS
    MutexHeldInside
    NoLostWakeup
PROPERTIES
    ChannelSpec
    FramesGoThrough
