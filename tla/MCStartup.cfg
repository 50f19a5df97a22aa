SPECIFICATION FairSpec
CONSTANT MaxRuns = 3
INVARIANTS
    QueuesShared
    NoOldQueue
PROPERTY StartsUp
CHECK_DEADLOCK FALSE
