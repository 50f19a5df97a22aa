SPECIFICATION FairSpec
CONSTANTS
    MaxCommands = 3
    LengthBytes = 2
    CommandSizes = {1, 3}
    EchoSizes = {2}
    MaxEchoes = 2
INVARIANTS
    BetweenCommands
    EchoesIntact
PROPERTIES
    CommandsInOrder
    CommandServed
    ResultsLookedAt
CHECK_DEADLOCK FALSE
