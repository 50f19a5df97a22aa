SPECIFICATION Spec
CONSTANTS
    MaxPhotos = 3
    MaxClients = 2
    Room = 2
INVARIANTS
    AnswersInOrder
    AnswersTruthful
    TransfersAreOfTaken
    SentInOrder
    EveryRequestAccountedFor
PROPERTY ServiceKept
CHECK_DEADLOCK FALSE
