SPECIFICATION Spec
CONSTANTS
    READ_BUFFER_SIZE = 12
    INT_MAX = 31
    HeadLen = 2
    JsonLen = 2
    ContentLength <- Lengths
    Messages <- Requests
    MaxMessages = 2
    BodySplit = FALSE
CHECK_DEADLOCK FALSE
INVARIANTS
    BodyIsHandedOver
    OutcomeIgnoresSegments
    CompleteIsAnswered
    AnswerInOrder
PROPERTIES
    RequestIsAnswered
