SPECIFICATION Spec
CONSTANTS
    READ_BUFFER_SIZE = 12
    INT_MAX = 31
    HeadLen = 2
    JsonLen = 2
    ContentLength <- Lengths
    Messages <- Honest
    MaxMessages = 1
    BodySplit = TRUE
CHECK_DEADLOCK FALSE
INVARIANTS
    OutcomeIgnoresSegments
