CONSTANTS
    MaxBit = 2
    Node <- SomeNodes
    Origin <- SomeOrigins
    PREFIX = 1
    SUFFIX = 1
    Crc <- SomeCrc
    Target <- Goal
    K_SIZE = 1
    K = 1
    MaxReply = 2
SPECIFICATION FSpec
INVARIANT FTypeOK
INVARIANT NothingMissed
INVARIANT AnswerClosest
INVARIANT AskedOnce
INVARIANT AnswerResponded
PROPERTY SearchEnds
CHECK_DEADLOCK FALSE
