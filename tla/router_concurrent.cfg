CONSTANTS
    MaxBit = 2
    Task = {t1, t2}
    Node <- NearestNodes
    OwnId <- Self
    KSize = 1
    Target <- NoIds
    BAN_COUNT = 2
SPECIFICATION RouterSpec
INVARIANT TypeOK
INVARIANT Capacity
INVARIANT ChainOK
INVARIANT LockOrder
INVARIANT BanOvertaken
PROPERTY Retention
PROPERTY Termination
