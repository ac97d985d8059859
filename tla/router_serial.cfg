CONSTANTS
    MaxBit = 2
    Task = {t1}
    Node <- SomeNodes
    OwnId <- Self
    KSize = 2
    Target <- AllIds
    BAN_COUNT = 3
SPECIFICATION RouterSerialSpec
INVARIANT BanListBounded
INVARIANT SerialSound
INVARIANT NearestBuckets
PROPERTY ImplementsTable
