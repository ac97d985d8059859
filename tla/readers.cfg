CONSTANTS
    MaxBit = 2
    Task = {t1}
    Node <- NearNodes
    OwnId <- Self
    KSize = 2
    Target <- Targets
SPECIFICATION FileSpec
INVARIANT FileTypeOK
INVARIANT RangeOK
INVARIANT LookupBounded
INVARIANT LookupComplete
INVARIANT SavedUnlessSplit
PROPERTY ReadersReturn
