CONSTANTS
    MaxBit = 2
    Task = {t1, t2}
    Node <- NearNodes
    OwnId <- Self
    KSize = 2
SPECIFICATION Spec
SYMMETRY TaskSymmetry
INVARIANT NoPanic
