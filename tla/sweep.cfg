CONSTANTS
    MaxBit = 2
    Node <- SomeNodes
    GAP <- Neighbour
    TRAVELLERS = 2
    SEEDS = 1
    Capacity = 1
    MaxFound = 2
    MaxSamples = 1
SPECIFICATION SweepSpec
INVARIANT SweepTypeOK
INVARIANT SweptOnce
INVARIANT SweptAll
PROPERTY SweepEnds
CHECK_DEADLOCK FALSE
