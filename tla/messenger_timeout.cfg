CONSTANTS
    Query = {q1, q2}
    Unbounded = {}
    Peer = {server, silent}
    ReadOnly = {silent}
    Stranger = {}
    Me = me
    MaxQ = 2
    TidSpace = 4
SPECIFICATION MSpec
SYMMETRY QuerySymmetry
INVARIANT EndsByTimeout
CHECK_DEADLOCK FALSE
