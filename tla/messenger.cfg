CONSTANTS
    Query = {q1, q2, q3}
    Unbounded = {q3}
    Peer = {me}
    ReadOnly = {}
    Stranger = {other}
    Me = me
    MaxQ = 1
    TidSpace = 3
SPECIFICATION MSpec
INVARIANT MTypeOK
INVARIANT AnswerMatches
INVARIANT NoLeak
INVARIANT PermitsBalance
PROPERTY EveryQueryReturns
CHECK_DEADLOCK FALSE
