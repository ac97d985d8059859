CONSTANTS
    Party <- Parties
    MinId = 0
    Method <- Methods
    Kind <- Kinds
    Foreign <- Dictionaries
    Outsider <- Away
    MaxStarted = 2
SPECIFICATION XSpec
INVARIANT RequestFaithful
INVARIANT ReplyFaithful
INVARIANT AllUnderstood
PROPERTY Settles
CHECK_DEADLOCK FALSE
