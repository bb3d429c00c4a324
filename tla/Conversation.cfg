SPECIFICATION Spec
CONSTANTS
    Plans <- MCPlans
    None = None
    Unmatched = Unmatched
    MaxMessages = 4
    MaxWire = 2
    MaxMoves = 2
INVARIANTS
    TypeOK
    ConversationIsShown
    ApprovalIsOffered
PROPERTY
    ApprovalIsKept
CHECK_DEADLOCK FALSE
