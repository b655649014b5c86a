CONSTANTS
    s1 = s1
    s2 = s2
    Scopes = {s1, s2}
    NoScope = NoScope
    Identities <- AllIdentities
    Lease = 2
SPECIFICATION TurnsSpec
INVARIANTS
    TurnsInv
    AnswerTrue
PROPERTIES
    ImplementsAuthority
    PromotionSettles
CHECK_DEADLOCK FALSE
