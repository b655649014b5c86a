CONSTANTS
    t1 = t1
    u1 = u1
    Turns = {t1, u1}
    NoTurn = NoTurn
    Attempts <- AllAttempts
    Here = "m1"
    Asked = "r1"
SPECIFICATION MCSpec
INVARIANT UnknownRemainsError
CHECK_DEADLOCK FALSE
