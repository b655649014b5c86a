CONSTANTS
    t1 = t1
    u1 = u1
    Turns = {t1, u1}
    NoTurn = NoTurn
    Attempts <- AllAttempts
    Here = "m1"
    Asked = "r1"
    Readers = {r1, r2}
    NoReader = NoReader
    MaxAge = 1
    MaxClock = 1
    MaxValues = 2
    QueueLimit = 2
    MaxEvents = 4
    MaxDeltas = 1
    MaxConnections = 2
SPECIFICATION ObserversSpec
INVARIANTS
    OneExecution
    OneHistory
    ToolsKept
    NegativesTrue
    OwnWritesRead
    StalenessBounded
    StreamComplete
CHECK_DEADLOCK FALSE
