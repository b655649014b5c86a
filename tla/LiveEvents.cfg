CONSTANTS
    QueueLimit = 2
    MaxEvents = 4
    MaxDeltas = 1
    MaxConnections = 2
SPECIFICATION Spec
INVARIANT AtLeastOnce
CHECK_DEADLOCK FALSE
