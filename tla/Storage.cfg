CONSTANTS
    t1 = t1
    t2 = t2
    t3 = t3
    p = p
    q = q
    Tasks = {t1, t2, t3}
    Processes = {p, q}
    ProcessOf <- Placed
    NoTask = NoTask
    LeaseSeconds = 1
    MaxFence = 2
    MaxObjects = 4
    FailingReleases = {t1}
    MaxEntries = 4
    BatchSize = 2
    Capacity = 3
    MaxFaults = 2
SPECIFICATION StorageSpec
INVARIANTS
    LeaseInv
    KeyedLockSound
    MutationLockSound
    BufferSound
    FlushIsReceipt
PROPERTIES
    ImplementsFencedLease
    KeyedLockIsMutex
    CleanupsEnd
    CloseEnds
CHECK_DEADLOCK FALSE
