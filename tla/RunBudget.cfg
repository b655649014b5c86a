CONSTANTS
    r1 = r1
    r2 = r2
    c1 = c1
    c2 = c2
    c3 = c3
    k1 = k1
    k2 = k2
    k3 = k3
    NoLimit = NoLimit
    Unknown = Unknown
    Open = Open
    NoRow = NoRow
    Costs = {1}
    Runtimes = {r1, r2}
    Calls = {c1, c2, c3}
    Keys = {k1, k2, k3}
    Scopes <- SharedAndLocal
SPECIFICATION FairSpec
INVARIANTS
    BudgetInv
    DispatchedOnce
PROPERTIES
    CloseDrains
CHECK_DEADLOCK FALSE
