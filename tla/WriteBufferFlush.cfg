CONSTANTS
    MaxEntries = 3
    BatchSize = 2
    Capacity = 3
    MaxFaults = 2
SPECIFICATION FairSpec
PROPERTY FlushEnds
CHECK_DEADLOCK FALSE
