SPECIFICATION FairSpec
CONSTANTS
    Jobs = {j1, j2}
    NoJob = NoJob
    Foreign = Foreign
    Workers = {w1}
    NoWorker = NoWorker
    KindsOf <- Plain
    MaxParts = 0
    Fragments = 1
    MaxCrashes = 2
    MaxFaults = 0
CHECK_DEADLOCK FALSE
PROPERTIES
    EventuallyTerminal
