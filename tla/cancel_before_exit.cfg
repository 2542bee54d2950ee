SPECIFICATION Spec
CONSTANTS
    Jobs = {j1}
    NoJob = NoJob
    Foreign = Foreign
    Workers = {w1}
    NoWorker = NoWorker
    KindsOf <- Plain
    MaxParts = 1
    Fragments = 1
    MaxCrashes = 0
    MaxFaults = 0
CHECK_DEADLOCK FALSE
PROPERTIES
    CancelledAfterExit
