SPECIFICATION Spec
CONSTANTS
    Jobs = {j1, j2}
    NoJob = NoJob
    Foreign = Foreign
    Workers = {w1, w2}
    NoWorker = NoWorker
    KindsOf <- QueryOrExport
    MaxParts = 1
    Fragments = 1
    MaxCrashes = 1
    MaxFaults = 0
CHECK_DEADLOCK FALSE
SYMMETRY AllSymmetry
INVARIANTS
    ExecutingIsActive
    SingleExecutor
    StoppedExportLeavesNothing
PROPERTIES
    NoLateStaging
