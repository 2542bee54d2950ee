SPECIFICATION FairSpec
CONSTANTS
    Jobs = {j1}
    NoJob = NoJob
    Foreign = Foreign
    Workers = {w1, w2}
    NoWorker = NoWorker
    KindsOf <- AnyKind
    MaxParts = 2
    Fragments = 2
    MaxCrashes = 1
    MaxFaults = 1
CHECK_DEADLOCK FALSE
INVARIANTS
    TypeOK
    ReadableRevisions
    PreparedAllOrNothing
    AcknowledgedIsCommitted
    ExportPair
PROPERTIES
    ImplementsContract
    StopTakesEffect
