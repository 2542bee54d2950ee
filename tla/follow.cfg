SPECIFICATION FairSpec
CONSTANTS
    Jobs = {j1}
    Clients = {c1}
    Kinds = {"query", "analysis"}
    Reports = {"completed"}
    Stops = {"cancelled"}
    Methods = {"events", "snapshot", "wait"}
    Batch = 2
    Limits = {1}
    Rooms = {2}
    Topics <- AllOrEnds
    MaxParts = 1
    MaxLost = 1
    MaxCrashes = 1
CHECK_DEADLOCK FALSE
INVARIANTS
    TypeOK
    NoLostWakeup
    EventsOnceInOrder
    MirrorIsCurrent
    LogTellsEachJob
PROPERTIES
    FollowersCatchUp
