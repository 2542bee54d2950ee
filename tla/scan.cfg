SPECIFICATION FairSpec
CONSTANTS
    e = e
    p = p
    q = q
    large = large
    Files = {e, p, q, large}
    Managed = {p, q, large}
    Size <- Sizes
    Readers = {r1, r2}
    NoReader = NoReader
    Manifests <- GivenManifests
    Limits = {4}
    Batch = 1
    Chunk = 1
    CacheBytes = 1
    CacheEntries = 2
    MaxChanges = 1
    Groups <- GivenGroups
    Null = Null
    Single = r1
    JobKinds = {"query", "analysis"}
    Units = {"parquet_row_group", "manifest_file"}
    Previews = {"none", "available"}
    MaxRequests = 3
    SumTop = 8
    Precision = 6
    Factor = 2
CHECK_DEADLOCK FALSE
INVARIANTS
    JobTypeOK
    WithinBudgets
    VerifiedOnly
    FrozenReads
    CheckpointsExact
PROPERTIES
    JobEnds
