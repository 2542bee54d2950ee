SPECIFICATION Spec
CONSTANTS
    Results = {r1, r2}
    Sources = {s1}
    Clients = {c1}
    Inline = {2}
    Asked = {"query", "prepare", "export"}
    MaxInputs = 1
    Budgets = {1}
    Spill = 0
    Quotas = {0, 1}
    Batch = 2
CHECK_DEADLOCK FALSE
SYMMETRY ResultSymmetry
INVARIANTS
    TypeOK
    TombstoneFirst
    ActiveInputsKept
    PageStaysReadable
    QuotaHolds
PROPERTIES
    ExpiredForever
    ExpiryRespectsRetention
    CollectionCompletes
