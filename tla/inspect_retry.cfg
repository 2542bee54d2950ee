SPECIFICATION Spec
CONSTANTS
    None = None
    c1 = c1
    c2 = c2
    k1 = k1
    b1 = b1
    Procs = {p1, p2}
    Clients = {c1, c2}
    Conns = {n1, n2}
    Keys = {k1}
    Asks <- OneEach
    MaxEnds = 1
    MaxLost = 1
CHECK_DEADLOCK FALSE
INVARIANT RetryRefersToJob
