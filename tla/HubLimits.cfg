\* Two clients, three requests, a table of two and one slot per client.
CONSTANTS
    c1 = c1
    c2 = c2
    r1 = r1
    r2 = r2
    r3 = r3
    k1 = k1
    k2 = k2
    watcher = watcher
    None = None
    Clients = {c1, c2}
    Requests = {r1, r2, r3}
    InitRequests = {}
    Calls = {}
    Ensurers = {c1, c2}
    MaxGeneration = 1
    PendingLimit = 2
    PendingClientLimit = 1
SPECIFICATION Spec
SYMMETRY Symmetry
INVARIANTS
    LimitsHold
    NoneForgotten
