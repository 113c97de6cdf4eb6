\* One client, one internal call and the watcher across two agent connections.
CONSTANTS
    c1 = c1
    c2 = c2
    r1 = r1
    r2 = r2
    r3 = r3
    k1 = k1
    k2 = k2
    watcher = watcher
    None = None
    Clients = {c1}
    Requests = {r1}
    InitRequests = {r1}
    Calls = {k1}
    Ensurers = {c1, k1, watcher}
    MaxGeneration = 2
    PendingLimit = 2
    PendingClientLimit = 2
SPECIFICATION FairSpec
INVARIANTS
    SettledOnce
    NoDeadCarrier
    InitCacheFresh
    CallsAreServed
PROPERTIES
    EntriesSettle
    CloseReturns
