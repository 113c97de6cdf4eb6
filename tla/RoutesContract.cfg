\* An interaction and an operation across two agent connections.
CONSTANTS
    c1 = c1
    c2 = c2
    s1 = s1
    s2 = s2
    p1 = p1
    i1 = i1
    e1 = e1
    o1 = o1
    watcher = watcher
    None = None
    Clients = {c1}
    Sessions = {s1}
    Permissions = {}
    Interactions = {i1}
    Extensions = {}
    Operations = {o1}
    Ensurers = {watcher}
    MaxGeneration = 2
SPECIFICATION FairSpec
PROPERTIES
    AsksAccounted
    ImplementsContract
    RoutesSettle
