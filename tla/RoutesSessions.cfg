\* Two clients that change session, one permission.
CONSTANTS
    c1 = c1
    c2 = c2
    s1 = s1
    s2 = s2
    p1 = p1
    i1 = i1
    e1 = e1
    o1 = o1
    watcher = watcher
    None = None
    Clients = {c1, c2}
    Sessions = {s1, s2}
    Permissions = {p1}
    Interactions = {}
    Extensions = {}
    Operations = {}
    Ensurers = {watcher}
    MaxGeneration = 1
SPECIFICATION Spec
SYMMETRY Symmetry
INVARIANTS
    EligibleAnswerOnly
    NoGhost
