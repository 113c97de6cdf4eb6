\* Two daemons on one data directory, three agents.
CONSTANTS
    d1 = d1
    d2 = d2
    p1 = p1
    p2 = p2
    p3 = p3
    Stranger = Stranger
    None = None
    Daemons = {d1, d2}
    Processes = {p1, p2, p3}
SPECIFICATION Spec
SYMMETRY Symmetry
INVARIANTS
    Tracked
    OneAgent
PROPERTIES
    SpawnBarrier
    StopLeavesNone
