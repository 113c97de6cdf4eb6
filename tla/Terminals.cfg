\* Two operation goroutines at a time, one terminal, two sessions.
CONSTANTS
    o1 = o1
    o2 = o2
    o3 = o3
    t1 = t1
    t2 = t2
    s1 = s1
    s2 = s2
    None = None
    Operations = {o1, o2}
    Terminals = {t1}
    Sessions = {s1, s2}
SPECIFICATION FairSpec
INVARIANTS
    
    
    StatusIsTrue
PROPERTIES
    CloseEnds
    WaitsEnd
