\* Two jobs of one session, one job of another, room for two.
CONSTANTS
    j1 = j1
    j2 = j2
    j3 = j3
    s1 = s1
    s2 = s2
    Jobs = {j1, j2, j3}
    Sessions = {s1, s2}
    SessionOf <- MCSessionOf
    MaxJobs = 2
SPECIFICATION FairSpec
INVARIANTS
    AckedDurable
    RefusedLeavesNothing
    JobsRun
PROPERTIES
    CloseEnds
