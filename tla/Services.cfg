\* The room: one follower, six messages, compaction at three. The history: six
\* lines, pages of two, windows of three to six half lines and a scan of twelve.
\* Interactions of up to two questions. The archive: two calls at once, three
\* changes of two sessions. The log: seven characters in writes of up to three.
\* An interaction that is answered and a log that is closed have no next step.
CONSTANTS
    f1 = f1
    Followers = {f1}
    Threshold = 3
    Retain = 2
    FeedLimit = 2
    MaxSays = 6
    MaxTears = 1
    MaxClears = 1
    Kinds <- MCKinds
    Limit = 2
    MaxBytes = 6
    InitialScan = 3
    MaxScan = 12
    ScanGrowth = 1
    BufferFactor = 2
    Reserve = 20
    MaxLines = 6
    Frames <- MCFrames
    Answers <- MCAnswers
    a1 = a1
    a2 = a2
    Callers = {a1, a2}
    Archivable = {"s", "t"}
    NoCaller = "nobody"
    MaxCalls = 3
    MaxCrashes = 1
    Alphabet = {"a", "b"}
    SensitiveValues <- MCValues
    MaxWritten = 7
    MaxWrite = 3
SPECIFICATION ServicesSpec
INVARIANTS
    AckedKept
    FollowersInOrder
    MissedOnlyFarBehind
    FollowerMissesOnlyFar
    PagesAdjoin
    AnswersReachTheirQuestions
    ArchiveLosesNothing
    NoValueLogged
CHECK_DEADLOCK FALSE
