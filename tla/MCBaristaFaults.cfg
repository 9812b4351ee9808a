SPECIFICATION Spec
CHECK_DEADLOCK FALSE
CONSTANTS
    p1 = p1
    p2 = p2
    u1 = u1
    u2 = u2
    Procs <- OneProc
    Users <- MCUsers
    UserOf <- OneUserOf
    NoUser = NoUser
    NoProc = NoProc
    Paths = {"a"}
    OpenFlags <- WriteFlags
    Counts = {3, 5}
    Seeks <- SomeSeeks
    CallFds = {0, 1, 2}
    StatPaths = {"a"}
    StripeSize = 4
    ChunkSize = 2
    MaxFiles = 1
    MaxFds = 2
    MaxRequests = 5
    MaxSize = 6
    MaxFaults = 1
    Enders = {}
INVARIANTS NoOrphanResponse AnsweredDataStoredTwice
PROPERTIES ReadCorrect FullCountMeansStored StorageStatTrue
