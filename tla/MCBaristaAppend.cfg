SPECIFICATION FairSpec
CHECK_DEADLOCK FALSE
CONSTANTS
    p1 = p1
    p2 = p2
    u1 = u1
    u2 = u2
    Procs <- TwoProcs
    Users <- MCUsers
    UserOf <- TwoUserOf
    NoUser = NoUser
    NoProc = NoProc
    Paths = {"a"}
    OpenFlags <- AppendFlags
    Counts = {1, 3}
    Seeks <- NoSeeks
    CallFds = {1, 2}
    StatPaths = {}
    StripeSize = 4
    ChunkSize = 2
    MaxFiles = 2
    MaxFds = 2
    MaxRequests = 4
    MaxSize = 3
    MaxFaults = 0
    Enders = {p1}
INVARIANTS TypeOK NoOrphanResponse NothingLeftOfDeletedFiles RequestsIsolated LocksHaveUsers
PROPERTY RequestsAnswered
