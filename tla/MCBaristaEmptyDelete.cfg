SPECIFICATION FairSpec
CHECK_DEADLOCK FALSE
CONSTANTS
    p1 = p1
    p2 = p2
    u1 = u1
    u2 = u2
    Procs <- OneProc
    Users <- MCUsers
    UserOf <- OneUserOf
    NoUser = NoUser
    NoProc = NoProc
    Paths = {"a"}
    OpenFlags <- AppendFlags
    Counts = {1}
    Seeks <- NoSeeks
    CallFds = {1}
    StatPaths = {}
    StripeSize = 4
    ChunkSize = 2
    MaxFiles = 1
    MaxFds = 1
    MaxRequests = 2
    MaxSize = 1
    MaxFaults = 0
    Enders = {}
PROPERTY DeleteAnswered
