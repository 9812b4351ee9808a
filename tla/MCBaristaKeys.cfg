SPECIFICATION Spec
CHECK_DEADLOCK FALSE
CONSTANTS
    p1 = p1
    p2 = p2
    u1 = u1
    u2 = u2
    Procs <- OneProc
    Users <- MCUsers
    UserOf <- OneUserOf
    NoUser = NoUser
    NoProc = NoProc
    Paths = {"a", "b"}
    OpenFlags <- AppendFlags
    Counts = {3}
    Seeks <- NoSeeks
    CallFds = {1, 2, 3}
    StatPaths = {}
    StripeSize = 2
    ChunkSize = 2
    MaxFiles = 2
    MaxFds = 3
    MaxRequests = 3
    MaxSize = 3
    MaxFaults = 0
    Enders = {}
PROPERTY ReadCorrect
