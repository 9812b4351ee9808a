SPECIFICATION Spec
CONSTANTS
    p1 = p1
    p2 = p2
    p3 = p3
    u1 = u1
    u2 = u2
    Procs <- MCProcs
    Users <- MCUsers
    UserOf <- MCUserOf
    NoUser = NoUser
    NoProc = NoProc
    Files = {f1, f2}
INVARIANTS TypeOK OneUserPerFile NoOrphanLock
PROPERTIES StrangersCannotDisturb ImplementsUserLock
