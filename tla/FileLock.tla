------------------------------- MODULE FileLock -------------------------------
(***************************************************************************)
(* The lock record DecaFS keeps per file and the operations on it, from    *)
(* locking_strategy.cc.  A process is a client connection                  *)
(* (ConnectionToClient* in the code); the pair (user_id, ip) that a        *)
(* connection logged in with is its user.  Each operation of the code runs *)
(* under one mutex, so each is a guard (the code returns LOCK_ERROR        *)
(* without it) and the record that results.                                *)
(***************************************************************************)
EXTENDS Naturals, FiniteSets

CONSTANTS
    Procs,      \* client connections
    Users,      \* pairs (user_id, ip); user_id 0 is not a user
    UserOf,     \* the user each connection belongs to
    NoUser,     \* owner_uid = 0
    NoProc      \* the NULL connection

ASSUME UsersAssumption == /\ UserOf \in [Procs -> Users]
                          /\ NoUser \notin Users
                          /\ NoProc \notin Procs

\* struct file_lock.  An entry missing from file_locks and a default
\* constructed one behave alike, so both are NoLock.
LockRecords == [owner   : Users \cup {NoUser},
                ex_proc : Procs \cup {NoProc},
                sh_procs : SUBSET Procs]

NoLock == [owner |-> NoUser, ex_proc |-> NoProc, sh_procs |-> {}]

\* A mistake of the exclusive lock: shared holders are not looked at.
CanGetExclusiveOverShared(l, p) == l.ex_proc = NoProc

\* get_exclusive_lock succeeds only on an unowned lock and leaves sh_procs as
\* it is.
CanGetExclusive(l, p) == l.owner = NoUser

GetExclusive(l, p) == [l EXCEPT !.owner = UserOf[p], !.ex_proc = p]

\* A mistake: the owner of the lock is not looked at.
CanGetSharedAnyUser(l, p) == p \notin l.sh_procs

\* get_shared_lock takes an unowned lock, or joins a lock its own user owns;
\* it does not look at ex_proc.  A second insertion of the same process fails.
CanGetShared(l, p) == /\ l.owner \in {NoUser, UserOf[p]}
                      /\ p \notin l.sh_procs

GetShared(l, p) == [l EXCEPT !.owner = UserOf[p],
                             !.sh_procs = @ \cup {p}]

\* A mistake: the last shared holder leaves the owner behind.
ReleaseKeepsOwner(l, p) ==
    IF l.ex_proc = p THEN NoLock ELSE [l EXCEPT !.sh_procs = @ \ {p}]

\* A mistake: only the owner is cleared, as release_metadata_lock does.
ReleaseClearsOwner(l, p) ==
    IF l.ex_proc = p \/ l.sh_procs = {p}
    THEN [l EXCEPT !.owner = NoUser]
    ELSE [l EXCEPT !.sh_procs = @ \ {p}]

\* release_lock: the exclusive holder erases the whole entry; a shared holder
\* leaves, and the last one to leave erases the whole entry.
CanRelease(l, p) == /\ l.owner = UserOf[p]
                    /\ l.ex_proc = p \/ p \in l.sh_procs

Release(l, p) ==
    IF l.ex_proc = p \/ l.sh_procs = {p}
    THEN NoLock
    ELSE [l EXCEPT !.sh_procs = @ \ {p}]

HasExclusive(l, p) == l.owner = UserOf[p] /\ l.ex_proc = p

HasShared(l, p) == l.owner = UserOf[p] /\ p \in l.sh_procs

HasLock(l, p) == HasExclusive(l, p) \/ HasShared(l, p)
===============================================================================
