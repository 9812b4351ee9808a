--------------------------- MODULE LockingStrategy ---------------------------
(***************************************************************************)
(* The locking strategy (locking_strategy.cc): one lock per file and one   *)
(* metadata lock, used by any number of client processes.  Every function  *)
(* takes its mutex for its whole body, so a call is one step; the calls of *)
(* different processes come in any order.  `last' is the reply of the last *)
(* call.                                                                   *)
(***************************************************************************)
EXTENDS FileLock

CONSTANT Files

LOCK_SUCCESS == "success"
LOCK_ERROR == "error"

VARIABLES
    file_locks,     \* file id -> lock record
    meta_lock,      \* meta_lock_singleton: owner and proc
    last            \* the last call: its name, its caller and its result

vars == <<file_locks, meta_lock, last>>

MetaLocks == [owner : Users \cup {NoUser}, proc : Procs \cup {NoProc}]

Calls == [op : {"get_exclusive_lock", "get_shared_lock", "release_lock",
                "get_metadata_lock", "release_metadata_lock", "none"},
          proc : Procs \cup {NoProc},
          result : {LOCK_SUCCESS, LOCK_ERROR}]

\* One type invariant: every lock is a lock record, the empty one if nobody
\* owns it, every reply a reply.
TypeOK == /\ file_locks \in [Files -> LockRecords]
          /\ \A f \in Files : file_locks[f].owner = NoUser => file_locks[f] = NoLock
          /\ meta_lock \in MetaLocks
          /\ last \in Calls

Init == /\ file_locks = [f \in Files |-> NoLock]
        /\ meta_lock = [owner |-> NoUser, proc |-> NoProc]
        /\ last = [op |-> "none", proc |-> NoProc, result |-> LOCK_SUCCESS]

Reply(op, p, result) == last' = [op |-> op, proc |-> p, result |-> result]

-------------------------------------------------------------------------------
(* File locks *)

get_exclusive_lock(p, f) ==
    \/ /\ CanGetExclusive(file_locks[f], p)
       /\ file_locks' = [file_locks EXCEPT ![f] = GetExclusive(@, p)]
       /\ Reply("get_exclusive_lock", p, LOCK_SUCCESS)
       /\ UNCHANGED meta_lock
    \/ /\ ~CanGetExclusive(file_locks[f], p)
       /\ Reply("get_exclusive_lock", p, LOCK_ERROR)
       /\ UNCHANGED <<file_locks, meta_lock>>

get_shared_lock(p, f) ==
    \/ /\ CanGetShared(file_locks[f], p)
       /\ file_locks' = [file_locks EXCEPT ![f] = GetShared(@, p)]
       /\ Reply("get_shared_lock", p, LOCK_SUCCESS)
       /\ UNCHANGED meta_lock
    \/ /\ ~CanGetShared(file_locks[f], p)
       /\ Reply("get_shared_lock", p, LOCK_ERROR)
       /\ UNCHANGED <<file_locks, meta_lock>>

release_lock(p, f) ==
    \/ /\ CanRelease(file_locks[f], p)
       /\ file_locks' = [file_locks EXCEPT ![f] = Release(@, p)]
       /\ Reply("release_lock", p, LOCK_SUCCESS)
       /\ UNCHANGED meta_lock
    \/ /\ ~CanRelease(file_locks[f], p)
       /\ Reply("release_lock", p, LOCK_ERROR)
       /\ UNCHANGED <<file_locks, meta_lock>>

-------------------------------------------------------------------------------
(* The metadata lock *)

\* has_metadata_lock.
HasMetadata(m, p) == m.owner = UserOf[p] /\ m.proc = p

\* get_metadata_lock returns at once, with LOCK_ERROR when the lock is taken.
get_metadata_lock(p) ==
    \/ /\ meta_lock.owner = NoUser
       /\ meta_lock' = [owner |-> UserOf[p], proc |-> p]
       /\ Reply("get_metadata_lock", p, LOCK_SUCCESS)
       /\ UNCHANGED file_locks
    \/ /\ meta_lock.owner # NoUser
       /\ Reply("get_metadata_lock", p, LOCK_ERROR)
       /\ UNCHANGED <<file_locks, meta_lock>>

\* A mistake: any process releases the metadata lock.
ReleaseMetadataAnyone(p) ==
    /\ meta_lock' = [meta_lock EXCEPT !.owner = NoUser]
    /\ Reply("release_metadata_lock", p, LOCK_SUCCESS)
    /\ UNCHANGED file_locks

\* release_metadata_lock clears owner_uid only; proc keeps its last value.
release_metadata_lock(p) ==
    \/ /\ HasMetadata(meta_lock, p)
       /\ meta_lock' = [meta_lock EXCEPT !.owner = NoUser]
       /\ Reply("release_metadata_lock", p, LOCK_SUCCESS)
       /\ UNCHANGED file_locks
    \/ /\ ~HasMetadata(meta_lock, p)
       /\ Reply("release_metadata_lock", p, LOCK_ERROR)
       /\ UNCHANGED <<file_locks, meta_lock>>

-------------------------------------------------------------------------------

FileCall(p, f) == get_exclusive_lock(p, f) \/ get_shared_lock(p, f)
                    \/ release_lock(p, f)

Next == \E p \in Procs : \/ \E f \in Files : FileCall(p, f)
                         \/ get_metadata_lock(p)
                         \/ release_metadata_lock(p)

Spec == Init /\ [][Next]_vars

-------------------------------------------------------------------------------
(* Properties *)

Holders(l) == {p \in Procs : HasLock(l, p)}

\* The processes on a lock are all of the user that owns it, the exclusive
\* holder and the shared ones alike, and an unowned lock has no leftover
\* holder that a later owner of the file would inherit.
OneUserPerFile ==
    \A f \in Files : LET l == file_locks[f] IN
        /\ l.ex_proc # NoProc => UserOf[l.ex_proc] = l.owner
        /\ \A p \in l.sh_procs : UserOf[p] = l.owner

\* An owned lock has a process whose release_lock would succeed: whatever
\* order get_exclusive_lock, get_shared_lock and release_lock are called in,
\* no file stays owned by a user none of whose processes can give it back.
NoOrphanLock ==
    \A f \in Files : file_locks[f].owner # NoUser =>
                        \E p \in Procs : CanRelease(file_locks[f], p)

\* No call of a process of one user takes a file lock away from a process of
\* another user, or the metadata lock from another process, failed and
\* repeated release calls included.
StrangersCannotDisturb ==
    [][\A q \in Procs :
        /\ \A f \in Files : /\ HasLock(file_locks[f], q)
                             /\ UserOf[q] # UserOf[last'.proc]
                             => HasLock(file_locks'[f], q)
        /\ HasMetadata(meta_lock, q) /\ q # last'.proc
             => HasMetadata(meta_lock', q)]_vars

\* The file locks implement UserLock: seen through the processes that
\* has_exclusive_lock or has_shared_lock answers 1 for, a file only ever
\* passes between users when nobody holds it.
FileHolders == [f \in Files |-> Holders(file_locks[f])]

Abstract == INSTANCE UserLock WITH holders <- FileHolders

\* The refinement, as the property a run checks.
ImplementsUserLock == Abstract!Spec
===============================================================================
