-------------------------- MODULE BaristaCoreProofs --------------------------
(***************************************************************************)
(* Barista's locks, descriptors, requests, connections and chunk maps, for *)
(* any clients, paths, nodes' failures and bounds: no lock without a user, *)
(* no two clients' requests on one file, no answer of a node that no       *)
(* request is waiting for, and types.                                      *)
(***************************************************************************)
EXTENDS BaristaCore, OperatorProofs, FiniteSetTheorems, TLAPS

-------------------------------------------------------------------------------
(* The invariant *)

\* File ids that paths are mapped to have been given out.
Files == /\ next_file_id \in 0 .. MaxFiles
         /\ \A path \in DOMAIN pathname_to_file_id :
                pathname_to_file_id[path] \in FileIds

\* A cursor, a request: somebody's, of some file.  Their other fields are left
\* open.
Owned(r) == /\ {"client", "file"} \subseteq DOMAIN r
            /\ r.client \in Procs
            /\ r.file \in FileIds

AllOwned(f) == \A i \in DOMAIN f : Owned(f[i])

\* A new descriptor is not one that is open, and a new request's id not one
\* that is under way.
Numbers == /\ last_fd \in Nat
           /\ DOMAIN file_cursors \subseteq 1 .. last_fd
           /\ request_id \in Nat
           /\ DOMAIN active_reads \cup DOMAIN active_writes
                  \cup DOMAIN active_deletes \subseteq 1 .. request_id

LocksGood == /\ file_locks \in [FileIds -> LockRecords]
             /\ \A file \in FileIds : GoodLock(file_locks[file])

\* A client with a lock has a descriptor of the file or a delete of it under
\* way.
HoldersKnown ==
    \A file \in FileIds, c \in Procs : HasLock(file_locks[file], c) =>
        \/ \E fd \in DOMAIN file_cursors :
              file_cursors[fd].client = c /\ file_cursors[fd].file = file
        \/ \E id \in DOMAIN active_deletes :
              active_deletes[id].client = c /\ active_deletes[id].file = file

\* HoldersKnown, which needs all of it to be inductive: a lock that is not
\* good may come to life again when its user opens the file.
UsersInv == /\ Files
            /\ Numbers
            /\ AllOwned(file_cursors)
            /\ AllOwned(active_reads)
            /\ AllOwned(active_writes)
            /\ AllOwned(active_deletes)
            /\ LocksGood
            /\ HoldersKnown

-------------------------------------------------------------------------------
(* Owned entries through updates of other fields *)

\* Every entry of g is the one f has there, up to fields other than its client
\* and its file.
Follows(g, f) == \A i \in DOMAIN g : /\ i \in DOMAIN f
                                     /\ g[i].client = f[i].client
                                     /\ g[i].file = f[i].file

\* The entries of f that are not c's of this file are in g, unchanged but for
\* other fields.
OthersStay(f, g, c, file) ==
    \A i \in DOMAIN f : f[i].client # c \/ f[i].file # file =>
        /\ i \in DOMAIN g
        /\ g[i].client = f[i].client
        /\ g[i].file = f[i].file

HasOne(f, c, file) == \E i \in DOMAIN f : f[i].client = c /\ f[i].file = file

\* A release leaves its caller without the lock, and the others' locks alone.
LEMMA ReleaseLock ==
    ASSUME NEW l, GoodLock(l), NEW c \in Procs, NEW m,
           m = IF CanRelease(l, c) THEN Release(l, c) ELSE l
    PROVE  /\ GoodLock(m)
           /\ ~HasLock(m, c)
           /\ \A q \in Procs : HasLock(m, q) => HasLock(l, q)
           /\ \A q \in Procs : HasLock(l, q) /\ UserOf[q] # UserOf[c] => m = l
<1>1. GoodLock(m)
  BY OperationsGood
<1>2. UserOf \in [Procs -> Users] /\ NoUser \notin Users /\ l \in LockRecords
  BY UsersAssumption DEF GoodLock
<1>3. CASE ~CanRelease(l, c)
  BY <1>1, <1>3 DEF CanRelease, HasLock, HasExclusive, HasShared
<1>4. CASE CanRelease(l, c) /\ (l.ex_proc = c \/ l.sh_procs = {c})
  <2>1. m = NoLock
    BY <1>4 DEF Release
  <2> QED BY <1>1, <1>2, <1>4, <2>1
          DEF NoLock, HasLock, HasExclusive, HasShared, CanRelease
<1>5. CASE CanRelease(l, c) /\ ~(l.ex_proc = c \/ l.sh_procs = {c})
  <2>1. m = [l EXCEPT !.sh_procs = @ \ {c}]
    BY <1>5 DEF Release
  <2> QED BY <1>1, <1>2, <1>5, <2>1
          DEF LockRecords, HasLock, HasExclusive, HasShared, CanRelease
<1> QED BY <1>3, <1>4, <1>5

\* A lock is given to its caller, and nobody loses one by it.
LEMMA GrantLock ==
    ASSUME NEW l, GoodLock(l), NEW c \in Procs, NEW m,
           \/ CanGetExclusive(l, c) /\ m = GetExclusive(l, c)
           \/ CanGetShared(l, c) /\ m = GetShared(l, c)
    PROVE  /\ GoodLock(m)
           /\ \A q \in Procs : HasLock(m, q) => HasLock(l, q) \/ q = c
           /\ \A q \in Procs : HasLock(l, q) => HasLock(m, q)
           /\ HasLock(m, c)
<1>1. GoodLock(m)
  BY OperationsGood
<1>2. UserOf \in [Procs -> Users] /\ NoUser \notin Users /\ l \in LockRecords
      /\ NoProc \notin Procs
  BY UsersAssumption DEF GoodLock
<1>3. l.owner = NoUser => l.ex_proc = NoProc /\ l.sh_procs = {}
  BY <1>2 DEF GoodLock, LockRecords
<1>4. CASE CanGetExclusive(l, c) /\ m = GetExclusive(l, c)
  BY <1>1, <1>2, <1>3, <1>4
  DEF LockRecords, CanGetExclusive, GetExclusive, HasLock, HasExclusive, HasShared
<1>5. CASE CanGetShared(l, c) /\ m = GetShared(l, c)
  BY <1>1, <1>2, <1>3, <1>5
  DEF LockRecords, CanGetShared, GetShared, HasLock, HasExclusive, HasShared
<1> QED BY <1>4, <1>5

\* Moving a cursor leaves whose it is and of what file.
LEMMA MovedFollows ==
    ASSUME NEW cursors, AllOwned(cursors), NEW fd \in DOMAIN cursors, NEW new,
           NEW o, new = [cursors EXCEPT ![fd].offset = o]
    PROVE  /\ AllOwned(new)
           /\ DOMAIN new = DOMAIN cursors
           /\ Follows(new, cursors)
<1>1. Owned(cursors[fd])
  BY DEF AllOwned
<1>2. /\ Owned([cursors[fd] EXCEPT !.offset = o])
      /\ [cursors[fd] EXCEPT !.offset = o].client = cursors[fd].client
      /\ [cursors[fd] EXCEPT !.offset = o].file = cursors[fd].file
  BY <1>1 DEF Owned
<1>3. /\ DOMAIN new = DOMAIN cursors
      /\ new[fd] = [cursors[fd] EXCEPT !.offset = o]
      /\ \A i \in DOMAIN new : i # fd => new[i] = cursors[i]
  OBVIOUS
<1> QED BY <1>2, <1>3 DEF AllOwned, Follows

\* set_file_cursor moves a cursor at most.
LEMMA SetCursorFollows ==
    ASSUME NEW cursors, AllOwned(cursors), NEW c, NEW fd, NEW offset,
           NEW new \in SetCursor(cursors, c, fd, offset)
    PROVE  /\ AllOwned(new)
           /\ DOMAIN new = DOMAIN cursors
           /\ Follows(new, cursors)
<1>1. CASE new = cursors
  BY <1>1 DEF Follows
<1> QED BY <1>1, MovedFollows DEF SetCursor

\* Adding, replacing and dropping entries.
LEMMA AddOwned ==
    ASSUME NEW f, AllOwned(f), NEW k, NEW v, Owned(v)
    PROVE  AllOwned(Add(f, k, v))
  BY DEF AllOwned, Add

LEMMA DropOwned ==
    ASSUME NEW f, AllOwned(f), NEW k
    PROVE  AllOwned(Drop(f, k)) /\ Follows(Drop(f, k), f)
  BY DEF AllOwned, Drop, Follows

-------------------------------------------------------------------------------
(* What the handlers that send do to the locks, cursors and requests *)

ReadRequest(c, fd, count, h) ==
    [client |-> c, file |-> FileOf(fd), fd |-> fd, expected |-> h.chunks,
     received |-> 0, packets |-> EmptyMap,
     want |-> Slice(content[FileOf(fd)], file_cursors[fd].offset, count)]

ReadStarted(c, fd, count, h) ==
    /\ ReadVerdict(c, fd, count) = Proceed
    /\ request_id' = get_new_request_id
    /\ file_cursors' \in SetCursor(file_cursors, c, fd,
                                   file_cursors[fd].offset + count)
    /\ active_reads' = Add(active_reads, get_new_request_id,
                           ReadRequest(c, fd, count, h))
    /\ UNCHANGED <<fileMeta, last_fd, file_locks, active_writes,
                   active_deletes>>

\* What the steps that start requests have in common, whatever the loops sent.
LEMMA ReadSentDoes ==
    ASSUME NEW c, NEW fd, NEW count, ReadSent(c, fd, count), ~Crash
    PROVE  \E h : ReadStarted(c, fd, count, h)
  BY DEF ReadSent, ReadStarted, ReadRequest

WriteRequest(c, fd, count, h) ==
    [replica |-> get_new_request_id + 1, client |-> c, file |-> FileOf(fd),
     fd |-> fd, offset |-> file_cursors[fd].offset, asked |-> count,
     expected |-> h.chunks, received |-> 0, replica_expected |-> h.replicas,
     replica_received |-> 0, count |-> 0]

WriteStarted(c, fd, count, h) ==
    /\ WriteVerdict(c, fd, count) = Proceed
    /\ SizeOf(FileOf(fd)) + count <= MaxSize
    /\ request_id' = get_new_request_id + 1
    /\ metadata' = update_file_size(FileOf(fd), count)
    /\ file_cursors' =
          IF file_cursors[fd].client = c
          THEN [file_cursors EXCEPT ![fd].offset = @ + count]
          ELSE file_cursors
    /\ active_writes' = Add(active_writes, get_new_request_id,
                            WriteRequest(c, fd, count, h))
    /\ UNCHANGED <<pathname_to_file_id, next_file_id, last_fd,
                   file_locks, active_reads, active_deletes>>

LEMMA WriteSentDoes ==
    ASSUME NEW c, NEW fd, NEW count, WriteSent(c, fd, count), ~Crash
    PROVE  \E h : WriteStarted(c, fd, count, h)
  BY DEF WriteSent, WriteStarted, WriteRequest

DeleteRequest(c, path, h) ==
    [client |-> c, file |-> pathname_to_file_id[path], expected |-> h.chunks,
     received |-> 0]

DeleteStarted(c, path, h) ==
    /\ DeleteVerdict(c, path) = Proceed
    /\ request_id' = get_new_request_id
    /\ file_locks' = [file_locks EXCEPT ![pathname_to_file_id[path]] =
                          GetExclusive(@, c)]
    /\ active_deletes' = Add(active_deletes, get_new_request_id,
                             DeleteRequest(c, path, h))
    /\ UNCHANGED <<fileMeta, fds, active_reads, active_writes>>

LEMMA DeleteSentDoes ==
    ASSUME NEW c, NEW path, DeleteSent(c, path), ~Crash
    PROVE  \E h : DeleteStarted(c, path, h)
  BY DEF DeleteSent, DeleteStarted, DeleteRequest

-------------------------------------------------------------------------------
(* The invariant is kept *)

\* Steps that leave the locks alone, move cursors at most, and drop no delete.
LEMMA LocksLeftAlone ==
    ASSUME UsersInv,
           UNCHANGED <<pathname_to_file_id, next_file_id, file_locks>>,
           Numbers', AllOwned(file_cursors'), Follows(file_cursors, file_cursors'),
           AllOwned(active_reads'), AllOwned(active_writes'),
           AllOwned(active_deletes'), Follows(active_deletes, active_deletes')
    PROVE  UsersInv'
<1>1. HoldersKnown'
  <2> SUFFICES ASSUME NEW file \in FileIds, NEW c \in Procs,
                      HasLock(file_locks[file], c)
               PROVE  \/ \E fd \in DOMAIN file_cursors' :
                             /\ file_cursors'[fd].client = c
                             /\ file_cursors'[fd].file = file
                      \/ \E id \in DOMAIN active_deletes' :
                             /\ active_deletes'[id].client = c
                             /\ active_deletes'[id].file = file
    BY DEF HoldersKnown, HasLock, HasExclusive, HasShared
  <2> QED BY DEF UsersInv, HoldersKnown, Follows
<1> QED BY <1>1 DEF UsersInv, Files, LocksGood

\* Steps that change the lock of one file, to one that gives nobody but c
\* anything: if c has it, c is a user of the file, and the others still are.
LEMMA LockChanged ==
    ASSUME UsersInv, NEW file \in FileIds, NEW c \in Procs, NEW m, GoodLock(m),
           file_locks' = [file_locks EXCEPT ![file] = m],
           \A q \in Procs : q # c /\ HasLock(m, q) => HasLock(file_locks[file], q),
           Files', Numbers', AllOwned(file_cursors'), AllOwned(active_reads'),
           AllOwned(active_writes'), AllOwned(active_deletes'),
           OthersStay(file_cursors, file_cursors', c, file),
           OthersStay(active_deletes, active_deletes', c, file),
           HasLock(m, c) => \/ HasOne(file_cursors', c, file)
                            \/ HasOne(active_deletes', c, file)
    PROVE  UsersInv'
<1>1. LocksGood'
  BY DEF UsersInv, LocksGood, GoodLock
<1>2. HoldersKnown'
  <2> SUFFICES ASSUME NEW f \in FileIds, NEW q \in Procs,
                      HasLock(file_locks'[f], q)
               PROVE  \/ \E fd \in DOMAIN file_cursors' :
                             /\ file_cursors'[fd].client = q
                             /\ file_cursors'[fd].file = f
                      \/ \E id \in DOMAIN active_deletes' :
                             /\ active_deletes'[id].client = q
                             /\ active_deletes'[id].file = f
    BY DEF HoldersKnown, HasLock, HasExclusive, HasShared
  <2>1. CASE f = file /\ q = c
    <3>1. file_locks'[f] = m
      BY <2>1 DEF UsersInv, LocksGood
    <3> QED BY <2>1, <3>1 DEF HasOne
  <2>2. CASE f # file \/ q # c
    <3>1. HasLock(file_locks[f], q)
      <4>1. CASE f # file
        BY <4>1 DEF UsersInv, LocksGood
      <4>2. CASE f = file
        <5>1. file_locks'[f] = m
          BY <4>2 DEF UsersInv, LocksGood
        <5> QED BY <2>2, <4>2, <5>1
      <4> QED BY <4>1, <4>2
    <3> QED BY <2>2, <3>1 DEF UsersInv, HoldersKnown, OthersStay
  <2> QED BY <2>1, <2>2
<1> QED BY <1>1, <1>2 DEF UsersInv

\* open_file takes a lock and a descriptor together, or neither.
LEMMA OpenKeepsUsers ==
    ASSUME UsersInv, NEW c \in Procs, NEW path \in Paths, NEW flags,
           open_file(c, path, flags)
    PROVE  UsersInv'
<1> DEFINE GrantedOn(file, size) ==
        /\ OpenGranted(c, file, flags, size)
        /\ UNCHANGED <<request_id, active_reads, active_writes, active_deletes>>
        /\ Files'
<1>1. CASE OpenMissing(c, path, flags) \/ OpenInUse(c, path, flags)
  <2>1. UNCHANGED <<pathname_to_file_id, next_file_id, file_locks, file_cursors,
                    last_fd, request_id, active_reads, active_writes,
                    active_deletes>>
    BY <1>1 DEF open_file, OpenMissing, OpenInUse, fileMeta, fds, requests
  <2> QED BY <2>1, LocksLeftAlone DEF UsersInv, Follows, Numbers
<1>2. ASSUME NEW file \in FileIds, NEW size, GrantedOn(file, size)
      PROVE  UsersInv'
  <2> DEFINE m == OpenLock(file_locks[file], c, flags)
             cur == [client |-> c, file |-> file,
                     offset |-> IF flags.append THEN size ELSE 0]
  <2>1. GoodLock(file_locks[file])
    BY DEF UsersInv, LocksGood
  <2>2. /\ GoodLock(m)
        /\ \A q \in Procs : q # c /\ HasLock(m, q) => HasLock(file_locks[file], q)
    BY <1>2, <2>1, GrantLock DEF OpenGranted, CanOpen, OpenLock
  <2>3. /\ file_locks' = [file_locks EXCEPT ![file] = m]
        /\ Files'
        /\ UNCHANGED <<request_id, active_reads, active_writes, active_deletes>>
    BY <1>2 DEF OpenGranted
  <2>4. file_cursors' = Add(file_cursors, get_new_fd, cur)
    <3> DEFINE blank == [client |-> c, file |-> file, offset |-> 0]
               o == IF flags.append THEN size ELSE 0
    <3>1. file_cursors' = [Add(file_cursors, get_new_fd, blank) EXCEPT
                              ![get_new_fd].offset = o]
      BY <1>2 DEF OpenGranted, new_file_cursor
    <3>2. cur = [blank EXCEPT !.offset = o]
      OBVIOUS
    <3> HIDE DEF blank, cur, o
    <3> QED BY <3>1, <3>2 DEF Add
  <2> HIDE DEF m
  <2>5. Owned(cur)
    BY DEF Owned
  <2>6. AllOwned(file_cursors')
    BY <2>4, <2>5, AddOwned DEF UsersInv
  <2>7. Numbers'
    BY <1>2, <2>3, <2>4 DEF UsersInv, Numbers, OpenGranted, get_new_fd, Add
  <2>8. /\ \A fd \in DOMAIN file_cursors : /\ fd \in DOMAIN file_cursors'
                                         /\ file_cursors'[fd] = file_cursors[fd]
        /\ get_new_fd \in DOMAIN file_cursors'
        /\ file_cursors'[get_new_fd].client = c
        /\ file_cursors'[get_new_fd].file = file
    BY <2>4 DEF UsersInv, Numbers, get_new_fd, Add
  <2> QED BY <2>2, <2>3, <2>6, <2>7, <2>8, LockChanged
          DEF UsersInv, OthersStay, HasOne
<1>3. CASE OpenExisting(c, path, flags)
  <2>1. pathname_to_file_id[path] \in FileIds
    BY <1>3 DEF OpenExisting, UsersInv, Files
  <2>2. GrantedOn(pathname_to_file_id[path],
                  SizeOf(pathname_to_file_id[path]))
    BY <1>3 DEF OpenExisting, open_file, fileMeta, requests, UsersInv, Files
  <2> QED BY <1>2, <2>1, <2>2
<1>4. CASE OpenNew(c, path, flags)
  <2>1. get_new_file_id \in FileIds
    BY <1>4, SizesAssumption
    DEF OpenNew, get_new_file_id, FileIds, UsersInv, Files
  <2>2. Files'
    BY <1>4, <2>1, SizesAssumption
    DEF OpenNew, add_file, get_new_file_id, Add, UsersInv, Files
  <2>3. GrantedOn(get_new_file_id, 0)
    BY <1>4, <2>2 DEF OpenNew, open_file, requests
  <2> QED BY <1>2, <2>1, <2>3
<1> QED BY <1>1, <1>3, <1>4 DEF open_file

\* close_file drops a descriptor and gives back what its client has of the
\* file.
LEMMA CloseKeepsUsers ==
    ASSUME UsersInv, NEW c \in Procs, NEW fd, close_file(c, fd)
    PROVE  UsersInv'
<1>1. UNCHANGED <<pathname_to_file_id, next_file_id, last_fd, request_id,
                  active_reads, active_writes, active_deletes>>
  BY DEF close_file, fileMeta, requests
<1>2. CASE UNCHANGED <<file_cursors, file_locks>>
  BY <1>1, <1>2, LocksLeftAlone DEF UsersInv, Follows, Numbers
<1>3. CASE /\ close_file_cursor(c, fd) > 0
           /\ file_cursors' = Drop(file_cursors, fd)
           /\ file_locks' = Released(file_cursors[fd].file, c)
  <2> DEFINE file == file_cursors[fd].file
             l == file_locks[file]
             m == IF CanRelease(l, c) THEN Release(l, c) ELSE l
  <2>1. fd \in DOMAIN file_cursors /\ file_cursors[fd].client = c
    BY <1>3 DEF close_file_cursor, INSTANCE_NOT_FOUND, WRONG_CLIENT
  <2>2. file \in FileIds
    BY <2>1 DEF UsersInv, AllOwned, Owned
  <2>3. GoodLock(l) /\ file_locks \in [FileIds -> LockRecords]
    BY <2>2 DEF UsersInv, LocksGood
  <2>4. file_locks' = [file_locks EXCEPT ![file] = m]
    BY <1>3, <2>2, <2>3 DEF Released
  <2>5. /\ GoodLock(m) /\ ~HasLock(m, c)
        /\ \A q \in Procs : HasLock(m, q) => HasLock(l, q)
    BY <2>3, ReleaseLock
  <2>6. /\ AllOwned(file_cursors')
        /\ DOMAIN file_cursors' = DOMAIN file_cursors \ {fd}
        /\ \A i \in DOMAIN file_cursors \ {fd} : file_cursors'[i] = file_cursors[i]
    BY <1>3, DropOwned DEF UsersInv, Drop
  <2>7. Numbers' /\ Files'
    BY <1>1, <2>6 DEF UsersInv, Numbers, Files
  <2> HIDE DEF m, l, file
  <2>8. OthersStay(file_cursors, file_cursors', c, file)
    BY <2>1, <2>6 DEF file, OthersStay
  <2>9. \A q \in Procs : q # c /\ HasLock(m, q) => HasLock(file_locks[file], q)
    BY <2>5 DEF l
  <2>10. /\ AllOwned(file_cursors') /\ AllOwned(active_reads')
         /\ AllOwned(active_writes') /\ AllOwned(active_deletes')
    BY <1>1, <2>6 DEF UsersInv
  <2>11. OthersStay(active_deletes, active_deletes', c, file)
    BY <1>1 DEF OthersStay
  <2>12. GoodLock(m) /\ ~HasLock(m, c)
    BY <2>5
  <2> QED BY <2>2, <2>4, <2>7, <2>8, <2>9, <2>10, <2>11, <2>12, LockChanged
<1> QED BY <1>2, <1>3 DEF close_file

\* delete_file locks the file for the request it starts.
LEMMA DeleteKeepsUsers ==
    ASSUME UsersInv, NEW c \in Procs, NEW path \in Paths, delete_file(c, path)
    PROVE  UsersInv'
<1>1. ASSUME UNCHANGED <<pathname_to_file_id, next_file_id, file_locks, last_fd,
                         file_cursors, active_reads, active_writes,
                         active_deletes>>,
             request_id' \in {request_id, get_new_request_id}
      PROVE  UsersInv'
  BY <1>1, LocksLeftAlone
  DEF UsersInv, Follows, Numbers, get_new_request_id
<1>2. CASE DeleteRefused(c, path)
  BY <1>1, <1>2 DEF DeleteRefused, fileMeta, fds, requests
<1>3. CASE Crash
  BY <1>1, <1>3 DEF Crash, fileMeta, fds, requests
<1>4. CASE DeleteSent(c, path) /\ ~Crash
  <2>0. PICK h : DeleteStarted(c, path, h)
    BY <1>4, DeleteSentDoes
  <2> DEFINE file == pathname_to_file_id[path]
             m == GetExclusive(file_locks[file], c)
             d == DeleteRequest(c, path, h)
             id == get_new_request_id
  <2>1. path \in DOMAIN pathname_to_file_id /\ CanGetExclusive(file_locks[file], c)
    BY <2>0 DEF DeleteStarted, DeleteVerdict, Proceed, FILE_NOT_FOUND, FILE_IN_USE
  <2>2. file \in FileIds
    BY <2>1 DEF UsersInv, Files
  <2>3. GoodLock(file_locks[file])
    BY <2>2 DEF UsersInv, LocksGood
  <2>4. /\ GoodLock(m)
        /\ \A q \in Procs : q # c /\ HasLock(m, q) => HasLock(file_locks[file], q)
    BY <2>1, <2>3, GrantLock
  <2>5. Owned(d) /\ d.client = c /\ d.file = file
    BY <2>2 DEF Owned, DeleteRequest
  <2>6. active_deletes' = Add(active_deletes, id, d)
    BY <2>0 DEF DeleteStarted
  <2>7. file_locks' = [file_locks EXCEPT ![file] = m]
    BY <2>0 DEF DeleteStarted
  <2>8. id \in Nat /\ id = request_id + 1 /\ request_id \in Nat
    BY DEF UsersInv, Numbers, get_new_request_id
  <2> HIDE DEF d, m, file, id
  <2>9. AllOwned(active_deletes')
    BY <2>5, <2>6, AddOwned DEF UsersInv
  <2>10. /\ id \in DOMAIN active_deletes' /\ active_deletes'[id] = d
         /\ DOMAIN active_deletes' = DOMAIN active_deletes \cup {id}
         /\ \A i \in DOMAIN active_deletes : active_deletes'[i] = active_deletes[i]
    BY <2>6, <2>8 DEF Add, UsersInv, Numbers
  <2>11. Files' /\ Numbers'
    BY <2>0, <2>8, <2>10 DEF DeleteStarted, UsersInv, Files, Numbers, fileMeta, fds, id
  <2>12. UNCHANGED <<file_cursors, active_reads, active_writes>>
    BY <2>0 DEF DeleteStarted, fds
  <2> QED BY <2>2, <2>4, <2>5, <2>7, <2>9, <2>10, <2>11, <2>12, LockChanged
          DEF UsersInv, OthersStay, HasOne
<1> QED BY <1>2, <1>3, <1>4 DEF delete_file

\* The last answer to a delete forgets the file and gives back its lock, which
\* the client may have been using through a descriptor as well.
LEMMA DeleteResponseKeepsUsers ==
    ASSUME UsersInv, NEW n \in Nodes, delete_response_handler(n)
    PROVE  UsersInv'
<1> DEFINE id == Head(from_node[n]).id
           old == active_deletes[id]
           d == [old EXCEPT !.received = @ + 1]
<1>1. /\ id \in DOMAIN active_deletes
      /\ DeleteComplete(id, d)
      /\ UNCHANGED <<next_file_id, file_cursors, last_fd, request_id,
                     active_reads, active_writes>>
  BY DEF delete_response_handler, fds
<1>2. Owned(old)
  BY <1>1 DEF UsersInv, AllOwned
<1>3. Owned(d) /\ d.client = old.client /\ d.file = old.file
  BY <1>2 DEF Owned
<1> HIDE DEF id, d
<1>4. CASE ~(d.expected # 0 /\ d.expected = d.received)
  <2>1. /\ active_deletes' = Add(active_deletes, id, d)
        /\ UNCHANGED <<pathname_to_file_id, file_locks>>
    BY <1>1, <1>4 DEF DeleteComplete
  <2>2. AllOwned(active_deletes')
    BY <1>3, <2>1, AddOwned DEF UsersInv
  <2>3. Follows(active_deletes, active_deletes') /\ Numbers'
    BY <1>1, <1>3, <2>1 DEF Follows, Add, Numbers, UsersInv
  <2> QED BY <1>1, <2>1, <2>2, <2>3, LocksLeftAlone DEF UsersInv, Follows
<1>5. CASE d.expected # 0 /\ d.expected = d.received
  <2> DEFINE file == d.file
             c == d.client
             l == file_locks[file]
             m == IF CanRelease(l, c) THEN Release(l, c) ELSE l
  <2>1. /\ file_locks' = Released(file, c)
        /\ active_deletes' = Drop(active_deletes, id)
        /\ delete_file_contents(file)
    BY <1>1, <1>5 DEF DeleteComplete
  <2>2. file \in FileIds /\ c \in Procs
    BY <1>3 DEF Owned
  <2>3. GoodLock(l) /\ file_locks \in [FileIds -> LockRecords]
    BY <2>2 DEF UsersInv, LocksGood
  <2>4. file_locks' = [file_locks EXCEPT ![file] = m]
    BY <2>1, <2>2, <2>3 DEF Released
  <2>5. /\ GoodLock(m) /\ ~HasLock(m, c)
        /\ \A q \in Procs : HasLock(m, q) => HasLock(l, q)
    BY <2>2, <2>3, ReleaseLock
  <2>6. AllOwned(active_deletes')
    BY <2>1, DropOwned DEF UsersInv
  <2>7. Files'
    BY <1>1, <2>1 DEF delete_file_contents, UsersInv, Files, Drop
  <2>8. Numbers'
    BY <1>1, <2>1 DEF UsersInv, Numbers, Drop
  <2> HIDE DEF m, l
  <2>9. \A q \in Procs : q # c /\ HasLock(m, q) => HasLock(file_locks[file], q)
    BY <2>5 DEF l
  <2>10. OthersStay(active_deletes, active_deletes', c, file)
    BY <1>1, <1>3, <2>1 DEF OthersStay, Drop
  <2>11. OthersStay(file_cursors, file_cursors', c, file)
    BY <1>1 DEF OthersStay
  <2>12. /\ AllOwned(file_cursors') /\ AllOwned(active_reads')
         /\ AllOwned(active_writes') /\ GoodLock(m) /\ ~HasLock(m, c)
    BY <1>1, <2>5 DEF UsersInv
  <2> HIDE DEF file, c
  <2> QED BY <2>2, <2>4, <2>6, <2>7, <2>8, <2>9, <2>10, <2>11, <2>12, LockChanged
<1> QED BY <1>4, <1>5

\* A descriptor through which its caller has a lock is one of some file.
LEMMA LockedFile ==
    ASSUME UsersInv, NEW c \in Procs, NEW fd, HasLock(LockOf(fd), c)
    PROVE  /\ fd \in DOMAIN file_cursors
           /\ FileOf(fd) \in FileIds
           /\ LockOf(fd) = file_locks[FileOf(fd)]
<1>1. ~HasLock(NoLock, c)
  BY UsersAssumption DEF HasLock, HasExclusive, HasShared, NoLock
<1>2. LockOf(fd) = file_locks[FileOf(fd)] /\ FileOf(fd) # 0
  BY <1>1 DEF LockOf
<1> QED BY <1>2 DEF FileOf, UsersInv, AllOwned, Owned

\* read_file and write_file start a request on a file that has a descriptor.
LEMMA ReadKeepsUsers ==
    ASSUME UsersInv, NEW c \in Procs, NEW fd, NEW count, read_file(c, fd, count)
    PROVE  UsersInv'
<1>1. CASE ReadRefused(c, fd, count)
  <2>1. /\ UNCHANGED <<pathname_to_file_id, next_file_id, file_locks, last_fd,
                       file_cursors, active_reads, active_writes, active_deletes>>
        /\ request_id' = request_id + 1
    BY <1>1 DEF ReadRefused, fileMeta, fds, requests, get_new_request_id
  <2> QED BY <2>1, LocksLeftAlone DEF UsersInv, Follows, Numbers
<1>2. CASE Crash
  BY <1>2, LocksLeftAlone
  DEF Crash, UsersInv, Follows, Numbers, fileMeta, fds, requests
<1>3. CASE ReadSent(c, fd, count) /\ ~Crash
  <2>1. PICK h : ReadStarted(c, fd, count, h)
    BY <1>3, ReadSentDoes
  <2> USE DEF ReadStarted
  <2>2. FileOf(fd) \in FileIds
    BY <2>1, LockedFile DEF ReadVerdict, Proceed, FILE_NOT_OPEN_FOR_READ
  <2>3. Owned(ReadRequest(c, fd, count, h))
    BY <2>2 DEF Owned, ReadRequest
  <2>4. AllOwned(active_reads')
    BY <2>1, <2>3, AddOwned DEF UsersInv
  <2>5. /\ AllOwned(file_cursors')
        /\ DOMAIN file_cursors' = DOMAIN file_cursors
        /\ Follows(file_cursors', file_cursors)
    BY <2>1, SetCursorFollows DEF UsersInv
  <2>6. Numbers'
    BY <2>1, <2>5 DEF UsersInv, Numbers, get_new_request_id, Add
  <2> QED BY <2>1, <2>4, <2>5, <2>6, LocksLeftAlone DEF UsersInv, Follows, fileMeta
<1> QED BY <1>1, <1>2, <1>3 DEF read_file

LEMMA WriteKeepsUsers ==
    ASSUME UsersInv, NEW c \in Procs, NEW fd, NEW count, write_file(c, fd, count)
    PROVE  UsersInv'
<1>1. CASE WriteRefused(c, fd, count)
  <2>1. /\ UNCHANGED <<pathname_to_file_id, next_file_id, file_locks, last_fd,
                       file_cursors, active_reads, active_writes, active_deletes>>
        /\ request_id' = request_id + 2
    BY <1>1 DEF WriteRefused, fileMeta, fds, requests
  <2> QED BY <2>1, LocksLeftAlone DEF UsersInv, Follows, Numbers
<1>2. CASE Crash
  BY <1>2, LocksLeftAlone
  DEF Crash, UsersInv, Follows, Numbers, fileMeta, fds, requests
<1>3. CASE WriteSent(c, fd, count) /\ ~Crash
  <2>1. PICK h : WriteStarted(c, fd, count, h)
    BY <1>3, WriteSentDoes
  <2> USE DEF WriteStarted
  <2>2. fd \in DOMAIN file_cursors /\ FileOf(fd) \in FileIds
    BY <2>1, LockedFile DEF WriteVerdict, Proceed, FILE_NOT_OPEN_FOR_WRITE, HasLock
  <2>3. Owned(WriteRequest(c, fd, count, h))
    BY <2>2 DEF Owned, WriteRequest
  <2>4. AllOwned(active_writes')
    BY <2>1, <2>3, AddOwned DEF UsersInv
  <2>5. /\ AllOwned(file_cursors')
        /\ DOMAIN file_cursors' = DOMAIN file_cursors
        /\ Follows(file_cursors', file_cursors)
    <3>1. CASE file_cursors' = file_cursors
      BY <3>1 DEF UsersInv, Follows
    <3>2. CASE file_cursors' = [file_cursors EXCEPT ![fd].offset = @ + count]
      BY <2>2, <3>2, MovedFollows DEF UsersInv
    <3> QED BY <2>1, <3>1, <3>2
  <2>6. Numbers'
    BY <2>1, <2>5 DEF UsersInv, Numbers, get_new_request_id, Add
  <2> QED BY <2>1, <2>4, <2>5, <2>6, LocksLeftAlone DEF UsersInv, Follows
<1> QED BY <1>1, <1>2, <1>3 DEF write_file

\* file_seek moves a cursor at most.
LEMMA SeekKeepsUsers ==
    ASSUME UsersInv, NEW c \in Procs, NEW fd, NEW whence, NEW offset,
           file_seek(c, fd, whence, offset)
    PROVE  UsersInv'
<1>1. UNCHANGED <<pathname_to_file_id, next_file_id, file_locks, last_fd,
                  request_id, active_reads, active_writes, active_deletes>>
  BY DEF file_seek, fileMeta, requests
<1>2. AllOwned(file_cursors)
  BY DEF UsersInv
<1>3. /\ AllOwned(file_cursors')
      /\ DOMAIN file_cursors' = DOMAIN file_cursors
      /\ Follows(file_cursors', file_cursors)
  <2>1. ASSUME NEW o, file_cursors' \in SetCursor(file_cursors, c, fd, o)
        PROVE  <1>3!1 /\ <1>3!2 /\ <1>3!3
    BY <1>2, <2>1, SetCursorFollows
  <2>2. CASE file_cursors' = file_cursors
    BY <1>2, <2>2 DEF Follows
  <2>3. ASSUME NEW mid \in SetCursor(file_cursors, c, fd, 0),
               IF fd \in DOMAIN mid
               THEN file_cursors' \in
                        SetCursor(mid, c, fd, mid[fd].offset + offset)
               ELSE file_cursors' = mid
        PROVE  <1>3!1 /\ <1>3!2 /\ <1>3!3
    <3>1. AllOwned(mid) /\ DOMAIN mid = DOMAIN file_cursors /\ Follows(mid, file_cursors)
      BY <1>2, SetCursorFollows
    <3>2. CASE file_cursors' = mid
      BY <3>1, <3>2
    <3>3. CASE file_cursors' \in SetCursor(mid, c, fd, mid[fd].offset + offset)
      <4>1. /\ AllOwned(file_cursors') /\ DOMAIN file_cursors' = DOMAIN mid
            /\ Follows(file_cursors', mid)
        BY <3>1, <3>3, SetCursorFollows
      <4> QED BY <3>1, <4>1 DEF Follows
    <3> QED BY <2>3, <3>2, <3>3
  <2> QED BY <2>1, <2>2, <2>3 DEF file_seek
<1>4. Numbers'
  BY <1>1, <1>3 DEF UsersInv, Numbers
<1> QED BY <1>1, <1>3, <1>4, LocksLeftAlone DEF UsersInv, Follows

\* A read's or a write's answer keeps its request or ends it.
LEMMA AnswerKeepsUsers ==
    ASSUME UsersInv, NEW n \in Nodes,
           read_response_handler(n) \/ write_response_handler(n)
    PROVE  UsersInv'
<1>1. UNCHANGED <<pathname_to_file_id, next_file_id, file_locks, last_fd,
                  request_id, file_cursors, active_deletes>>
  BY DEF read_response_handler, write_response_handler, fileMeta, fds
<1> DEFINE m == Head(from_node[n])
<1>2. CASE read_response_handler(n)
  <2> DEFINE r == [active_reads[m.id] EXCEPT !.received = @ + 1,
                                             !.packets = Put(@, m.chunk, m.data)]
  <2>1. m.id \in DOMAIN active_reads /\ ReadComplete(m.id, r)
        /\ UNCHANGED active_writes
    BY <1>2 DEF read_response_handler
  <2>2. Owned(r)
    BY <2>1 DEF UsersInv, AllOwned, Owned
  <2> HIDE DEF r, m
  <2>3. \/ active_reads' = Add(active_reads, m.id, r)
        \/ active_reads' = Drop(active_reads, m.id)
    BY <2>1 DEF ReadComplete
  <2>4. AllOwned(active_reads')
    BY <2>2, <2>3, AddOwned, DropOwned DEF UsersInv
  <2>5. Numbers'
    BY <1>1, <2>1, <2>3 DEF UsersInv, Numbers, Add, Drop
  <2> QED BY <1>1, <2>1, <2>4, <2>5, LocksLeftAlone DEF UsersInv, Follows
<1>3. CASE write_response_handler(n)
  <2> DEFINE Updated(id) == IF m.id = id THEN CountPrimary(id, m)
                            ELSE [active_writes[id] EXCEPT !.replica_received = @ + 1]
  <2>1. PICK id \in DOMAIN active_writes : WriteComplete(id, Updated(id))
    BY <1>3 DEF write_response_handler, WriteLookup
  <2>2. Owned(Updated(id))
    <3>1. Owned(active_writes[id])
      BY <2>1 DEF UsersInv, AllOwned
    <3>2. Owned(CountPrimary(id, m))
      BY <3>1 DEF Owned, CountPrimary
    <3>3. Owned([active_writes[id] EXCEPT !.replica_received = @ + 1])
      BY <3>1 DEF Owned
    <3> QED BY <3>2, <3>3
  <2> HIDE DEF Updated, m
  <2>3. /\ \/ active_writes' = Add(active_writes, id, Updated(id))
           \/ active_writes' = Drop(active_writes, id)
        /\ UNCHANGED active_reads
    BY <1>3, <2>1 DEF WriteComplete, write_response_handler
  <2>4. AllOwned(active_writes')
    BY <2>2, <2>3, AddOwned, DropOwned DEF UsersInv
  <2>5. Numbers'
    BY <1>1, <2>1, <2>3 DEF UsersInv, Numbers, Add, Drop
  <2> QED BY <1>1, <2>3, <2>4, <2>5, LocksLeftAlone DEF UsersInv, Follows
<1> QED BY <1>2, <1>3

\* UsersInv holds at the start, every step keeps it, and so it holds always.
LEMMA InitUsers == Init => UsersInv
<1> SUFFICES ASSUME Init PROVE UsersInv
  OBVIOUS
<1>1. /\ DOMAIN EmptyMap = {}
      /\ file_locks = [f \in FileIds |-> NoLock]
      /\ pathname_to_file_id = EmptyMap /\ next_file_id = 0
      /\ file_cursors = EmptyMap /\ last_fd = 0 /\ request_id = 0
      /\ active_reads = EmptyMap /\ active_writes = EmptyMap
      /\ active_deletes = EmptyMap
  BY DEF Init, EmptyMap
<1>2. LocksGood
  BY <1>1, NoLockGood DEF LocksGood, GoodLock
<1>3. \A c \in Procs : ~HasLock(NoLock, c)
  BY UsersAssumption DEF HasLock, HasExclusive, HasShared, NoLock
<1>4. HoldersKnown
  BY <1>1, <1>3 DEF HoldersKnown
<1> QED BY <1>1, <1>2, <1>4, SizesAssumption
        DEF UsersInv, Files, Numbers, AllOwned

LEMMA NextUsers == UsersInv /\ [Next]_vars => UsersInv'
<1> SUFFICES ASSUME UsersInv, [Next]_vars PROVE UsersInv'
  OBVIOUS
<1>1. ASSUME UNCHANGED <<fileMeta, fds, request_id, file_locks, requests>>
      PROVE  UsersInv'
  BY <1>1, LocksLeftAlone
  DEF UsersInv, Follows, Numbers, fileMeta, fds, requests
<1>2. CASE UNCHANGED vars
  BY <1>1, <1>2 DEF vars
<1>3. ASSUME NEW c \in Procs, ClientCall(c) PROVE UsersInv'
  <2>1. ASSUME NEW path \in StatPaths, file_storage_stat(c, path) PROVE UsersInv'
    BY <1>1, <2>1 DEF file_storage_stat
  <2> QED BY <1>3, <2>1, OpenKeepsUsers, DeleteKeepsUsers, CloseKeepsUsers,
             ReadKeepsUsers, WriteKeepsUsers, SeekKeepsUsers DEF ClientCall
<1>4. ASSUME NEW c \in Procs, ClientEnds(c) PROVE UsersInv'
  BY <1>1, <1>4 DEF ClientEnds
<1>5. ASSUME NEW n \in Nodes, NodeAnswer(n) PROVE UsersInv'
  BY <1>5, AnswerKeepsUsers, DeleteResponseKeepsUsers DEF NodeAnswer
<1>6. ASSUME NEW n \in Nodes,
             Espresso(n) \/ NodeDies(n) \/ NodeGone(n) \/ NodeReturns(n)
      PROVE  UsersInv'
  BY <1>1, <1>6 DEF Espresso, NodeDies, NodeGone, NodeReturns
<1> QED BY <1>2, <1>3, <1>4, <1>5, <1>6 DEF Next

LEMMA UsersInvariance == Spec => []UsersInv
  BY InitUsers, NextUsers, PTL DEF Spec

-------------------------------------------------------------------------------
(* Requests have their files to themselves *)

\* No user has two clients.
OneClientPerUser == \A c, d \in Procs : UserOf[c] = UserOf[d] => c = d

\* The client of every request has a lock on the request's file.
AllHeld(f) == \A i \in DOMAIN f : HasLock(file_locks[f[i].file], f[i].client)

Single(f) == \A i, j \in DOMAIN f : f[i].client = f[j].client => i = j

NoneShared(f, g) == \A i \in DOMAIN f, j \in DOMAIN g : f[i].client # g[j].client

\* A client has one request at a time: when its delete is answered and its lock
\* is released, no other request of its needs the lock.
OneEach == /\ Single(active_reads) /\ Single(active_writes)
           /\ Single(active_deletes)
           /\ NoneShared(active_reads, active_writes)
           /\ NoneShared(active_reads, active_deletes)
           /\ NoneShared(active_writes, active_deletes)

IsolationInv == /\ UsersInv
                /\ AllHeld(active_reads)
                /\ AllHeld(active_writes)
                /\ AllHeld(active_deletes)
                /\ OneEach

\* The locks of everybody but c stay.
OthersKeep(c) ==
    \A q \in Procs, file \in FileIds :
        q # c /\ HasLock(file_locks[file], q) => HasLock(file_locks'[file], q)

\* Two clients with a lock on one file are of the user that owns the record.
LEMMA IsolatedWhenHeld ==
    ASSUME OneClientPerUser, IsolationInv PROVE RequestsIsolated
<1>1. \A a \in UnderWay : a.client \in Procs /\ a.file \in FileIds
                          /\ HasLock(file_locks[a.file], a.client)
  BY DEF UnderWay, IsolationInv, AllHeld, UsersInv, AllOwned, Owned
<1>2. ASSUME NEW a \in UnderWay, NEW b \in UnderWay, a.file = b.file
      PROVE  a.client = b.client
  BY <1>1, <1>2 DEF OneClientPerUser, HasLock, HasExclusive, HasShared
<1> QED BY <1>2 DEF RequestsIsolated

\* Steps that start no request and leave the locks alone.
LEMMA NothingStarts ==
    ASSUME IsolationInv, UsersInv', UNCHANGED file_locks,
           Follows(active_reads', active_reads),
           Follows(active_writes', active_writes),
           Follows(active_deletes', active_deletes)
    PROVE  IsolationInv'
<1>1. AllHeld(active_reads)' /\ AllHeld(active_writes)' /\ AllHeld(active_deletes)'
  BY DEF IsolationInv, AllHeld, Follows
<1>2. OneEach'
  BY DEF IsolationInv, OneEach, Single, NoneShared, Follows
<1> QED BY <1>1, <1>2 DEF IsolationInv

\* Steps of a client without a request that only change its own locks.
LEMMA OwnLockChanges ==
    ASSUME IsolationInv, UsersInv', NEW c \in Procs, ~Waiting(c), OthersKeep(c),
           UNCHANGED <<active_reads, active_writes, active_deletes>>
    PROVE  IsolationInv'
<1>1. ASSUME NEW f, AllOwned(f), AllHeld(f), \A i \in DOMAIN f : f[i].client # c
      PROVE  \A i \in DOMAIN f : HasLock(file_locks'[f[i].file], f[i].client)
  BY <1>1 DEF AllOwned, Owned, AllHeld, OthersKeep
<1>2. AllHeld(active_reads)' /\ AllHeld(active_writes)' /\ AllHeld(active_deletes)'
  BY <1>1 DEF IsolationInv, UsersInv, Waiting, AllHeld
<1>3. OneEach'
  BY DEF IsolationInv, OneEach, Single, NoneShared
<1> QED BY <1>2, <1>3 DEF IsolationInv

\* Steps with which a client without a request starts one on a file it has a
\* lock on.
LEMMA RequestStarts ==
    ASSUME IsolationInv, UsersInv', NEW c \in Procs, ~Waiting(c), OthersKeep(c),
           NEW id, NEW r, r.client = c, HasLock(file_locks'[r.file], c),
           \/ /\ active_reads' = Add(active_reads, id, r)
              /\ UNCHANGED <<active_writes, active_deletes>>
           \/ /\ active_writes' = Add(active_writes, id, r)
              /\ UNCHANGED <<active_reads, active_deletes>>
           \/ /\ active_deletes' = Add(active_deletes, id, r)
              /\ UNCHANGED <<active_reads, active_writes>>
    PROVE  IsolationInv'
<1>1. ASSUME NEW f, AllOwned(f), AllHeld(f), \A i \in DOMAIN f : f[i].client # c
      PROVE  \A i \in DOMAIN f : HasLock(file_locks'[f[i].file], f[i].client)
  BY <1>1 DEF AllOwned, Owned, AllHeld, OthersKeep
<1>2. /\ \A i \in DOMAIN active_reads : active_reads[i].client # c
      /\ \A i \in DOMAIN active_writes : active_writes[i].client # c
      /\ \A i \in DOMAIN active_deletes : active_deletes[i].client # c
  BY DEF Waiting
<1>3. /\ \A i \in DOMAIN active_reads :
            HasLock(file_locks'[active_reads[i].file], active_reads[i].client)
      /\ \A i \in DOMAIN active_writes :
            HasLock(file_locks'[active_writes[i].file], active_writes[i].client)
      /\ \A i \in DOMAIN active_deletes :
            HasLock(file_locks'[active_deletes[i].file], active_deletes[i].client)
  BY <1>1, <1>2 DEF IsolationInv, UsersInv
<1>4. CASE /\ active_reads' = Add(active_reads, id, r)
           /\ UNCHANGED <<active_writes, active_deletes>>
  <2>1. AllHeld(active_reads)' /\ AllHeld(active_writes)' /\ AllHeld(active_deletes)'
    BY <1>3, <1>4 DEF AllHeld, Add
  <2>2. OneEach'
    BY <1>2, <1>4 DEF IsolationInv, OneEach, Single, NoneShared, Add
  <2> QED BY <2>1, <2>2 DEF IsolationInv
<1>5. CASE /\ active_writes' = Add(active_writes, id, r)
           /\ UNCHANGED <<active_reads, active_deletes>>
  <2>1. AllHeld(active_reads)' /\ AllHeld(active_writes)' /\ AllHeld(active_deletes)'
    BY <1>3, <1>5 DEF AllHeld, Add
  <2>2. OneEach'
    BY <1>2, <1>5 DEF IsolationInv, OneEach, Single, NoneShared, Add
  <2> QED BY <2>1, <2>2 DEF IsolationInv
<1>6. CASE /\ active_deletes' = Add(active_deletes, id, r)
           /\ UNCHANGED <<active_reads, active_writes>>
  <2>1. AllHeld(active_reads)' /\ AllHeld(active_writes)' /\ AllHeld(active_deletes)'
    BY <1>3, <1>6 DEF AllHeld, Add
  <2>2. OneEach'
    BY <1>2, <1>6 DEF IsolationInv, OneEach, Single, NoneShared, Add
  <2> QED BY <2>1, <2>2 DEF IsolationInv
<1> QED BY <1>4, <1>5, <1>6

\* One lock is replaced by one that takes nothing from the others.
LEMMA OneLockChanges ==
    ASSUME UsersInv, NEW c \in Procs, NEW file \in FileIds, NEW m,
           file_locks' = [file_locks EXCEPT ![file] = m],
           \A q \in Procs : q # c /\ HasLock(file_locks[file], q) => HasLock(m, q)
    PROVE  OthersKeep(c) /\ file_locks'[file] = m
<1>1. /\ file_locks'[file] = m
      /\ \A f \in FileIds : f # file => file_locks'[f] = file_locks[f]
  BY DEF UsersInv, LocksGood
<1> QED BY <1>1 DEF OthersKeep

\* A lock is given to one who may have it beside the others' locks.
LEMMA OpenKeepsIsolation ==
    ASSUME IsolationInv, UsersInv', NEW c \in Procs, ~Waiting(c),
           NEW path \in Paths, NEW flags, open_file(c, path, flags)
    PROVE  IsolationInv'
<1>1. UNCHANGED <<active_reads, active_writes, active_deletes>>
  BY DEF open_file, requests
<1>2. CASE UNCHANGED file_locks
  BY <1>1, <1>2, NothingStarts DEF Follows
<1>3. ASSUME NEW file \in FileIds, NEW size, OpenGranted(c, file, flags, size)
      PROVE  IsolationInv'
  <2> DEFINE m == OpenLock(file_locks[file], c, flags)
  <2>1. GoodLock(file_locks[file])
    BY DEF IsolationInv, UsersInv, LocksGood
  <2>2. \A q \in Procs : HasLock(file_locks[file], q) => HasLock(m, q)
    BY <1>3, <2>1, GrantLock DEF OpenGranted, CanOpen, OpenLock
  <2>3. file_locks' = [file_locks EXCEPT ![file] = m]
    BY <1>3 DEF OpenGranted
  <2> HIDE DEF m
  <2>4. OthersKeep(c)
    BY <2>2, <2>3, OneLockChanges DEF IsolationInv
  <2> QED BY <1>1, <2>4, OwnLockChanges
<1>4. CASE OpenExisting(c, path, flags)
  <2>1. pathname_to_file_id[path] \in FileIds
    BY <1>4 DEF OpenExisting, IsolationInv, UsersInv, Files
  <2> QED BY <1>3, <1>4, <2>1 DEF OpenExisting
<1>5. CASE OpenNew(c, path, flags)
  <2>1. get_new_file_id \in FileIds
    BY <1>5, SizesAssumption
    DEF OpenNew, get_new_file_id, FileIds, IsolationInv, UsersInv, Files
  <2> QED BY <1>3, <1>5, <2>1 DEF OpenNew
<1> QED BY <1>2, <1>4, <1>5 DEF open_file, OpenMissing, OpenInUse

\* What a release does to the others: nothing, if none of them is of the user.
LEMMA ReleaseKeepsOthers ==
    ASSUME OneClientPerUser, UsersInv, NEW c \in Procs, NEW file \in FileIds,
           file_locks' = Released(file, c)
    PROVE  OthersKeep(c)
<1> DEFINE l == file_locks[file]
           m == IF CanRelease(l, c) THEN Release(l, c) ELSE l
<1>1. GoodLock(l) /\ file_locks \in [FileIds -> LockRecords]
  BY DEF UsersInv, LocksGood
<1>2. file_locks' = [file_locks EXCEPT ![file] = m]
  BY <1>1 DEF Released
<1>3. \A q \in Procs : HasLock(l, q) /\ UserOf[q] # UserOf[c] => m = l
  BY <1>1, ReleaseLock
<1> HIDE DEF m
<1>4. \A q \in Procs : q # c /\ HasLock(l, q) => HasLock(m, q)
  BY <1>3 DEF OneClientPerUser
<1> QED BY <1>2, <1>4, OneLockChanges

\* A client in a call has no request that needs the lock it gives back.
LEMMA CloseKeepsIsolation ==
    ASSUME OneClientPerUser, IsolationInv, UsersInv', NEW c \in Procs,
           ~Waiting(c), NEW fd, close_file(c, fd)
    PROVE  IsolationInv'
<1>1. UNCHANGED <<active_reads, active_writes, active_deletes>>
  BY DEF close_file, requests
<1>2. CASE UNCHANGED file_locks
  BY <1>1, <1>2, NothingStarts DEF Follows
<1>3. CASE /\ close_file_cursor(c, fd) > 0
           /\ file_locks' = Released(file_cursors[fd].file, c)
  <2>1. fd \in DOMAIN file_cursors
    BY <1>3 DEF close_file_cursor, INSTANCE_NOT_FOUND
  <2>2. file_cursors[fd].file \in FileIds
    BY <2>1 DEF IsolationInv, UsersInv, AllOwned, Owned
  <2>3. OthersKeep(c)
    BY <1>3, <2>2, ReleaseKeepsOthers DEF IsolationInv
  <2> QED BY <1>1, <2>3, OwnLockChanges
<1> QED BY <1>2, <1>3 DEF close_file

\* A read or write starts only with the lock of its file.
LEMMA ReadKeepsIsolation ==
    ASSUME IsolationInv, UsersInv', NEW c \in Procs, ~Waiting(c), NEW fd,
           NEW count, read_file(c, fd, count)
    PROVE  IsolationInv'
<1>1. CASE UNCHANGED <<file_locks, active_reads, active_writes, active_deletes>>
  BY <1>1, NothingStarts DEF Follows
<1>2. CASE ReadRefused(c, fd, count)
  BY <1>1, <1>2 DEF ReadRefused, requests
<1>3. CASE Crash
  BY <1>1, <1>3 DEF Crash, requests
<1>4. CASE ReadSent(c, fd, count) /\ ~Crash
  <2>1. PICK h : ReadStarted(c, fd, count, h)
    BY <1>4, ReadSentDoes
  <2> DEFINE r == ReadRequest(c, fd, count, h)
  <2>0. r.client = c /\ r.file = FileOf(fd)
    BY DEF ReadRequest
  <2> USE DEF ReadStarted
  <2> HIDE DEF r
  <2>2. HasLock(LockOf(fd), c)
    BY <2>1 DEF ReadVerdict, Proceed, FILE_NOT_OPEN_FOR_READ
  <2>3. LockOf(fd) = file_locks[r.file]
    BY <2>0, <2>2, LockedFile DEF IsolationInv
  <2>4. OthersKeep(c) /\ HasLock(file_locks'[r.file], c)
    BY <2>1, <2>2, <2>3 DEF OthersKeep
  <2> QED BY <2>0, <2>1, <2>4, RequestStarts DEF r
<1> QED BY <1>2, <1>3, <1>4 DEF read_file

LEMMA WriteKeepsIsolation ==
    ASSUME IsolationInv, UsersInv', NEW c \in Procs, ~Waiting(c), NEW fd,
           NEW count, write_file(c, fd, count)
    PROVE  IsolationInv'
<1>1. CASE UNCHANGED <<file_locks, active_reads, active_writes, active_deletes>>
  BY <1>1, NothingStarts DEF Follows
<1>2. CASE WriteRefused(c, fd, count)
  BY <1>1, <1>2 DEF WriteRefused, requests
<1>3. CASE Crash
  BY <1>1, <1>3 DEF Crash, requests
<1>4. CASE WriteSent(c, fd, count) /\ ~Crash
  <2>1. PICK h : WriteStarted(c, fd, count, h)
    BY <1>4, WriteSentDoes
  <2> DEFINE r == WriteRequest(c, fd, count, h)
  <2>0. r.client = c /\ r.file = FileOf(fd)
    BY DEF WriteRequest
  <2> USE DEF WriteStarted
  <2> HIDE DEF r
  <2>2. HasLock(LockOf(fd), c)
    BY <2>1 DEF WriteVerdict, Proceed, FILE_NOT_OPEN_FOR_WRITE, HasLock
  <2>3. LockOf(fd) = file_locks[r.file]
    BY <2>0, <2>2, LockedFile DEF IsolationInv
  <2>4. OthersKeep(c) /\ HasLock(file_locks'[r.file], c)
    BY <2>1, <2>2, <2>3 DEF OthersKeep
  <2> QED BY <2>0, <2>1, <2>4, RequestStarts DEF r
<1> QED BY <1>2, <1>3, <1>4 DEF write_file

\* A delete takes the lock of its file and keeps it.
LEMMA DeleteKeepsIsolation ==
    ASSUME IsolationInv, UsersInv', NEW c \in Procs, ~Waiting(c),
           NEW path \in Paths, delete_file(c, path)
    PROVE  IsolationInv'
<1>1. CASE UNCHANGED <<file_locks, active_reads, active_writes, active_deletes>>
  BY <1>1, NothingStarts DEF Follows
<1>2. CASE DeleteRefused(c, path)
  BY <1>1, <1>2 DEF DeleteRefused, requests
<1>3. CASE Crash
  BY <1>1, <1>3 DEF Crash, requests
<1>4. CASE DeleteSent(c, path) /\ ~Crash
  <2> DEFINE file == pathname_to_file_id[path]
             m == GetExclusive(file_locks[file], c)
  <2>1. PICK h : DeleteStarted(c, path, h)
    BY <1>4, DeleteSentDoes
  <2> DEFINE r == DeleteRequest(c, path, h)
  <2>0. /\ r.client = c /\ r.file = file
        /\ file_locks' = [file_locks EXCEPT ![file] = m]
        /\ active_deletes' = Add(active_deletes, get_new_request_id, r)
        /\ UNCHANGED <<active_reads, active_writes>>
    BY <2>1 DEF DeleteRequest, DeleteStarted
  <2> USE DEF DeleteStarted
  <2> HIDE DEF r
  <2>2. path \in DOMAIN pathname_to_file_id /\ CanGetExclusive(file_locks[file], c)
    BY <2>1 DEF DeleteVerdict, Proceed, FILE_NOT_FOUND, FILE_IN_USE
  <2>3. file \in FileIds
    BY <2>2 DEF IsolationInv, UsersInv, Files
  <2>4. GoodLock(file_locks[file])
    BY <2>3 DEF IsolationInv, UsersInv, LocksGood
  <2>5. HasLock(m, c) /\ \A q \in Procs : HasLock(file_locks[file], q) => HasLock(m, q)
    BY <2>2, <2>4, GrantLock
  <2> HIDE DEF m, file
  <2>6. OthersKeep(c) /\ HasLock(file_locks'[r.file], c)
    BY <2>0, <2>3, <2>5, OneLockChanges DEF IsolationInv
  <2> QED BY <2>0, <2>6, RequestStarts
<1> QED BY <1>2, <1>3, <1>4 DEF delete_file

\* The last answer to a delete releases the lock of its own request.
LEMMA DeleteResponseKeepsIsolation ==
    ASSUME OneClientPerUser, IsolationInv, UsersInv', NEW n \in Nodes,
           delete_response_handler(n)
    PROVE  IsolationInv'
<1> DEFINE id == Head(from_node[n]).id
           old == active_deletes[id]
           d == [old EXCEPT !.received = @ + 1]
<1>1. /\ id \in DOMAIN active_deletes
      /\ DeleteComplete(id, d)
      /\ UNCHANGED <<active_reads, active_writes>>
  BY DEF delete_response_handler
<1>2. Owned(old)
  BY <1>1 DEF IsolationInv, UsersInv, AllOwned
<1>3. Owned(d) /\ d.client = old.client /\ d.file = old.file
  BY <1>2 DEF Owned
<1> HIDE DEF id, d
<1>4. CASE ~(d.expected # 0 /\ d.expected = d.received)
  <2>1. active_deletes' = Add(active_deletes, id, d) /\ UNCHANGED file_locks
    BY <1>1, <1>4 DEF DeleteComplete
  <2>2. Follows(active_deletes', active_deletes)
    BY <1>1, <1>3, <2>1 DEF Follows, Add
  <2> QED BY <1>1, <2>1, <2>2, NothingStarts DEF Follows
<1>5. CASE d.expected # 0 /\ d.expected = d.received
  <2>1. file_locks' = Released(d.file, d.client)
        /\ active_deletes' = Drop(active_deletes, id)
    BY <1>1, <1>5 DEF DeleteComplete
  <2>2. d.file \in FileIds /\ d.client \in Procs
    BY <1>3 DEF Owned
  <2>3. OthersKeep(d.client)
    BY <2>1, <2>2, ReleaseKeepsOthers DEF IsolationInv
  <2>4. /\ \A i \in DOMAIN active_reads : active_reads[i].client # d.client
        /\ \A i \in DOMAIN active_writes : active_writes[i].client # d.client
        /\ \A i \in DOMAIN active_deletes \ {id} :
              active_deletes[i].client # d.client
    BY <1>1, <1>3 DEF IsolationInv, OneEach, Single, NoneShared
  <2>5. ASSUME NEW f, NEW x, AllOwned(f), AllHeld(f),
               \A i \in DOMAIN f \ {x} : f[i].client # d.client
        PROVE  \A i \in DOMAIN f \ {x} :
                  HasLock(file_locks'[f[i].file], f[i].client)
    BY <2>3, <2>5 DEF AllOwned, Owned, AllHeld, OthersKeep
  <2>6. AllHeld(active_deletes)'
    BY <2>1, <2>4, <2>5 DEF IsolationInv, UsersInv, AllHeld, Drop
  <2>7. ASSUME NEW f, AllOwned(f), AllHeld(f),
               \A i \in DOMAIN f : f[i].client # d.client
        PROVE  \A i \in DOMAIN f : HasLock(file_locks'[f[i].file], f[i].client)
    BY <2>3, <2>7 DEF AllOwned, Owned, AllHeld, OthersKeep
  <2>8. AllHeld(active_reads)' /\ AllHeld(active_writes)'
    BY <1>1, <2>4, <2>7 DEF IsolationInv, UsersInv, AllHeld
  <2>9. OneEach'
    BY <1>1, <2>1 DEF IsolationInv, OneEach, Single, NoneShared, Drop
  <2> QED BY <2>6, <2>8, <2>9 DEF IsolationInv
<1> QED BY <1>4, <1>5

\* Answers to reads and writes leave the locks alone.
LEMMA AnswerKeepsIsolation ==
    ASSUME IsolationInv, UsersInv', NEW n \in Nodes,
           read_response_handler(n) \/ write_response_handler(n)
    PROVE  IsolationInv'
<1> DEFINE m == Head(from_node[n])
<1>1. UNCHANGED <<file_locks, active_deletes>>
  BY DEF read_response_handler, write_response_handler
<1>2. CASE read_response_handler(n)
  <2> DEFINE r == [active_reads[m.id] EXCEPT !.received = @ + 1,
                                             !.packets = Put(@, m.chunk, m.data)]
  <2>1. m.id \in DOMAIN active_reads /\ ReadComplete(m.id, r)
        /\ UNCHANGED active_writes
    BY <1>2 DEF read_response_handler
  <2>2. r.client = active_reads[m.id].client /\ r.file = active_reads[m.id].file
    BY <2>1 DEF IsolationInv, UsersInv, AllOwned, Owned
  <2> HIDE DEF r, m
  <2>3. Follows(active_reads', active_reads)
    BY <2>1, <2>2 DEF ReadComplete, Follows, Add, Drop
  <2> QED BY <1>1, <2>1, <2>3, NothingStarts DEF Follows
<1>3. CASE write_response_handler(n)
  <2> DEFINE Updated(id) == IF m.id = id THEN CountPrimary(id, m)
                            ELSE [active_writes[id] EXCEPT !.replica_received = @ + 1]
  <2>1. PICK id \in DOMAIN active_writes : WriteComplete(id, Updated(id))
    BY <1>3 DEF write_response_handler, WriteLookup
  <2>2. /\ Updated(id).client = active_writes[id].client
        /\ Updated(id).file = active_writes[id].file
    <3>1. Owned(active_writes[id])
      BY <2>1 DEF IsolationInv, UsersInv, AllOwned
    <3>2. CASE m.id = id
      BY <3>1, <3>2 DEF Owned, CountPrimary
    <3>3. CASE m.id # id
      BY <3>1, <3>3 DEF Owned
    <3> QED BY <3>2, <3>3
  <2> HIDE DEF Updated, m
  <2>3. Follows(active_writes', active_writes) /\ UNCHANGED active_reads
    BY <1>3, <2>1, <2>2
    DEF WriteComplete, write_response_handler, Follows, Add, Drop
  <2> QED BY <1>1, <2>3, NothingStarts DEF Follows
<1> QED BY <1>2, <1>3

\* Every step keeps IsolationInv.
LEMMA NextIsolation ==
    ASSUME OneClientPerUser
    PROVE  IsolationInv /\ [Next]_vars => IsolationInv'
<1> SUFFICES ASSUME IsolationInv, [Next]_vars PROVE IsolationInv'
  OBVIOUS
<1>1. UsersInv'
  BY NextUsers DEF IsolationInv
<1>2. ASSUME UNCHANGED <<file_locks, requests>> PROVE IsolationInv'
  BY <1>1, <1>2, NothingStarts DEF Follows, requests
<1>3. CASE UNCHANGED vars
  BY <1>2, <1>3 DEF vars
<1>4. ASSUME NEW c \in Procs, ClientCall(c) PROVE IsolationInv'
  <2>1. ASSUME NEW path \in StatPaths, file_storage_stat(c, path)
        PROVE  IsolationInv'
    BY <1>2, <2>1 DEF file_storage_stat
  <2>2. ASSUME NEW fd, NEW whence, NEW offset, file_seek(c, fd, whence, offset)
        PROVE  IsolationInv'
    BY <1>2, <2>2 DEF file_seek
  <2> QED BY <1>1, <1>4, <2>1, <2>2, OpenKeepsIsolation, DeleteKeepsIsolation,
             CloseKeepsIsolation, ReadKeepsIsolation, WriteKeepsIsolation
          DEF ClientCall
<1>5. ASSUME NEW c \in Procs, ClientEnds(c) PROVE IsolationInv'
  BY <1>2, <1>5 DEF ClientEnds
<1>6. ASSUME NEW n \in Nodes, NodeAnswer(n) PROVE IsolationInv'
  BY <1>1, <1>6, AnswerKeepsIsolation, DeleteResponseKeepsIsolation
  DEF NodeAnswer
<1>7. ASSUME NEW n \in Nodes,
             Espresso(n) \/ NodeDies(n) \/ NodeGone(n) \/ NodeReturns(n)
      PROVE  IsolationInv'
  BY <1>2, <1>7 DEF Espresso, NodeDies, NodeGone, NodeReturns
<1> QED BY <1>3, <1>4, <1>5, <1>6, <1>7 DEF Next

\* The invariant under RequestsIsolated holds of every behaviour.
LEMMA IsolationInvariance ==
    ASSUME OneClientPerUser PROVE Spec => []IsolationInv
<1>1. Init => IsolationInv
  <2> SUFFICES ASSUME Init PROVE IsolationInv
    OBVIOUS
  <2>1. UsersInv
    BY InitUsers
  <2>2. DOMAIN active_reads = {} /\ DOMAIN active_writes = {}
        /\ DOMAIN active_deletes = {}
    BY DEF Init, EmptyMap
  <2> QED BY <2>1, <2>2 DEF IsolationInv, AllHeld, OneEach, Single, NoneShared
<1>2. IsolationInv /\ [Next]_vars => IsolationInv'
  BY NextIsolation
<1> QED BY <1>1, <1>2, PTL DEF Spec

\* While no user has two clients, the requests under way on a file are all of
\* one client, from the handler that checked the lock to the last answer.
THEOREM RequestsHaveTheirFiles ==
    ASSUME OneClientPerUser PROVE Spec => []RequestsIsolated
<1>1. IsolationInv => RequestsIsolated
  BY IsolatedWhenHeld
<1>2. Spec => []IsolationInv
  BY IsolationInvariance
<1> QED BY <1>1, <1>2, PTL

-------------------------------------------------------------------------------
(* Messages on the connections *)

\* A sequence, of whatever elements.
Listed(q) == \E S : q \in Seq(S)

\* What Append and Tail do, for sequences of whatever elements.
LEMMA AppendListed ==
    ASSUME NEW q, Listed(q), NEW m
    PROVE  /\ Listed(Append(q, m))
           /\ Len(q) \in Nat /\ DOMAIN q = 1 .. Len(q)
           /\ DOMAIN Append(q, m) = 1 .. Len(q) + 1
           /\ Append(q, m)[Len(q) + 1] = m
           /\ \A i \in DOMAIN q : Append(q, m)[i] = q[i]
<1>1. PICK S : q \in Seq(S)
  BY DEF Listed
<1> DEFINE T == S \cup {m}
<1>2. q \in Seq(T) /\ m \in T
  BY <1>1
<1> HIDE DEF T
<1>3. Append(q, m) \in Seq(T)
  BY <1>2
<1> QED BY <1>2, <1>3 DEF Listed

LEMMA TailListed ==
    ASSUME NEW q, Listed(q), q # <<>>
    PROVE  /\ Listed(Tail(q))
           /\ Len(q) \in Nat \ {0} /\ DOMAIN q = 1 .. Len(q)
           /\ DOMAIN Tail(q) = 1 .. Len(q) - 1
           /\ Head(q) = q[1]
           /\ \A i \in DOMAIN Tail(q) : Tail(q)[i] = q[i + 1]
<1>1. PICK S : q \in Seq(S)
  BY DEF Listed
<1>2. Tail(q) \in Seq(S)
  BY <1>1
<1> QED BY <1>1, <1>2 DEF Listed

\* A connection has finitely many messages of a request, none when it says 0.
LEMMA CountNat ==
    ASSUME NEW q, Listed(q), NEW id
    PROVE  /\ IsFiniteSet({i \in DOMAIN q : q[i].id = id})
           /\ Count(q, id) \in Nat
           /\ Count(q, id) = 0 <=> \A i \in DOMAIN q : q[i].id # id
<1> DEFINE T == {i \in DOMAIN q : q[i].id = id}
<1>1. PICK n \in Nat : DOMAIN q = 1 .. n
  BY DEF Listed
<1>2. IsFiniteSet(DOMAIN q) /\ T \subseteq DOMAIN q
  BY <1>1, FS_Interval
<1>3. IsFiniteSet(T)
  BY <1>2, FS_Subset
<1>4. Cardinality(T) \in Nat /\ (Cardinality(T) = 0 <=> T = {})
  BY <1>3, FS_CardinalityType, FS_EmptySet
<1>5. T = {} <=> \A i \in DOMAIN q : q[i].id # id
  OBVIOUS
<1> QED BY <1>3, <1>4, <1>5 DEF Count

\* 1 if m is a message of request id.
Of(m, id) == IF m.id = id THEN 1 ELSE 0

\* A message that is put on a connection, or taken off, counts once.
LEMMA CountAppend ==
    ASSUME NEW q, Listed(q), NEW m, NEW id
    PROVE  Count(Append(q, m), id) = Count(q, id) + Of(m, id)
<1> DEFINE T == {i \in DOMAIN q : q[i].id = id}
           U == {i \in DOMAIN Append(q, m) : Append(q, m)[i].id = id}
           n == Len(q)
<1>1. /\ n \in Nat /\ DOMAIN q = 1 .. n /\ DOMAIN Append(q, m) = 1 .. n + 1
      /\ Append(q, m)[n + 1] = m
      /\ \A i \in DOMAIN q : Append(q, m)[i] = q[i]
  BY AppendListed
<1> HIDE DEF n
<1>2. IsFiniteSet(T) /\ n + 1 \notin T /\ Cardinality(T) \in Nat
  <2>1. n + 1 \notin DOMAIN q
    BY <1>1
  <2> QED BY <2>1, CountNat DEF Count
<1>3. U = IF m.id = id THEN T \cup {n + 1} ELSE T
  <2>1. DOMAIN Append(q, m) = DOMAIN q \cup {n + 1}
    BY <1>1
  <2> QED BY <1>1, <2>1
<1> HIDE DEF T, U
<1>4. Cardinality(U) = Cardinality(T) + Of(m, id)
  <2>1. CASE m.id = id
    BY <1>2, <1>3, <2>1, FS_AddElement DEF Of
  <2>2. CASE m.id # id
    BY <1>2, <1>3, <2>2 DEF Of
  <2> QED BY <2>1, <2>2
<1> QED BY <1>4 DEF T, U, Count

LEMMA CountTail ==
    ASSUME NEW q, Listed(q), q # <<>>, NEW id
    PROVE  Count(q, id) = Count(Tail(q), id) + Of(Head(q), id)
<1> DEFINE T == {i \in DOMAIN q : q[i].id = id}
           U == {i \in DOMAIN Tail(q) : Tail(q)[i].id = id}
           V == T \ {1}
           f == [i \in U |-> i + 1]
           n == Len(q)
<1>1. /\ n \in Nat \ {0} /\ DOMAIN q = 1 .. n /\ DOMAIN Tail(q) = 1 .. n - 1
      /\ Head(q) = q[1] /\ Listed(Tail(q))
      /\ \A i \in DOMAIN Tail(q) : Tail(q)[i] = q[i + 1]
  BY TailListed
<1> HIDE DEF n
<1>2. IsFiniteSet(T) /\ IsFiniteSet(U) /\ Cardinality(T) \in Nat
  BY <1>1, CountNat DEF Count
<1>3. f \in Bijection(U, V)
  <2>1. \A i \in U : i + 1 \in V
    <3> TAKE i \in U
    <3>1. i \in 1 .. n - 1 /\ Tail(q)[i] = q[i + 1] /\ Tail(q)[i].id = id
      BY <1>1
    <3>2. i + 1 \in 1 .. n /\ i + 1 # 1
      BY <1>1, <3>1
    <3> QED BY <1>1, <3>1, <3>2
  <2>2. \A j \in V : \E i \in U : i + 1 = j
    <3> TAKE j \in V
    <3>1. j \in 1 .. n /\ j # 1 /\ q[j].id = id
      BY <1>1
    <3>2. j - 1 \in 1 .. n - 1 /\ (j - 1) + 1 = j
      BY <1>1, <3>1
    <3>3. j - 1 \in U
      BY <1>1, <3>1, <3>2
    <3> QED BY <3>2, <3>3
  <2>3. U \subseteq Int
    BY <1>1
  <2> HIDE DEF U, V
  <2>4. f \in Injection(U, V)
    BY <2>1, <2>3 DEF Injection, IsInjective
  <2>5. f \in Surjection(U, V)
    BY <2>1, <2>2 DEF Surjection
  <2> QED BY <2>4, <2>5 DEF Bijection
<1>4. Cardinality(U) = Cardinality(V)
  <2>1. IsFiniteSet(V)
    BY <1>2, FS_Subset
  <2>2. f \in Injection(U, V) /\ f \in Surjection(U, V)
    BY <1>3 DEF Bijection
  <2> HIDE DEF U, V, f
  <2> QED BY <2>1, <2>2, FS_Injection
<1>5. Cardinality(T) = Cardinality(V) + Of(Head(q), id)
  <2>1. 1 \in T <=> q[1].id = id
    BY <1>1
  <2>2. Of(Head(q), id) = IF 1 \in T THEN 1 ELSE 0
    BY <1>1, <2>1 DEF Of
  <2> HIDE DEF T
  <2>3. CASE 1 \in T
    <3>1. Cardinality(V) = Cardinality(T) - 1
      BY <1>2, <2>3, FS_RemoveElement
    <3> HIDE DEF V
    <3> QED BY <1>2, <2>2, <2>3, <3>1
  <2>4. CASE 1 \notin T
    <3>1. V = T
      BY <2>4
    <3> HIDE DEF V
    <3> QED BY <1>2, <2>2, <2>4, <3>1
  <2> QED BY <2>3, <2>4
<1> QED BY <1>4, <1>5 DEF Count

\* The four connections, one way.
Wires(w) == DOMAIN w = Nodes /\ \A n \in Nodes : Listed(w[n])

\* The same for the four connections.
LEMMA TotalNat ==
    ASSUME NEW w, Wires(w), NEW id
    PROVE  /\ Total(w, id) \in Nat
           /\ Total(w, id) = 0 <=> \A n \in Nodes : \A i \in DOMAIN w[n] : w[n][i].id # id
<1>1. \A n \in Nodes : Count(w[n], id) \in Nat
        /\ (Count(w[n], id) = 0 <=> \A i \in DOMAIN w[n] : w[n][i].id # id)
  BY CountNat DEF Wires
<1>2. Nodes = {1, 2, 3, 4}
  BY DEF Nodes, Primaries, Replicas
<1>3. /\ Count(w[1], id) \in Nat /\ Count(w[2], id) \in Nat
      /\ Count(w[3], id) \in Nat /\ Count(w[4], id) \in Nat
  BY <1>1, <1>2
<1>4. Total(w, id) = 0 <=> \A n \in Nodes : Count(w[n], id) = 0
  BY <1>2, <1>3 DEF Total
<1> QED BY <1>1, <1>3, <1>4 DEF Total

\* A change of one connection changes the total by as much.
LEMMA TotalChange ==
    ASSUME NEW w, Wires(w), NEW n \in Nodes, NEW q, Listed(q), NEW id
    PROVE  /\ Wires([w EXCEPT ![n] = q])
           /\ Total([w EXCEPT ![n] = q], id)
                = Total(w, id) + Count(q, id) - Count(w[n], id)
<1> DEFINE v == [w EXCEPT ![n] = q]
<1>1. Nodes = {1, 2, 3, 4}
  BY DEF Nodes, Primaries, Replicas
<1>2. \A k \in Nodes : v[k] = IF k = n THEN q ELSE w[k]
  BY DEF Wires
<1>3. DOMAIN v = Nodes
  BY DEF Wires
<1> HIDE DEF v
<1>4. /\ Count(w[1], id) \in Nat /\ Count(w[2], id) \in Nat
      /\ Count(w[3], id) \in Nat /\ Count(w[4], id) \in Nat /\ Count(q, id) \in Nat
  BY <1>1, CountNat DEF Wires
<1>5. Total(v, id) = Total(w, id) + Count(q, id) - Count(w[n], id)
  <2>1. CASE n = 1
    <3>1. v[1] = q /\ v[2] = w[2] /\ v[3] = w[3] /\ v[4] = w[4]
      BY <1>1, <1>2, <2>1
    <3> QED BY <1>4, <2>1, <3>1 DEF Total
  <2>2. CASE n = 2
    <3>1. v[1] = w[1] /\ v[2] = q /\ v[3] = w[3] /\ v[4] = w[4]
      BY <1>1, <1>2, <2>2
    <3> QED BY <1>4, <2>2, <3>1 DEF Total
  <2>3. CASE n = 3
    <3>1. v[1] = w[1] /\ v[2] = w[2] /\ v[3] = q /\ v[4] = w[4]
      BY <1>1, <1>2, <2>3
    <3> QED BY <1>4, <2>3, <3>1 DEF Total
  <2>4. CASE n = 4
    <3>1. v[1] = w[1] /\ v[2] = w[2] /\ v[3] = w[3] /\ v[4] = q
      BY <1>1, <1>2, <2>4
    <3> QED BY <1>4, <2>4, <3>1 DEF Total
  <2> QED BY <1>1, <2>1, <2>2, <2>3, <2>4
<1> QED BY <1>2, <1>3, <1>5 DEF Wires, v

-------------------------------------------------------------------------------
(* Sending *)

Fields == {"up", "c2n", "c2r", "out", "fate", "chunks", "replicas", "broken",
           "failed", "ok"}

\* What a handler has changed so far.
Good(h) == /\ DOMAIN h = Fields
           /\ h.ok \in BOOLEAN /\ h.failed \in BOOLEAN
           /\ h.chunks \in Nat /\ h.replicas \in Nat
           /\ h.fate \in Fates
           /\ Wires(h.out)
           /\ IsFiniteSet(DOMAIN h.c2n)

\* The connections v are w with k more messages, of request id.
Added(v, w, op, id, k) ==
    /\ \A x : Total(v, x) = Total(w, x) + IF x = id THEN k ELSE 0
    /\ \A n \in Nodes : \A i \in DOMAIN v[n] :
          \/ i \in DOMAIN w[n] /\ v[n][i] = w[n][i]
          \/ v[n][i].op = op /\ v[n][i].id = id

\* g is h after it was tried to send a message: a failed send has sent nothing,
\* and a send that is not failed has sent it, or lost it to a dead node.
Tried(g, h, op, id) ==
    /\ Good(g)
    /\ g.chunks = h.chunks /\ g.replicas = h.replicas
    /\ g.ok => /\ h.ok
               /\ \E k \in {0, 1} : /\ Added(g.out, h.out, op, id, k)
                                    /\ g.failed => k = 0
                                    /\ connected \subseteq alive => k = 1

\* Nothing is sent, or one message.
LEMMA AddedNone ==
    ASSUME NEW w, Wires(w), NEW op, NEW id
    PROVE  Added(w, w, op, id, 0)
<1>1. \A x : Total(w, x) \in Nat
  BY TotalNat
<1> QED BY <1>1 DEF Added

LEMMA AddedOne ==
    ASSUME NEW w, Wires(w), NEW n \in Nodes, NEW m
    PROVE  /\ Wires([w EXCEPT ![n] = Append(@, m)])
           /\ Added([w EXCEPT ![n] = Append(@, m)], w, m.op, m.id, 1)
<1> DEFINE q == Append(w[n], m)
           v == [w EXCEPT ![n] = q]
<1>1. Listed(w[n]) /\ Listed(q)
  BY AppendListed DEF Wires
<1>2. \A x : Count(q, x) = Count(w[n], x) + Of(m, x) /\ Count(w[n], x) \in Nat
  BY <1>1, CountAppend, CountNat
<1>3. Wires(v) /\ \A x : Total(v, x) = Total(w, x) + Count(q, x) - Count(w[n], x)
  BY <1>1, TotalChange, ZenonT(40)
<1>4. ASSUME NEW x PROVE Total(v, x) = Total(w, x) + IF x = m.id THEN 1 ELSE 0
  <2> HIDE DEF v, q
  <2>1. Total(w, x) \in Nat
    BY TotalNat
  <2> QED BY <1>2, <1>3, <2>1 DEF Of
<1>5. ASSUME NEW k \in Nodes, NEW i \in DOMAIN v[k]
      PROVE  \/ i \in DOMAIN w[k] /\ v[k][i] = w[k][i]
             \/ v[k][i].op = m.op /\ v[k][i].id = m.id
  <2>1. CASE k = n
    <3>1. v[k] = q
      BY <2>1 DEF Wires
    <3>2. /\ DOMAIN q = 1 .. Len(w[n]) + 1 /\ Len(w[n]) \in Nat
          /\ DOMAIN w[n] = 1 .. Len(w[n]) /\ q[Len(w[n]) + 1] = m
          /\ \A j \in DOMAIN w[n] : q[j] = w[n][j]
      BY <1>1, AppendListed
    <3> HIDE DEF q, v
    <3>3. i \in DOMAIN w[n] \/ i = Len(w[n]) + 1
      BY <1>5, <3>1, <3>2
    <3> QED BY <2>1, <3>1, <3>2, <3>3
  <2>2. CASE k # n
    BY <1>5, <2>2 DEF Wires
  <2> QED BY <2>1, <2>2
<1> HIDE DEF v
<1>6. Added(v, w, m.op, m.id, 1)
  BY <1>4, <1>5 DEF Added
<1> QED BY <1>3, <1>6 DEF v

\* A send to a node that runs sends.
LEMMA LiveTried ==
    ASSUME NEW h, Good(h), h.ok, NEW n \in Nodes, NEW m
    PROVE  Tried(SendToLive(h, n, m), h, m.op, m.id)
<1> DEFINE g == SendToLive(h, n, m)
           w == h.out
           v == [w EXCEPT ![n] = Append(@, m)]
<1>0. /\ DOMAIN h = Fields /\ h.ok \in BOOLEAN
      /\ h.chunks \in Nat /\ h.replicas \in Nat /\ h.fate \in Fates /\ Wires(w)
      /\ IsFiniteSet(DOMAIN h.c2n)
  BY DEF Good
<1>1. g = [[h EXCEPT !.out = v] EXCEPT !.failed = FALSE]
  BY DEF SendToLive
<1> HIDE DEF g, v
<1>2. /\ DOMAIN g = Fields /\ g.ok = h.ok /\ g.failed = FALSE
      /\ g.chunks = h.chunks /\ g.replicas = h.replicas /\ g.fate = h.fate
      /\ g.out = v /\ g.c2n = h.c2n
  BY <1>0, <1>1 DEF Fields
<1>3. Wires(v) /\ Added(v, w, m.op, m.id, 1)
  BY <1>0, AddedOne DEF v
<1> HIDE DEF w
<1>4. Good(g)
  BY <1>0, <1>2, <1>3 DEF Good
<1>5. Added(g.out, h.out, m.op, m.id, 1)
  BY <1>2, <1>3 DEF w
<1>6. Tried(g, h, m.op, m.id)
  BY <1>2, <1>4, <1>5 DEF Tried
<1> QED BY <1>6 DEF g

\* What else a handler changes does not matter.
LEMMA TriedSame ==
    ASSUME NEW f, NEW g, NEW h, NEW op, NEW id, Tried(g, h, op, id), Good(f),
           f.ok = g.ok, f.failed = g.failed, f.chunks = g.chunks,
           f.replicas = g.replicas, f.out = g.out
    PROVE  Tried(f, h, op, id)
<1>1. f.chunks = h.chunks /\ f.replicas = h.replicas
  BY DEF Tried
<1>2. ASSUME f.ok
      PROVE  /\ h.ok
             /\ \E k \in {0, 1} : /\ Added(f.out, h.out, op, id, k)
                                  /\ f.failed => k = 0
                                  /\ connected \subseteq alive => k = 1
  <2>1. h.ok
    BY <1>2 DEF Tried
  <2>2. PICK k \in {0, 1} : /\ Added(g.out, h.out, op, id, k)
                            /\ g.failed => k = 0
                            /\ connected \subseteq alive => k = 1
    BY <1>2 DEF Tried
  <2>3. Added(f.out, h.out, op, id, k)
    BY <2>2
  <2> QED BY <2>1, <2>2, <2>3
<1> QED BY <1>1, <1>2 DEF Tried

\* A send that only changes other fields has sent nothing.
LEMMA NotSent ==
    ASSUME NEW g, NEW h, NEW op, NEW id, Good(g), Good(h),
           g.chunks = h.chunks, g.replicas = h.replicas, g.out = h.out,
           g.ok => h.ok /\ ~(connected \subseteq alive)
    PROVE  Tried(g, h, op, id)
<1>1. Added(g.out, h.out, op, id, 0)
  BY AddedNone DEF Good
<1> QED BY <1>1 DEF Tried

\* A send that ends Barista, or that a dead node never gets, sends nothing.
LEMMA FatalTried ==
    ASSUME NEW h, Good(h), NEW op, NEW id
    PROVE  Tried(Fatal(h), h, op, id)
<1> DEFINE g == Fatal(h)
<1>1. /\ DOMAIN g = Fields /\ g.ok = FALSE /\ g.failed = h.failed
      /\ g.chunks = h.chunks /\ g.replicas = h.replicas /\ g.fate = h.fate
      /\ g.out = h.out /\ g.c2n = h.c2n
  BY DEF Fields, Good, Fatal
<1> HIDE DEF g
<1>2. Good(g)
  BY <1>1 DEF Good
<1>3. Tried(g, h, op, id)
  BY <1>1, <1>2, NotSent
<1> QED BY <1>3 DEF g

LEMMA DeadTried ==
    ASSUME NEW h, Good(h), h.ok, NEW n \in connected \ alive, NEW op, NEW id
    PROVE  Tried(SendToDead(h, n), h, op, id)
<1> DEFINE g == SendToDead(h, n)
           f == [h.fate EXCEPT ![n] = FateAfter(@)]
<1>0. /\ DOMAIN h = Fields /\ h.ok \in BOOLEAN /\ h.failed \in BOOLEAN
      /\ h.chunks \in Nat /\ h.replicas \in Nat /\ h.fate \in Fates
      /\ Wires(h.out) /\ IsFiniteSet(DOMAIN h.c2n)
  BY DEF Good
<1>1. f \in Fates
  BY <1>0 DEF Fates, FateAfter
<1>2. \/ g = [[h EXCEPT !.fate = f] EXCEPT !.failed = FALSE]
      \/ g = [[h EXCEPT !.fate = f] EXCEPT !.failed = TRUE]
      \/ g = Fatal(h)
  BY DEF SendToDead
<1> HIDE DEF g, f
<1>3. CASE g = [[h EXCEPT !.fate = f] EXCEPT !.failed = FALSE]
  <2>1. /\ DOMAIN g = Fields /\ g.ok = h.ok /\ g.failed = FALSE
        /\ g.chunks = h.chunks /\ g.replicas = h.replicas /\ g.fate = f
        /\ g.out = h.out /\ g.c2n = h.c2n
    BY <1>0, <1>3 DEF Fields
  <2>2. Good(g)
    BY <1>0, <1>1, <2>1 DEF Good
  <2> QED BY <2>1, <2>2, NotSent DEF g
<1>4. CASE g = [[h EXCEPT !.fate = f] EXCEPT !.failed = TRUE]
  <2>1. /\ DOMAIN g = Fields /\ g.ok = h.ok /\ g.failed = TRUE
        /\ g.chunks = h.chunks /\ g.replicas = h.replicas /\ g.fate = f
        /\ g.out = h.out /\ g.c2n = h.c2n
    BY <1>0, <1>4 DEF Fields
  <2>2. Good(g)
    BY <1>0, <1>1, <2>1 DEF Good
  <2> QED BY <2>1, <2>2, NotSent DEF g
<1>5. CASE g = Fatal(h)
  BY <1>5, FatalTried DEF g
<1> QED BY <1>2, <1>3, <1>4, <1>5

\* So a send sends once at most, and once if all nodes run.
LEMMA SendTried ==
    ASSUME NEW h, Good(h), NEW n, NEW m, connected \subseteq Nodes
    PROVE  Tried(Send(h, n, m), h, m.op, m.id)
<1>1. CASE ~h.ok
  <2>1. Send(h, n, m) = h
    BY <1>1 DEF Send
  <2> QED BY <1>1, <2>1, NotSent
<1>2. CASE h.ok /\ n \notin connected
  <2>1. Send(h, n, m) = Fatal(h)
    BY <1>2 DEF Send
  <2> QED BY <2>1, FatalTried
<1>3. CASE h.ok /\ n \in connected /\ n \in alive
  <2>1. Send(h, n, m) = SendToLive(h, n, m)
    BY <1>3 DEF Send
  <2> QED BY <1>3, <2>1, LiveTried
<1>4. CASE h.ok /\ n \in connected /\ n \notin alive
  <2>1. Send(h, n, m) = SendToDead(h, n)
    BY <1>4 DEF Send
  <2> QED BY <1>4, <2>1, DeadTried
<1> QED BY <1>1, <1>2, <1>3, <1>4

\* A node that is set down after it.
LEMMA DownTried ==
    ASSUME NEW g, NEW h, NEW op, NEW id, Tried(g, h, op, id), NEW n
    PROVE  Tried(DownIfFailed(g, n), h, op, id)
<1> DEFINE f == DownIfFailed(g, n)
<1>0. Good(g)
  BY DEF Tried
<1>1. /\ DOMAIN f = Fields /\ f.ok = g.ok /\ f.failed = g.failed
      /\ f.chunks = g.chunks /\ f.replicas = g.replicas /\ f.fate = g.fate
      /\ f.out = g.out /\ f.c2n = g.c2n
  BY <1>0 DEF DownIfFailed, Fields, Good
<1> HIDE DEF f
<1>2. Good(f)
  BY <1>0, <1>1 DEF Good
<1>3. Tried(f, h, op, id)
  BY <1>1, <1>2, TriedSame
<1> QED BY <1>3 DEF f

\* A failed send and another one are one.
LEMMA Retried ==
    ASSUME NEW f, NEW g, NEW h, NEW op, NEW id,
           Tried(g, h, op, id), g.ok, g.failed, Tried(f, g, op, id), Good(h)
    PROVE  Tried(f, h, op, id)
<1> SUFFICES ASSUME f.ok
             PROVE  \E k \in {0, 1} : /\ Added(f.out, h.out, op, id, k)
                                      /\ f.failed => k = 0
                                      /\ connected \subseteq alive => k = 1
  BY DEF Tried
<1>1. PICK k \in {0, 1} : /\ Added(f.out, g.out, op, id, k)
                          /\ f.failed => k = 0
                          /\ connected \subseteq alive => k = 1
  BY DEF Tried
<1>2. Added(g.out, h.out, op, id, 0)
  BY DEF Tried
<1>3. \A x : Total(g.out, x) = Total(h.out, x)
  <2>1. \A x : Total(h.out, x) \in Nat
    BY TotalNat DEF Good
  <2> QED BY <1>2, <2>1 DEF Added
<1>4. Added(f.out, h.out, op, id, k)
  BY <1>1, <1>2, <1>3 DEF Added
<1> QED BY <1>1, <1>4

\* The same holds for every way of sending that the stripe loops have: with the
\* node set down, with a second and a third try, and to another replica node.
LEMMA SendOrDownTried ==
    ASSUME NEW h, Good(h), NEW n, NEW m, connected \subseteq Nodes
    PROVE  Tried(SendOrDown(h, n, m), h, m.op, m.id)
  BY SendTried, DownTried DEF SendOrDown

LEMMA ReadOnceTried ==
    ASSUME NEW h, Good(h), NEW id, NEW ch, NEW s, connected \subseteq Nodes
    PROVE  Tried(ReadOnce(h, id, ch, s), h, "read", id)
<1> DEFINE m == [op |-> "read", id |-> id, chunk |-> ch, offset |-> s.offset,
                 count |-> s.count, data |-> <<>>]
<1>1. m.op = "read" /\ m.id = id
  OBVIOUS
<1> HIDE DEF m
<1>2. \/ ReadOnce(h, id, ch, s) = Fatal(h)
      \/ \E n : ReadOnce(h, id, ch, s) = SendOrDown(h, n, m)
  BY DEF ReadOnce, m
<1> QED BY <1>1, <1>2, FatalTried, SendOrDownTried

LEMMA ReadRetryTried ==
    ASSUME NEW h, NEW g, Good(h), NEW id, NEW ch, NEW s, connected \subseteq Nodes,
           Tried(g, h, "read", id)
    PROVE  Tried(ReadRetry(g, id, ch, s), h, "read", id)
<1>1. Good(g)
  BY DEF Tried
<1>2. CASE g.ok /\ g.failed
  <2>1. ReadRetry(g, id, ch, s) = ReadOnce(g, id, ch, s)
    BY <1>2 DEF ReadRetry
  <2> QED BY <1>1, <1>2, <2>1, ReadOnceTried, Retried
<1>3. CASE ~(g.ok /\ g.failed)
  BY <1>3 DEF ReadRetry
<1> QED BY <1>2, <1>3

LEMMA ReadChunkTried ==
    ASSUME NEW h, Good(h), NEW id, NEW ch, NEW s, connected \subseteq Nodes
    PROVE  Tried(ReadChunk(h, id, ch, s), h, "read", id)
  BY ReadOnceTried, ReadRetryTried DEF ReadChunk

LEMMA WriteChunkTried ==
    ASSUME NEW h, Good(h), NEW n, NEW m, connected \subseteq Nodes
    PROVE  Tried(WriteChunk(h, n, m), h, m.op, m.id)
<1> DEFINE g == SendOrDown(h, n, m)
<1>1. Tried(g, h, m.op, m.id) /\ Good(g)
  BY SendOrDownTried DEF Tried
<1>2. WriteChunk(h, n, m) = IF g.ok /\ g.failed THEN SendOrDown(g, n, m) ELSE g
  BY DEF WriteChunk
<1> HIDE DEF g
<1> QED BY <1>1, <1>2, SendOrDownTried, Retried

LEMMA WriteReplicaTried ==
    ASSUME NEW h, Good(h), NEW n, NEW m, connected \subseteq Nodes
    PROVE  Tried(WriteReplica(h, n, m), h, m.op, m.id)
<1> DEFINE g == SendOrDown(h, n, m)
           r == PutReplica(g.up, m.chunk[3])
<1>1. Tried(g, h, m.op, m.id) /\ Good(g)
  BY SendOrDownTried DEF Tried
<1>2. WriteReplica(h, n, m) = IF g.ok /\ g.failed THEN Send(g, r, m) ELSE g
  BY DEF WriteReplica
<1> HIDE DEF g, r
<1> QED BY <1>1, <1>2, SendTried, Retried

-------------------------------------------------------------------------------
(* The loops over the chunks of a request *)

\* The loop began with the connections w; da messages of request a and db of
\* request b are not counted yet.  A message that was counted and not sent went
\* to a dead node.
Sending(h, w, op, a, b, da, db) ==
    /\ Good(h)
    /\ h.ok =>
        /\ \A x : x \notin {a, b} => Total(h.out, x) = Total(w, x)
        /\ Total(h.out, a) <= h.chunks + da
        /\ Total(h.out, b) <= h.replicas + db
        /\ connected \subseteq alive => /\ Total(h.out, a) = h.chunks + da
                                        /\ Total(h.out, b) = h.replicas + db
        /\ \A n \in Nodes : \A i \in DOMAIN h.out[n] :
              \/ i \in DOMAIN w[n] /\ h.out[n][i] = w[n][i]
              \/ h.out[n][i].op = op /\ h.out[n][i].id \in {a, b}

\* One send more keeps the count, which is behind by one more.
LEMMA OneMoreSent ==
    ASSUME NEW t \in Nat, NEW k \in {0, 1}, NEW c \in Nat, NEW d \in Nat,
           t <= c + d,
           connected \subseteq alive => t = c + d /\ k = 1
    PROVE  /\ t + k <= c + (d + 1)
           /\ connected \subseteq alive => t + k = c + (d + 1)
  OBVIOUS

LEMMA OneMore ==
    ASSUME NEW h, NEW g, NEW w, NEW op, NEW a, NEW b, a # b, NEW da \in Nat,
           NEW db \in Nat, Sending(h, w, op, a, b, da, db)
    PROVE  /\ Tried(g, h, op, a) => Sending(g, w, op, a, b, da + 1, db)
           /\ Tried(g, h, op, b) => Sending(g, w, op, a, b, da, db + 1)
<1>1. ASSUME NEW id \in {a, b}, Tried(g, h, op, id), g.ok,
             NEW k \in {0, 1}, Added(g.out, h.out, op, id, k)
      PROVE  /\ \A x : x \notin {a, b} => Total(g.out, x) = Total(w, x)
             /\ \A x \in {a, b} : /\ Total(h.out, x) \in Nat
                                  /\ Total(g.out, x) = Total(h.out, x)
                                                       + IF x = id THEN k ELSE 0
             /\ \A n \in Nodes : \A i \in DOMAIN g.out[n] :
                    \/ i \in DOMAIN w[n] /\ g.out[n][i] = w[n][i]
                    \/ g.out[n][i].op = op /\ g.out[n][i].id \in {a, b}
  <2>1. h.ok /\ \A x : Total(h.out, x) \in Nat
    BY <1>1, TotalNat DEF Tried, Sending, Good
  <2>2. \A x : Total(g.out, x) = Total(h.out, x) + IF x = id THEN k ELSE 0
    BY <1>1 DEF Added
  <2>3. \A x : x \notin {a, b} => Total(g.out, x) = Total(w, x)
    BY <2>1, <2>2 DEF Sending
  <2>4. ASSUME NEW n \in Nodes, NEW i \in DOMAIN g.out[n]
        PROVE  \/ i \in DOMAIN w[n] /\ g.out[n][i] = w[n][i]
               \/ g.out[n][i].op = op /\ g.out[n][i].id \in {a, b}
    <3>1. \/ i \in DOMAIN h.out[n] /\ g.out[n][i] = h.out[n][i]
          \/ g.out[n][i].op = op /\ g.out[n][i].id = id
      BY <1>1 DEF Added
    <3> QED BY <2>1, <3>1 DEF Sending
  <2> QED BY <2>1, <2>2, <2>3, <2>4
<1>2. ASSUME NEW id \in {a, b}, Tried(g, h, op, id), g.ok
      PROVE  h.ok /\ \E k \in {0, 1} : /\ Added(g.out, h.out, op, id, k)
                                       /\ connected \subseteq alive => k = 1
  BY <1>2 DEF Tried
<1>3. h.chunks \in Nat /\ h.replicas \in Nat
  BY DEF Sending, Good
<1>4. ASSUME Tried(g, h, op, a) PROVE Sending(g, w, op, a, b, da + 1, db)
  <2>1. Good(g) /\ g.chunks = h.chunks /\ g.replicas = h.replicas
    BY <1>4 DEF Tried
  <2>2. CASE ~g.ok
    BY <2>1, <2>2 DEF Sending
  <2>3. CASE g.ok
    <3>1. PICK k \in {0, 1} : /\ Added(g.out, h.out, op, a, k)
                              /\ connected \subseteq alive => k = 1
      BY <1>2, <1>4, <2>3
    <3>2. /\ Total(h.out, a) \in Nat /\ Total(g.out, a) = Total(h.out, a) + k
          /\ Total(h.out, b) \in Nat /\ Total(g.out, b) = Total(h.out, b)
      BY <1>1, <1>4, <2>3, <3>1
    <3>3. /\ Total(h.out, a) <= h.chunks + da /\ Total(h.out, b) <= h.replicas + db
          /\ connected \subseteq alive => /\ Total(h.out, a) = h.chunks + da
                                          /\ Total(h.out, b) = h.replicas + db
      BY <1>2, <1>4, <2>3 DEF Sending
    <3>4. /\ Total(g.out, a) <= g.chunks + (da + 1) /\ Total(g.out, b) <= g.replicas + db
          /\ connected \subseteq alive => /\ Total(g.out, a) = g.chunks + (da + 1)
                                          /\ Total(g.out, b) = g.replicas + db
      BY <1>3, <2>1, <3>1, <3>2, <3>3, OneMoreSent
    <3>5. /\ \A x : x \notin {a, b} => Total(g.out, x) = Total(w, x)
          /\ \A n \in Nodes : \A i \in DOMAIN g.out[n] :
                \/ i \in DOMAIN w[n] /\ g.out[n][i] = w[n][i]
                \/ g.out[n][i].op = op /\ g.out[n][i].id \in {a, b}
      BY <1>1, <1>4, <2>3, <3>1
    <3> QED BY <2>1, <3>4, <3>5 DEF Sending
  <2> QED BY <2>2, <2>3
<1>5. ASSUME Tried(g, h, op, b) PROVE Sending(g, w, op, a, b, da, db + 1)
  <2>1. Good(g) /\ g.chunks = h.chunks /\ g.replicas = h.replicas
    BY <1>5 DEF Tried
  <2>2. CASE ~g.ok
    BY <2>1, <2>2 DEF Sending
  <2>3. CASE g.ok
    <3>1. PICK k \in {0, 1} : /\ Added(g.out, h.out, op, b, k)
                              /\ connected \subseteq alive => k = 1
      BY <1>2, <1>5, <2>3
    <3>2. /\ Total(h.out, b) \in Nat /\ Total(g.out, b) = Total(h.out, b) + k
          /\ Total(h.out, a) \in Nat /\ Total(g.out, a) = Total(h.out, a)
      BY <1>1, <1>5, <2>3, <3>1
    <3>3. /\ Total(h.out, a) <= h.chunks + da /\ Total(h.out, b) <= h.replicas + db
          /\ connected \subseteq alive => /\ Total(h.out, a) = h.chunks + da
                                          /\ Total(h.out, b) = h.replicas + db
      BY <1>2, <1>5, <2>3 DEF Sending
    <3>4. /\ Total(g.out, a) <= g.chunks + da /\ Total(g.out, b) <= g.replicas + (db + 1)
          /\ connected \subseteq alive => /\ Total(g.out, a) = g.chunks + da
                                          /\ Total(g.out, b) = g.replicas + (db + 1)
      BY <1>3, <2>1, <3>1, <3>2, <3>3, OneMoreSent
    <3>5. /\ \A x : x \notin {a, b} => Total(g.out, x) = Total(w, x)
          /\ \A n \in Nodes : \A i \in DOMAIN g.out[n] :
                \/ i \in DOMAIN w[n] /\ g.out[n][i] = w[n][i]
                \/ g.out[n][i].op = op /\ g.out[n][i].id \in {a, b}
      BY <1>1, <1>5, <2>3, <3>1
    <3> QED BY <2>1, <3>4, <3>5 DEF Sending
  <2> QED BY <2>2, <2>3
<1> QED BY <1>4, <1>5

\* What was sent is counted, and other fields change.
LEMMA NowCounted ==
    ASSUME NEW h, NEW f, NEW w, NEW op, NEW a, NEW b, NEW da \in Nat,
           NEW db \in Nat, NEW ea \in Nat, NEW eb \in Nat,
           Sending(h, w, op, a, b, da, db),
           Good(f), f.ok = h.ok, f.out = h.out,
           f.chunks + ea = h.chunks + da, f.replicas + eb = h.replicas + db
    PROVE  Sending(f, w, op, a, b, ea, eb)
  BY DEF Sending

\* The chunk map stays finite.
LEMMA PutFinite ==
    ASSUME NEW m, IsFiniteSet(DOMAIN m), NEW k, NEW v
    PROVE  IsFiniteSet(DOMAIN Put(m, k, v)) /\ IsFiniteSet(DOMAIN Erase(m, k))
<1>1. \E key : DOMAIN Put(m, k, v) = DOMAIN m \cup {key}
  BY DEF Put
<1>2. DOMAIN Erase(m, k) \subseteq DOMAIN m
  BY DEF Erase
<1> QED BY <1>1, <1>2, FS_AddElement, FS_Subset

\* A turn of the loop over the pieces of a read.
LEMMA ReadSpanSends ==
    ASSUME NEW h, NEW w, NEW id, NEW b, id # b, NEW file, NEW s,
           connected \subseteq Nodes, Sending(h, w, "read", id, b, 0, 0)
    PROVE  /\ Sending(ReadSpan(h, id, file, s), w, "read", id, b, 0, 0)
           /\ ReadSpan(h, id, file, s).replicas = h.replicas
<1> DEFINE ch == <<file, s.stripe, s.chunk>>
           g == ReadChunk(h, id, ch, s)
           f == [g EXCEPT !.chunks = @ + 1]
           e == [h EXCEPT !.broken = @ \cup {s.stripe}]
<1>0. Good(h)
  BY DEF Sending
<1>1. Tried(g, h, "read", id) /\ Good(g)
  BY <1>0, ReadChunkTried DEF Tried
<1>2. ReadSpan(h, id, file, s) \in {h, e, f}
  BY DEF ReadSpan
<1> HIDE DEF g
<1>3. Sending(g, w, "read", id, b, 1, 0)
  <2>1. 0 + 1 = 1
    OBVIOUS
  <2> QED BY <1>1, <2>1, OneMore
<1>4. /\ DOMAIN f = Fields /\ f.ok = g.ok /\ f.failed = g.failed
      /\ f.chunks = g.chunks + 1 /\ f.replicas = g.replicas /\ f.fate = g.fate
      /\ f.out = g.out /\ f.c2n = g.c2n
  BY <1>1 DEF Good, Fields
<1>5. /\ DOMAIN e = Fields /\ e.ok = h.ok /\ e.failed = h.failed
      /\ e.chunks = h.chunks /\ e.replicas = h.replicas /\ e.fate = h.fate
      /\ e.out = h.out /\ e.c2n = h.c2n
  BY <1>0 DEF Good, Fields
<1> HIDE DEF e, f
<1>6. Good(f) /\ Good(e)
  BY <1>0, <1>1, <1>4, <1>5 DEF Good
<1>7. /\ g.chunks \in Nat /\ g.replicas \in Nat
      /\ f.chunks + 0 = g.chunks + 1 /\ f.replicas + 0 = g.replicas + 0
  BY <1>1, <1>4 DEF Good
<1>8. Sending(f, w, "read", id, b, 0, 0)
  BY <1>3, <1>4, <1>6, <1>7, NowCounted
<1>9. Sending(e, w, "read", id, b, 0, 0)
  BY <1>5, <1>6, NowCounted
<1>10. f.replicas = h.replicas /\ e.replicas = h.replicas
  BY <1>1, <1>4, <1>5 DEF Tried
<1> QED BY <1>2, <1>8, <1>9, <1>10

\* Giving a chunk its nodes sends nothing.
LEMMA PlacedGood ==
    ASSUME NEW h, Good(h), NEW ch
    PROVE  LET f == Placed(h, ch)
           IN  /\ Good(f) /\ f.ok = h.ok /\ f.out = h.out
               /\ f.chunks = h.chunks /\ f.replicas = h.replicas
<1> DEFINE f == Placed(h, ch)
           p == IF Has(h.c2n, ch) THEN h.c2n
                ELSE Put(h.c2n, ch, PutChunk(h.up, ch[3]))
           r == IF Has(h.c2r, ch) THEN h.c2r
                ELSE Put(h.c2r, ch, PutReplica(h.up, ch[3]))
<1>1. DOMAIN h = Fields
  BY DEF Good
<1>2. f = [[h EXCEPT !.c2n = p] EXCEPT !.c2r = r]
  BY <1>1 DEF Placed, Fields
<1>3. IsFiniteSet(DOMAIN p)
  BY PutFinite DEF Good
<1> HIDE DEF f, p, r
<1>4. /\ DOMAIN f = Fields /\ f.ok = h.ok /\ f.failed = h.failed
      /\ f.chunks = h.chunks /\ f.replicas = h.replicas /\ f.fate = h.fate
      /\ f.out = h.out /\ f.c2n = p
  BY <1>1, <1>2 DEF Fields
<1>5. Good(f)
  BY <1>3, <1>4 DEF Good
<1> QED BY <1>4, <1>5 DEF f

\* A turn of the loop over the pieces of a write.
LEMMA WriteSpanSends ==
    ASSUME NEW h, NEW w, NEW id, NEW rid, id # rid, NEW file, NEW s,
           connected \subseteq Nodes, Sending(h, w, "write", id, rid, 0, 0)
    PROVE  Sending(WriteSpan(h, id, rid, file, s), w, "write", id, rid, 0, 0)
<1> DEFINE ch == <<file, s.stripe, s.chunk>>
           Msg(i) == [op |-> "write", id |-> i, chunk |-> ch, offset |-> s.offset,
                      count |-> s.count,
                      data |-> SubSeq(Buffer(id, s.from + s.count),
                                      s.from + 1, s.from + s.count)]
           h1 == Placed(h, ch)
           h2 == WriteChunk(h1, Get(h1.c2n, ch), Msg(id))
           h3 == WriteReplica(h2, Get(h2.c2r, ch), Msg(rid))
           f == [[h3 EXCEPT !.chunks = @ + 1] EXCEPT !.replicas = @ + 1]
<1>1. WriteSpan(h, id, rid, file, s) = IF ~h.ok THEN h ELSE f
  BY DEF WriteSpan
<1>2. \A i : Msg(i).op = "write" /\ Msg(i).id = i
  OBVIOUS
<1> HIDE DEF Msg
<1>3. Good(h) /\ Good(h1) /\ h1.ok = h.ok /\ h1.out = h.out
      /\ h1.chunks = h.chunks /\ h1.replicas = h.replicas
  BY PlacedGood DEF Sending
<1> HIDE DEF h1
<1>4. Sending(h1, w, "write", id, rid, 0, 0)
  BY <1>3, NowCounted
<1>5. Tried(h2, h1, "write", id) /\ Good(h2)
  BY <1>2, <1>3, WriteChunkTried DEF Tried
<1> HIDE DEF h2
<1>6. Tried(h3, h2, "write", rid) /\ Good(h3)
  BY <1>2, <1>5, WriteReplicaTried DEF Tried
<1> HIDE DEF h3
<1>7. Sending(h3, w, "write", id, rid, 1, 1)
  <2>1. 0 + 1 = 1
    OBVIOUS
  <2>2. Sending(h2, w, "write", id, rid, 1, 0)
    BY <1>4, <1>5, <2>1, OneMore
  <2> QED BY <1>6, <2>1, <2>2, OneMore
<1>8. /\ DOMAIN f = Fields /\ f.ok = h3.ok /\ f.failed = h3.failed
      /\ f.chunks = h3.chunks + 1 /\ f.replicas = h3.replicas + 1
      /\ f.fate = h3.fate /\ f.out = h3.out /\ f.c2n = h3.c2n
  BY <1>6 DEF Good, Fields
<1> HIDE DEF f
<1>9. Good(f)
  BY <1>6, <1>8 DEF Good
<1>10. /\ h3.chunks \in Nat /\ h3.replicas \in Nat
       /\ f.chunks + 0 = h3.chunks + 1 /\ f.replicas + 0 = h3.replicas + 1
  BY <1>6, <1>8 DEF Good
<1>11. Sending(f, w, "write", id, rid, 0, 0)
  BY <1>7, <1>8, <1>9, <1>10, NowCounted
<1> QED BY <1>1, <1>11

\* A turn of the loop over the chunks of a file that is deleted.
LEMMA DeleteChunkSends ==
    ASSUME NEW h, NEW w, NEW id, NEW b, id # b, NEW ch,
           connected \subseteq Nodes, Sending(h, w, "delete", id, b, 0, 0)
    PROVE  /\ Sending(DeleteChunk(h, id, ch), w, "delete", id, b, 0, 0)
           /\ DeleteChunk(h, id, ch).replicas = h.replicas
<1> DEFINE m == DeleteMsg(id, ch)
           g == Send(h, Get(h.c2n, ch), m)
           p == Erase(g.c2n, ch)
           f == [[g EXCEPT !.c2n = p] EXCEPT !.chunks = @ + 1]
<1>0. Good(h) /\ m.op = "delete" /\ m.id = id
  BY DEF Sending, DeleteMsg
<1> HIDE DEF m
<1>1. Tried(g, h, "delete", id) /\ Good(g)
  BY <1>0, SendTried DEF Tried
<1>2. DeleteChunk(h, id, ch) \in {h, f}
  BY DEF DeleteChunk, m
<1> HIDE DEF g
<1>3. Sending(g, w, "delete", id, b, 1, 0)
  <2>1. 0 + 1 = 1
    OBVIOUS
  <2> QED BY <1>1, <2>1, OneMore
<1>4. IsFiniteSet(DOMAIN p) /\ DOMAIN g = Fields
  BY <1>1, PutFinite DEF Good
<1> HIDE DEF p
<1>5. /\ DOMAIN f = Fields /\ f.ok = g.ok /\ f.failed = g.failed
      /\ f.chunks = g.chunks + 1 /\ f.replicas = g.replicas /\ f.fate = g.fate
      /\ f.out = g.out /\ f.c2n = p
  BY <1>4 DEF Fields
<1> HIDE DEF f
<1>6. Good(f)
  BY <1>1, <1>4, <1>5 DEF Good
<1>7. /\ g.chunks \in Nat /\ g.replicas \in Nat
      /\ f.chunks + 0 = g.chunks + 1 /\ f.replicas + 0 = g.replicas + 0
  BY <1>1, <1>5 DEF Good
<1>8. Sending(f, w, "delete", id, b, 0, 0)
  BY <1>3, <1>5, <1>6, <1>7, NowCounted
<1>9. f.replicas = h.replicas
  BY <1>1, <1>5 DEF Tried
<1> QED BY <1>2, <1>8, <1>9

LEMMA DeleteReplicaSends ==
    ASSUME NEW h, NEW w, NEW id, NEW b, id # b, NEW ch,
           connected \subseteq Nodes, Sending(h, w, "delete", id, b, 0, 0)
    PROVE  /\ Sending(DeleteReplica(h, id, ch), w, "delete", id, b, 0, 0)
           /\ DeleteReplica(h, id, ch).replicas = h.replicas
<1> DEFINE m == DeleteMsg(id, ch)
           g == Send(h, Get(h.c2r, ch), m)
           r == Erase(g.c2r, ch)
           f == [[g EXCEPT !.c2r = r] EXCEPT !.chunks = @ + 1]
<1>0. Good(h) /\ m.op = "delete" /\ m.id = id
  BY DEF Sending, DeleteMsg
<1> HIDE DEF m
<1>1. Tried(g, h, "delete", id) /\ Good(g)
  BY <1>0, SendTried DEF Tried
<1>2. DeleteReplica(h, id, ch) \in {h, f}
  BY DEF DeleteReplica, m
<1> HIDE DEF g
<1>3. Sending(g, w, "delete", id, b, 1, 0)
  <2>1. 0 + 1 = 1
    OBVIOUS
  <2> QED BY <1>1, <2>1, OneMore
<1>4. DOMAIN g = Fields
  BY <1>1 DEF Good
<1> HIDE DEF r
<1>5. /\ DOMAIN f = Fields /\ f.ok = g.ok /\ f.failed = g.failed
      /\ f.chunks = g.chunks + 1 /\ f.replicas = g.replicas /\ f.fate = g.fate
      /\ f.out = g.out /\ f.c2n = g.c2n
  BY <1>4 DEF Fields
<1> HIDE DEF f
<1>6. Good(f)
  BY <1>1, <1>5 DEF Good
<1>7. /\ g.chunks \in Nat /\ g.replicas \in Nat
      /\ f.chunks + 0 = g.chunks + 1 /\ f.replicas + 0 = g.replicas + 0
  BY <1>1, <1>5 DEF Good
<1>8. Sending(f, w, "delete", id, b, 0, 0)
  BY <1>3, <1>5, <1>6, <1>7, NowCounted
<1>9. f.replicas = h.replicas
  BY <1>1, <1>5 DEF Tried
<1> QED BY <1>2, <1>8, <1>9

LEMMA DeleteOneSends ==
    ASSUME NEW h, NEW w, NEW id, NEW b, id # b, NEW ch,
           connected \subseteq Nodes, Sending(h, w, "delete", id, b, 0, 0)
    PROVE  /\ Sending(DeleteOne(h, id, ch), w, "delete", id, b, 0, 0)
           /\ DeleteOne(h, id, ch).replicas = h.replicas
  BY DeleteChunkSends, DeleteReplicaSends DEF DeleteOne

\* Where the loops begin.
LEMMA StartSends ==
    ASSUME NEW fate \in Fates, NEW op, NEW a, NEW b, Wires(to_node),
           IsFiniteSet(DOMAIN chunk_to_node),
           Total(to_node, a) = 0, Total(to_node, b) = 0
    PROVE  /\ Sending(Start(fate), to_node, op, a, b, 0, 0)
           /\ Start(fate).replicas = 0
<1> DEFINE h == Start(fate)
<1>1. /\ DOMAIN h = Fields /\ h.ok = TRUE /\ h.failed = FALSE
      /\ h.chunks = 0 /\ h.replicas = 0 /\ h.fate = fate
      /\ h.out = to_node /\ h.c2n = chunk_to_node
  BY DEF Start, Fields
<1> HIDE DEF h
<1>2. Good(h)
  <2>1. h.ok \in BOOLEAN /\ h.failed \in BOOLEAN
    BY <1>1, Zenon
  <2>2. h.chunks \in Nat /\ h.replicas \in Nat
    BY <1>1
  <2>3. h.fate \in Fates /\ Wires(h.out) /\ IsFiniteSet(DOMAIN h.c2n)
    BY <1>1
  <2> QED BY <1>1, <2>1, <2>2, <2>3 DEF Good
<1>3. Sending(h, to_node, op, a, b, 0, 0)
  BY <1>1, <1>2 DEF Sending
<1> QED BY <1>1, <1>3 DEF h

ReadTurn(id, b, file, h, s) == ReadSpan(h, id, file, s)
WriteTurn(id, rid, file, h, s) == WriteSpan(h, id, rid, file, s)
DeleteTurn(id, b, c, h, ch) == DeleteOne(h, id, ch)

ReadLoop == INSTANCE FoldInduction WITH Op <- ReadTurn
WriteLoop == INSTANCE FoldInduction WITH Op <- WriteTurn
DeleteLoop == INSTANCE FoldInduction WITH Op <- DeleteTurn

\* By induction over the turns: the loops count what they send.
LEMMA ReadLoopSends ==
    ASSUME NEW id, NEW b, id # b, NEW file, NEW base, NEW n \in Nat, NEW seq,
           DOMAIN seq = 1 .. n, connected \subseteq Nodes, NEW w,
           Sending(base, w, "read", id, b, 0, 0), base.replicas = 0
    PROVE  LET h == ReadLoop!Loop(id, b, file, base, seq)
           IN  Sending(h, w, "read", id, b, 0, 0) /\ h.replicas = 0
<1>1. PICK h : ReadLoop!Turns(h, id, b, file, base, n, seq)
  BY ReadLoop!LoopTurns
<1>2. /\ h[0] = base
      /\ \A i \in 1 .. n : h[i] = ReadTurn(id, b, file, h[i - 1], seq[i])
      /\ h[n] = ReadLoop!Loop(id, b, file, base, seq)
  BY <1>1 DEF ReadLoop!Turns
<1> DEFINE Ok(k) == Sending(h[k], w, "read", id, b, 0, 0) /\ h[k].replicas = 0
           T == {k \in Nat : k <= n => Ok(k)}
<1>3. 0 \in T
  BY <1>2
<1>4. ASSUME NEW k \in Nat, k \in T PROVE k + 1 \in T
  <2> SUFFICES ASSUME k + 1 <= n PROVE Ok(k + 1)
    OBVIOUS
  <2>1. k + 1 \in 1 .. n /\ k + 1 - 1 = k /\ Ok(k)
    BY <1>4
  <2>2. h[k + 1] = ReadSpan(h[k], id, file, seq[k + 1])
    BY <1>2, <2>1 DEF ReadTurn
  <2> QED BY <2>1, <2>2, ReadSpanSends
<1>5. n \in T
  <2> HIDE DEF T
  <2> QED BY <1>3, <1>4, ReadLoop!NatSet
<1> QED BY <1>2, <1>5

LEMMA WriteLoopSends ==
    ASSUME NEW id, NEW rid, id # rid, NEW file, NEW base, NEW n \in Nat, NEW seq,
           DOMAIN seq = 1 .. n, connected \subseteq Nodes, NEW w,
           Sending(base, w, "write", id, rid, 0, 0)
    PROVE  Sending(WriteLoop!Loop(id, rid, file, base, seq), w, "write", id, rid, 0, 0)
<1>1. PICK h : WriteLoop!Turns(h, id, rid, file, base, n, seq)
  BY WriteLoop!LoopTurns
<1>2. /\ h[0] = base
      /\ \A i \in 1 .. n : h[i] = WriteTurn(id, rid, file, h[i - 1], seq[i])
      /\ h[n] = WriteLoop!Loop(id, rid, file, base, seq)
  BY <1>1 DEF WriteLoop!Turns
<1> DEFINE Ok(k) == Sending(h[k], w, "write", id, rid, 0, 0)
           T == {k \in Nat : k <= n => Ok(k)}
<1>3. 0 \in T
  BY <1>2
<1>4. ASSUME NEW k \in Nat, k \in T PROVE k + 1 \in T
  <2> SUFFICES ASSUME k + 1 <= n PROVE Ok(k + 1)
    OBVIOUS
  <2>1. k + 1 \in 1 .. n /\ k + 1 - 1 = k /\ Ok(k)
    BY <1>4
  <2>2. h[k + 1] = WriteSpan(h[k], id, rid, file, seq[k + 1])
    BY <1>2, <2>1 DEF WriteTurn
  <2> QED BY <2>1, <2>2, WriteSpanSends
<1>5. n \in T
  <2> HIDE DEF T
  <2> QED BY <1>3, <1>4, WriteLoop!NatSet
<1> QED BY <1>2, <1>5

LEMMA DeleteLoopSends ==
    ASSUME NEW id, NEW b, id # b, NEW c, NEW base, NEW n \in Nat, NEW seq,
           DOMAIN seq = 1 .. n, connected \subseteq Nodes, NEW w,
           Sending(base, w, "delete", id, b, 0, 0), base.replicas = 0
    PROVE  LET h == DeleteLoop!Loop(id, b, c, base, seq)
           IN  Sending(h, w, "delete", id, b, 0, 0) /\ h.replicas = 0
<1>1. PICK h : DeleteLoop!Turns(h, id, b, c, base, n, seq)
  BY DeleteLoop!LoopTurns
<1>2. /\ h[0] = base
      /\ \A i \in 1 .. n : h[i] = DeleteTurn(id, b, c, h[i - 1], seq[i])
      /\ h[n] = DeleteLoop!Loop(id, b, c, base, seq)
  BY <1>1 DEF DeleteLoop!Turns
<1> DEFINE Ok(k) == Sending(h[k], w, "delete", id, b, 0, 0) /\ h[k].replicas = 0
           T == {k \in Nat : k <= n => Ok(k)}
<1>3. 0 \in T
  BY <1>2
<1>4. ASSUME NEW k \in Nat, k \in T PROVE k + 1 \in T
  <2> SUFFICES ASSUME k + 1 <= n PROVE Ok(k + 1)
    OBVIOUS
  <2>1. k + 1 \in 1 .. n /\ k + 1 - 1 = k /\ Ok(k)
    BY <1>4
  <2>2. h[k + 1] = DeleteOne(h[k], id, seq[k + 1])
    BY <1>2, <2>1 DEF DeleteTurn
  <2> QED BY <2>1, <2>2, DeleteOneSends
<1>5. n \in T
  <2> HIDE DEF T
  <2> QED BY <1>3, <1>4, DeleteLoop!NatSet
<1> QED BY <1>2, <1>5

-------------------------------------------------------------------------------
(* What the handlers that send put on the connections *)

\* A handler that ends well has sent what its request then waits for.
LEMMA ReadSentSends ==
    ASSUME NEW c, NEW fd, NEW count \in Nat, ReadSent(c, fd, count), ~Crash,
           file_cursors[fd].offset \in Nat, request_id \in Nat,
           connected \subseteq Nodes, Wires(to_node),
           IsFiniteSet(DOMAIN chunk_to_node),
           Total(to_node, request_id + 1) = 0, Total(to_node, request_id + 2) = 0
    PROVE  \E h : /\ h.ok /\ Sent(h) /\ UNCHANGED machines
                  /\ ReadStarted(c, fd, count, h)
                  /\ h.replicas = 0
                  /\ Sending(h, to_node, "read", request_id + 1, request_id + 2, 0, 0)
<1> DEFINE id == request_id + 1
           b == request_id + 2
           file == FileOf(fd)
           seq == Spans(StripeSize, ChunkSize, file_cursors[fd].offset, count)
           L(fate) == FoldLeft(LAMBDA h, s : ReadSpan(h, id, file, s), Start(fate), seq)
<1>1. PICK fate \in Fates : LET h == L(fate) IN
          h.ok /\ Sent(h) /\ UNCHANGED machines /\ ReadStarted(c, fd, count, h)
  BY DEF ReadSent, ReadStarted, ReadRequest, get_new_request_id
<1>2. L(fate) = ReadLoop!Loop(id, b, file, Start(fate), seq)
  BY DEF ReadLoop!Loop, ReadTurn, FoldLeft, ReadLoop!FoldLeft,
     MapThenFoldSet, ReadLoop!MapThenFoldSet, Max, ReadLoop!Max
<1>3. PICK n \in Nat : DOMAIN seq = 1 .. n
  <2>1. StripeSize \in Nat /\ StripeSize # 0 /\ ChunkSize \in Nat /\ ChunkSize # 0
    BY SizesAssumption
  <2> DEFINE G == GoodSpans(StripeSize, ChunkSize, file_cursors[fd].offset, count)
  <2>2. seq \in Seq(G)
    BY <2>1, SpansRun
  <2> HIDE DEF G, seq
  <2> QED BY <2>2
<1>4. id # b
  OBVIOUS
<1> DEFINE h == L(fate)
<1> HIDE DEF L, seq, id, b
<1>5. Sending(h, to_node, "read", id, b, 0, 0) /\ h.replicas = 0
  <2>1. Sending(Start(fate), to_node, "read", id, b, 0, 0) /\ Start(fate).replicas = 0
    BY StartSends DEF id, b
  <2> QED BY <1>2, <1>3, <1>4, <2>1, ReadLoopSends
<1> QED BY <1>1, <1>5 DEF id, b

LEMMA WriteSentSends ==
    ASSUME NEW c, NEW fd, NEW count \in Nat, WriteSent(c, fd, count), ~Crash,
           file_cursors[fd].offset \in Nat, request_id \in Nat,
           connected \subseteq Nodes, Wires(to_node),
           IsFiniteSet(DOMAIN chunk_to_node),
           Total(to_node, request_id + 1) = 0, Total(to_node, request_id + 2) = 0
    PROVE  \E h : /\ h.ok /\ Sent(h) /\ UNCHANGED machines
                  /\ WriteStarted(c, fd, count, h)
                  /\ Sending(h, to_node, "write", request_id + 1, request_id + 2, 0, 0)
<1> DEFINE id == request_id + 1
           rid == request_id + 2
           file == FileOf(fd)
           seq == Spans(StripeSize, ChunkSize, file_cursors[fd].offset, count)
           L(fate) == FoldLeft(LAMBDA h, s : WriteSpan(h, id, id + 1, file, s),
                               Start(fate), seq)
<1>1. PICK fate \in Fates : LET h == L(fate) IN
          h.ok /\ Sent(h) /\ UNCHANGED machines /\ WriteStarted(c, fd, count, h)
  BY DEF WriteSent, WriteStarted, WriteRequest, get_new_request_id
<1>2. L(fate) = WriteLoop!Loop(id, id + 1, file, Start(fate), seq)
  BY DEF WriteLoop!Loop, WriteTurn, FoldLeft, WriteLoop!FoldLeft,
     MapThenFoldSet, WriteLoop!MapThenFoldSet, Max, WriteLoop!Max
<1>3. PICK n \in Nat : DOMAIN seq = 1 .. n
  <2>1. StripeSize \in Nat /\ StripeSize # 0 /\ ChunkSize \in Nat /\ ChunkSize # 0
    BY SizesAssumption
  <2> DEFINE G == GoodSpans(StripeSize, ChunkSize, file_cursors[fd].offset, count)
  <2>2. seq \in Seq(G)
    BY <2>1, SpansRun
  <2> HIDE DEF G, seq
  <2> QED BY <2>2
<1>4. id # rid /\ id + 1 = rid
  OBVIOUS
<1> DEFINE h == L(fate)
<1> HIDE DEF L, seq, id, rid
<1>5. Sending(h, to_node, "write", id, rid, 0, 0)
  <2>1. Sending(Start(fate), to_node, "write", id, rid, 0, 0)
    BY StartSends DEF id, rid
  <2> QED BY <1>2, <1>3, <1>4, <2>1, WriteLoopSends
<1> QED BY <1>1, <1>5 DEF id, rid

LEMMA DeleteSentSends ==
    ASSUME NEW c, NEW path, DeleteSent(c, path), ~Crash, request_id \in Nat,
           connected \subseteq Nodes, Wires(to_node),
           IsFiniteSet(DOMAIN chunk_to_node),
           Total(to_node, request_id + 1) = 0, Total(to_node, request_id + 2) = 0
    PROVE  \E h : /\ h.ok /\ Sent(h) /\ UNCHANGED machines
                  /\ DeleteStarted(c, path, h)
                  /\ h.replicas = 0
                  /\ Sending(h, to_node, "delete", request_id + 1, request_id + 2, 0, 0)
<1> DEFINE id == request_id + 1
           b == request_id + 2
           file == pathname_to_file_id[path]
           seq == AllChunks(file)
           L(fate) == FoldLeft(LAMBDA h, ch : DeleteOne(h, id, ch), Start(fate), seq)
<1>1. PICK fate \in Fates : LET h == L(fate) IN
          h.ok /\ Sent(h) /\ UNCHANGED machines /\ DeleteStarted(c, path, h)
  BY DEF DeleteSent, DeleteStarted, DeleteRequest, get_new_request_id
<1>2. L(fate) = DeleteLoop!Loop(id, b, 0, Start(fate), seq)
  BY DEF DeleteLoop!Loop, DeleteTurn, FoldLeft, DeleteLoop!FoldLeft,
     MapThenFoldSet, DeleteLoop!MapThenFoldSet, Max, DeleteLoop!Max
<1>3. PICK n \in Nat : DOMAIN seq = 1 .. n
  <2> DEFINE S == {k \in DOMAIN chunk_to_node : k[1] = file}
  <2>1. S \subseteq DOMAIN chunk_to_node
    OBVIOUS
  <2>2. Cardinality(S) \in Nat
    BY <2>1, FS_Subset, FS_CardinalityType
  <2>3. DOMAIN seq = 1 .. Cardinality(S)
    BY DEF AllChunks, Sorted
  <2> QED BY <2>2, <2>3
<1>4. id # b
  OBVIOUS
<1> DEFINE h == L(fate)
<1> HIDE DEF L, seq, id, b
<1>5. Sending(h, to_node, "delete", id, b, 0, 0) /\ h.replicas = 0
  <2>1. Sending(Start(fate), to_node, "delete", id, b, 0, 0) /\ Start(fate).replicas = 0
    BY StartSends DEF id, b
  <2> QED BY <1>2, <1>3, <1>4, <2>1, DeleteLoopSends
<1> QED BY <1>1, <1>5 DEF id, b

-------------------------------------------------------------------------------
(* Files, sizes and cursors *)

\* A cursor is of a file that was created, and not past its end if it is there.
CursorsGood(cursors) ==
    \A fd \in DOMAIN cursors :
        /\ cursors[fd] \in [client : Procs, file : 1 .. next_file_id, offset : Nat]
        /\ cursors[fd].file \in DOMAIN metadata =>
              cursors[fd].offset <= metadata[cursors[fd].file].size

\* Every path leads to the metadata of its file, and back.
PathsGood ==
    /\ DOMAIN pathname_to_file_id \subseteq Paths
    /\ \A path \in DOMAIN pathname_to_file_id :
          /\ pathname_to_file_id[path] \in DOMAIN metadata
          /\ metadata[pathname_to_file_id[path]].path = path

FilesGood ==
    /\ DOMAIN metadata \subseteq 1 .. next_file_id
    /\ \A f \in DOMAIN metadata : metadata[f] \in [path : Paths, size : 0 .. MaxSize]

Bounds == last_fd <= MaxFds /\ request_id <= MaxRequests

Sizes == CursorsGood(file_cursors) /\ PathsGood /\ FilesGood /\ Bounds

\* set_file_cursor clips the offset to the file's size.
LEMMA SetCursorGood ==
    ASSUME FilesGood, NEW cursors, CursorsGood(cursors), NEW c, NEW fd,
           NEW offset \in Nat, NEW new \in SetCursor(cursors, c, fd, offset)
    PROVE  CursorsGood(new) /\ DOMAIN new = DOMAIN cursors
<1>1. CASE new = cursors
  BY <1>1
<1>2. CASE fd \in DOMAIN cursors /\ new # cursors
  <2> DEFINE k == cursors[fd]
  <2>1. PICK o \in Clipped(k.file, offset) : new = [cursors EXCEPT ![fd].offset = o]
    BY <1>2 DEF SetCursor
  <2>2. k \in [client : Procs, file : 1 .. next_file_id, offset : Nat]
    BY <1>2 DEF CursorsGood
  <2>3. /\ o \in Nat
        /\ k.file \in DOMAIN metadata => o <= metadata[k.file].size
    <3>1. CASE k.file \in DOMAIN metadata
      <4>1. metadata[k.file].size \in Nat
        BY <3>1, SizesAssumption DEF FilesGood
      <4>2. o = Smaller(offset, metadata[k.file].size)
        BY <2>1, <3>1 DEF Clipped, SizeOf
      <4> QED BY <4>1, <4>2 DEF Smaller
    <3>2. CASE k.file \notin DOMAIN metadata
      BY <2>1, <3>2 DEF Clipped
    <3> QED BY <3>1, <3>2
  <2> DEFINE j == [k EXCEPT !.offset = o]
  <2>4. /\ j \in [client : Procs, file : 1 .. next_file_id, offset : Nat]
        /\ j.file = k.file /\ j.offset = o
    BY <2>2, <2>3
  <2>5. /\ DOMAIN new = DOMAIN cursors /\ new[fd] = j
        /\ \A i \in DOMAIN new : i # fd => new[i] = cursors[i]
    BY <1>2, <2>1
  <2> HIDE DEF k, j
  <2> QED BY <2>3, <2>4, <2>5 DEF CursorsGood
<1> QED BY <1>1, <1>2 DEF SetCursor

\* Steps that leave the metadata alone.
LEMMA SameFiles ==
    ASSUME Sizes, UNCHANGED <<pathname_to_file_id, metadata, next_file_id>>,
           CursorsGood(file_cursors'), Bounds'
    PROVE  Sizes'
  BY DEF Sizes, CursorsGood, PathsGood, FilesGood

\* file_seek moves through set_file_cursor.
LEMMA SeekKeepsSizes ==
    ASSUME Sizes, NEW c, NEW fd, NEW whence, NEW offset \in Nat,
           file_seek(c, fd, whence, offset)
    PROVE  Sizes'
<1>1. UNCHANGED <<pathname_to_file_id, metadata, next_file_id, last_fd, request_id>>
  BY DEF file_seek, fileMeta
<1>2. FilesGood /\ CursorsGood(file_cursors)
  BY DEF Sizes
<1>3. ASSUME NEW cursors, CursorsGood(cursors), fd \in DOMAIN cursors
      PROVE  cursors[fd].offset + offset \in Nat
  BY <1>3 DEF CursorsGood
<1>4. CursorsGood(file_cursors')
  <2>1. CASE file_cursors' \in SetCursor(file_cursors, c, fd, MaxSize)
    BY <1>2, <2>1, SetCursorGood, SizesAssumption
  <2>2. ASSUME NEW mid \in SetCursor(file_cursors, c, fd, 0),
               IF fd \in DOMAIN mid
               THEN file_cursors' \in
                        SetCursor(mid, c, fd, mid[fd].offset + offset)
               ELSE file_cursors' = mid
        PROVE  CursorsGood(file_cursors')
    <3>1. CursorsGood(mid)
      BY <1>2, SetCursorGood
    <3> QED BY <1>2, <1>3, <2>2, <3>1, SetCursorGood
  <2>3. CASE IF fd \in DOMAIN file_cursors
             THEN file_cursors' \in
                    SetCursor(file_cursors, c, fd,
                              file_cursors[fd].offset + offset)
             ELSE UNCHANGED file_cursors
    BY <1>2, <1>3, <2>3, SetCursorGood
  <2> QED BY <2>1, <2>2, <2>3 DEF file_seek
<1>5. Bounds'
  BY <1>1 DEF Sizes, Bounds
<1> QED BY <1>1, <1>4, <1>5, SameFiles

\* close_file drops a cursor.
LEMMA CloseKeepsSizes ==
    ASSUME Sizes, NEW c, NEW fd, close_file(c, fd)
    PROVE  Sizes'
<1>1. /\ UNCHANGED <<pathname_to_file_id, metadata, next_file_id, last_fd, request_id>>
      /\ file_cursors' = file_cursors \/ file_cursors' = Drop(file_cursors, fd)
  BY DEF close_file, fileMeta
<1>2. CursorsGood(file_cursors')
  BY <1>1 DEF Sizes, CursorsGood, Drop
<1>3. Bounds'
  BY <1>1 DEF Sizes, Bounds
<1> QED BY <1>1, <1>2, <1>3, SameFiles

\* The cursor of a file that is opened: its start, or its end to append.
LEMMA NewCursorGood ==
    ASSUME CursorsGood(file_cursors), NEW c \in Procs, NEW file, NEW flags, NEW size,
           OpenGranted(c, file, flags, size)
    PROVE  /\ last_fd' = last_fd + 1 /\ last_fd < MaxFds
           /\ file_cursors' = Add(file_cursors, last_fd + 1,
                [client |-> c, file |-> file,
                 offset |-> IF flags.append THEN size ELSE 0])
<1> DEFINE k == [client |-> c, file |-> file, offset |-> 0]
           o == IF flags.append THEN size ELSE 0
           f == Add(file_cursors, last_fd + 1, k)
<1>1. /\ last_fd' = last_fd + 1 /\ last_fd < MaxFds
      /\ file_cursors' = [f EXCEPT ![last_fd + 1].offset = o]
  BY DEF OpenGranted, get_new_fd, new_file_cursor
<1>2. /\ DOMAIN f = DOMAIN file_cursors \cup {last_fd + 1} /\ f[last_fd + 1] = k
      /\ \A i \in DOMAIN file_cursors : i # last_fd + 1 => f[i] = file_cursors[i]
      /\ f = [i \in DOMAIN f |-> f[i]]
  BY DEF Add
<1>3. [k EXCEPT !.offset = o] = [client |-> c, file |-> file, offset |-> o]
  OBVIOUS
<1> HIDE DEF k, o
<1>4. [f EXCEPT ![last_fd + 1].offset = o]
        = Add(file_cursors, last_fd + 1, [client |-> c, file |-> file, offset |-> o])
  <2> HIDE DEF f
  <2> QED BY <1>2, <1>3 DEF Add
<1> QED BY <1>1, <1>4 DEF o

\* open_file creates path, metadata and cursor together.
LEMMA OpenKeepsSizes ==
    ASSUME UsersInv, Sizes, NEW c \in Procs, NEW path \in Paths, NEW flags,
           open_file(c, path, flags)
    PROVE  Sizes'
<1>0. /\ CursorsGood(file_cursors) /\ PathsGood /\ FilesGood /\ Bounds
      /\ last_fd \in Nat /\ MaxFds \in Nat /\ next_file_id \in Nat /\ MaxSize \in Nat
      /\ UNCHANGED request_id
  BY SizesAssumption DEF UsersInv, Sizes, Files, Numbers, open_file
<1>1. CASE OpenMissing(c, path, flags) \/ OpenInUse(c, path, flags)
  <2>1. UNCHANGED <<pathname_to_file_id, metadata, next_file_id, file_cursors, last_fd>>
    BY <1>1 DEF OpenMissing, OpenInUse, fileMeta, fds
  <2> QED BY <1>0, <2>1, SameFiles DEF Bounds
<1>2. CASE OpenExisting(c, path, flags)
  <2> DEFINE file == pathname_to_file_id[path]
             size == metadata[file].size
             k == [client |-> c, file |-> file,
                   offset |-> IF flags.append THEN size ELSE 0]
  <2>1. /\ path \in DOMAIN pathname_to_file_id
        /\ OpenGranted(c, file, flags, size)
        /\ UNCHANGED <<pathname_to_file_id, metadata, next_file_id>>
    BY <1>2 DEF OpenExisting, SizeOf, fileMeta
  <2>2. last_fd' = last_fd + 1 /\ last_fd < MaxFds
        /\ file_cursors' = Add(file_cursors, last_fd + 1, k)
    BY <1>0, <2>1, NewCursorGood
  <2>3. file \in DOMAIN metadata /\ file \in 1 .. next_file_id /\ size \in Nat
    BY <1>0, <2>1 DEF PathsGood, FilesGood
  <2>4. /\ k \in [client : Procs, file : 1 .. next_file_id, offset : Nat]
        /\ k.file = file /\ k.offset <= size
    BY <2>3
  <2> HIDE DEF k, size, file
  <2>5. CursorsGood(file_cursors')
    BY <1>0, <2>2, <2>4 DEF CursorsGood, Add, size
  <2>6. Bounds'
    BY <1>0, <2>2 DEF Bounds
  <2> QED BY <2>1, <2>5, <2>6, SameFiles
<1>3. CASE OpenNew(c, path, flags)
  <2> DEFINE file == next_file_id + 1
             k == [client |-> c, file |-> file,
                   offset |-> IF flags.append THEN 0 ELSE 0]
             r == [path |-> path, size |-> 0]
  <2>1. /\ path \notin DOMAIN pathname_to_file_id
        /\ OpenGranted(c, file, flags, 0)
        /\ next_file_id' = file
        /\ metadata' = Add(metadata, file, r)
        /\ pathname_to_file_id' = Add(pathname_to_file_id, path, file)
    BY <1>3 DEF OpenNew, add_file, get_new_file_id
  <2>2. last_fd' = last_fd + 1 /\ last_fd < MaxFds
        /\ file_cursors' = Add(file_cursors, last_fd + 1, k)
    BY <1>0, <2>1, NewCursorGood
  <2>3. /\ r \in [path : Paths, size : 0 .. MaxSize] /\ r.path = path /\ r.size = 0
        /\ file \in 1 .. next_file_id' /\ file \notin 1 .. next_file_id
        /\ 1 .. next_file_id \subseteq 1 .. next_file_id'
    BY <1>0, <2>1
  <2>4. k \in [client : Procs, file : 1 .. next_file_id', offset : Nat]
        /\ k.file = file /\ k.offset = 0
    BY <2>3
  <2> HIDE DEF k, r, file
  <2>5. DOMAIN metadata' = DOMAIN metadata \cup {file} /\ metadata'[file] = r
        /\ \A f \in DOMAIN metadata : f # file /\ metadata'[f] = metadata[f]
    <3>1. \A f \in DOMAIN metadata : f # file
      BY <1>0, <2>3 DEF FilesGood
    <3> QED BY <2>1, <3>1 DEF Add
  <2>6. FilesGood'
    BY <1>0, <2>3, <2>5 DEF FilesGood
  <2>7. PathsGood'
    BY <1>0, <2>1, <2>3, <2>5 DEF PathsGood, Add
  <2>8. CursorsGood(file_cursors)'
    <3>1. ASSUME NEW fd \in DOMAIN file_cursors
          PROVE  /\ file_cursors[fd] \in [client : Procs, file : 1 .. next_file_id',
                                           offset : Nat]
                 /\ file_cursors[fd].file \in DOMAIN metadata' =>
                       file_cursors[fd].offset <= metadata'[file_cursors[fd].file].size
      <4>1. /\ file_cursors[fd] \in [client : Procs, file : 1 .. next_file_id,
                                      offset : Nat]
            /\ file_cursors[fd].file \in DOMAIN metadata =>
                  file_cursors[fd].offset <= metadata[file_cursors[fd].file].size
        BY <1>0 DEF CursorsGood
      <4>2. file_cursors[fd].file # file
        BY <2>3, <4>1
      <4> QED BY <2>3, <2>5, <4>1, <4>2
    <3>2. 0 <= 0
      OBVIOUS
    <3> QED BY <2>2, <2>3, <2>4, <2>5, <3>1, <3>2 DEF CursorsGood, Add
  <2>9. Bounds'
    BY <1>0, <2>2 DEF Bounds
  <2> QED BY <2>6, <2>7, <2>8, <2>9 DEF Sizes
<1> QED BY <1>1, <1>2, <1>3 DEF open_file

\* read_file moves the cursor not past the end.
LEMMA ReadKeepsSizes ==
    ASSUME UsersInv, Sizes, NEW c \in Procs, NEW fd, NEW count \in Nat,
           read_file(c, fd, count)
    PROVE  Sizes'
<1>0. /\ CursorsGood(file_cursors) /\ FilesGood /\ Bounds /\ request_id < MaxRequests
      /\ request_id \in Nat /\ MaxRequests \in Nat
  BY SizesAssumption DEF Sizes, UsersInv, Numbers, read_file
<1>1. CASE ReadRefused(c, fd, count)
  <2>1. /\ UNCHANGED <<pathname_to_file_id, metadata, next_file_id, file_cursors, last_fd>>
        /\ request_id' = request_id + 1
    BY <1>1 DEF ReadRefused, fileMeta, fds, get_new_request_id
  <2> QED BY <1>0, <2>1, SameFiles DEF Bounds
<1>2. CASE Crash
  <2>1. UNCHANGED <<pathname_to_file_id, metadata, next_file_id, file_cursors,
                    last_fd, request_id>>
    BY <1>2 DEF Crash, fileMeta, fds
  <2> QED BY <1>0, <2>1, SameFiles DEF Bounds
<1>3. CASE ReadSent(c, fd, count) /\ ~Crash
  <2>1. PICK h : ReadStarted(c, fd, count, h)
    BY <1>3, ReadSentDoes
  <2>2. fd \in DOMAIN file_cursors
    BY <2>1, LockedFile DEF ReadStarted, ReadVerdict, Proceed, FILE_NOT_OPEN_FOR_READ
  <2>3. file_cursors[fd].offset + count \in Nat
    BY <1>0, <2>2 DEF CursorsGood
  <2>4. CursorsGood(file_cursors')
    BY <1>0, <2>1, <2>3, SetCursorGood DEF ReadStarted
  <2>5. Bounds'
    BY <1>0, <2>1 DEF ReadStarted, Bounds, get_new_request_id
  <2> QED BY <2>1, <2>4, <2>5, SameFiles DEF ReadStarted, fileMeta
<1> QED BY <1>1, <1>2, <1>3 DEF read_file

\* write_file lets the file grow before it moves the cursor, and not over MaxSize.
LEMMA WriteKeepsSizes ==
    ASSUME UsersInv, Sizes, NEW c \in Procs, NEW fd, NEW count \in Nat,
           write_file(c, fd, count)
    PROVE  Sizes'
<1>0. /\ CursorsGood(file_cursors) /\ FilesGood /\ PathsGood /\ Bounds
      /\ request_id + 1 < MaxRequests
      /\ request_id \in Nat /\ MaxRequests \in Nat /\ MaxSize \in Nat
  BY SizesAssumption DEF Sizes, UsersInv, Numbers, write_file
<1>1. CASE WriteRefused(c, fd, count)
  <2>1. /\ UNCHANGED <<pathname_to_file_id, metadata, next_file_id, file_cursors, last_fd>>
        /\ request_id' = request_id + 2
    BY <1>1 DEF WriteRefused, fileMeta, fds
  <2> QED BY <1>0, <2>1, SameFiles DEF Bounds
<1>2. CASE Crash
  <2>1. UNCHANGED <<pathname_to_file_id, metadata, next_file_id, file_cursors,
                    last_fd, request_id>>
    BY <1>2 DEF Crash, fileMeta, fds
  <2> QED BY <1>0, <2>1, SameFiles DEF Bounds
<1>3. CASE WriteSent(c, fd, count) /\ ~Crash
  <2>1. PICK h : WriteStarted(c, fd, count, h)
    BY <1>3, WriteSentDoes
  <2> DEFINE file == FileOf(fd)
             k == file_cursors[fd]
             r == metadata[file]
             grown == [r EXCEPT !.size = @ + count]
             moved == [k EXCEPT !.offset = @ + count]
  <2>2. fd \in DOMAIN file_cursors /\ file = k.file /\ file \in DOMAIN metadata
    BY <2>1, LockedFile DEF WriteStarted, WriteVerdict, Proceed, FileOf, HasLock,
       FILE_NOT_OPEN_FOR_WRITE, UNABLE_TO_STAT_FILE
  <2>3. /\ metadata' = [metadata EXCEPT ![file] = grown]
        /\ r.size + count <= MaxSize
        /\ UNCHANGED <<pathname_to_file_id, next_file_id, last_fd>>
        /\ request_id' = request_id + 2
    BY <1>0, <2>1, <2>2 DEF WriteStarted, update_file_size, SizeOf, get_new_request_id
  <2>4. /\ r \in [path : Paths, size : 0 .. MaxSize]
        /\ k \in [client : Procs, file : 1 .. next_file_id, offset : Nat]
        /\ k.offset <= r.size
    BY <1>0, <2>2 DEF FilesGood, CursorsGood
  <2>5. /\ grown.path = r.path /\ grown.size = r.size + count
        /\ grown \in [path : Paths, size : 0 .. MaxSize]
    BY <1>0, <2>3, <2>4
  <2>6. /\ moved.file = k.file /\ moved.offset = k.offset + count
        /\ moved \in [client : Procs, file : 1 .. next_file_id, offset : Nat]
    BY <2>4
  <2>7. \/ file_cursors' = file_cursors
        \/ file_cursors' = [file_cursors EXCEPT ![fd] = moved]
    BY <2>1, <2>2 DEF WriteStarted
  <2> HIDE DEF grown, moved
  <2>8. /\ DOMAIN metadata' = DOMAIN metadata /\ metadata'[file] = grown
        /\ \A f \in DOMAIN metadata : f # file => metadata'[f] = metadata[f]
    BY <2>2, <2>3
  <2> HIDE DEF file, k, r
  <2>9. FilesGood'
    BY <1>0, <2>3, <2>5, <2>8 DEF FilesGood
  <2>10. PathsGood'
    <3>1. \A f \in DOMAIN metadata : metadata'[f].path = metadata[f].path
      BY <2>5, <2>8 DEF r
    <3> QED BY <1>0, <2>3, <2>8, <3>1 DEF PathsGood
  <2>11. \A f \in DOMAIN metadata : /\ metadata[f].size \in Nat
                                    /\ metadata'[f].size \in Nat
                                    /\ metadata[f].size <= metadata'[f].size
    <3>1. \A f \in DOMAIN metadata : metadata[f].size \in Nat /\ metadata'[f].size \in Nat
      BY <1>0, <2>8, <2>9 DEF FilesGood
    <3>2. metadata[file].size <= metadata'[file].size
      BY <2>2, <2>5, <2>8, <3>1 DEF r
    <3> QED BY <2>8, <3>1, <3>2
  <2>12. ASSUME NEW j \in DOMAIN file_cursors, file_cursors'[j] = file_cursors[j]
         PROVE  /\ file_cursors'[j] \in [client : Procs, file : 1 .. next_file_id',
                                          offset : Nat]
                /\ file_cursors'[j].file \in DOMAIN metadata' =>
                      file_cursors'[j].offset <= metadata'[file_cursors'[j].file].size
    <3>1. /\ file_cursors[j] \in [client : Procs, file : 1 .. next_file_id, offset : Nat]
          /\ file_cursors[j].file \in DOMAIN metadata =>
                file_cursors[j].offset <= metadata[file_cursors[j].file].size
      BY <1>0 DEF CursorsGood
    <3>2. file_cursors[j].offset \in Nat
      BY <3>1
    <3> QED BY <2>3, <2>8, <2>11, <2>12, <3>1, <3>2
  <2>13. moved.file \in DOMAIN metadata' => moved.offset <= metadata'[moved.file].size
    <3>1. moved.file = file /\ metadata'[file].size = r.size + count
      BY <2>2, <2>5, <2>6, <2>8
    <3>2. k.offset \in Nat /\ r.size \in Nat /\ k.offset <= r.size
      BY <2>4
    <3> QED BY <2>6, <3>1, <3>2
  <2>14. CursorsGood(file_cursors)'
    <3>1. CASE file_cursors' = file_cursors
      BY <2>12, <3>1 DEF CursorsGood
    <3>2. CASE file_cursors' = [file_cursors EXCEPT ![fd] = moved]
      <4>1. /\ DOMAIN file_cursors' = DOMAIN file_cursors
            /\ file_cursors'[fd] = moved
            /\ \A j \in DOMAIN file_cursors : j # fd => file_cursors'[j] = file_cursors[j]
        BY <2>2, <3>2
      <4> QED BY <2>3, <2>6, <2>12, <2>13, <4>1 DEF CursorsGood
    <3> QED BY <2>7, <3>1, <3>2
  <2>15. Bounds'
    BY <1>0, <2>3 DEF Bounds
  <2> QED BY <2>9, <2>10, <2>14, <2>15 DEF Sizes
<1> QED BY <1>1, <1>2, <1>3 DEF write_file, WriteSent

\* delete_file changes neither metadata nor cursors.
LEMMA DeleteKeepsSizes ==
    ASSUME UsersInv, Sizes, NEW c \in Procs, NEW path, delete_file(c, path)
    PROVE  Sizes'
<1>0. /\ CursorsGood(file_cursors) /\ Bounds /\ request_id < MaxRequests
      /\ request_id \in Nat /\ MaxRequests \in Nat
  BY SizesAssumption DEF Sizes, UsersInv, Numbers, delete_file
<1>1. /\ UNCHANGED <<pathname_to_file_id, metadata, next_file_id, file_cursors, last_fd>>
      /\ request_id' \in {request_id, request_id + 1}
  <2>1. CASE DeleteRefused(c, path)
    BY <2>1 DEF DeleteRefused, fileMeta, fds, get_new_request_id
  <2>2. CASE Crash
    BY <2>2 DEF Crash, fileMeta, fds
  <2>3. CASE DeleteSent(c, path) /\ ~Crash
    BY <2>3, DeleteSentDoes DEF DeleteStarted, fileMeta, fds, get_new_request_id
  <2> QED BY <2>1, <2>2, <2>3 DEF delete_file
<1> QED BY <1>0, <1>1, SameFiles DEF Bounds

\* The metadata of the file and its path go together.
LEMMA DeleteResponseKeepsSizes ==
    ASSUME Sizes, NEW n, delete_response_handler(n)
    PROVE  Sizes'
<1>0. CursorsGood(file_cursors) /\ PathsGood /\ FilesGood /\ Bounds
  BY DEF Sizes
<1>1. UNCHANGED <<next_file_id, file_cursors, last_fd, request_id>>
  BY DEF delete_response_handler, fds
<1>2. CASE UNCHANGED <<pathname_to_file_id, metadata>>
  BY <1>0, <1>1, <1>2, SameFiles DEF Bounds
<1>3. ASSUME NEW file, delete_file_contents(file) PROVE Sizes'
  <2>1. metadata' = Drop(metadata, file)
    BY <1>3 DEF delete_file_contents
  <2>2. /\ DOMAIN metadata' = DOMAIN metadata \ {file}
        /\ \A f \in DOMAIN metadata' : metadata'[f] = metadata[f]
    BY <2>1 DEF Drop
  <2>3. FilesGood'
    BY <1>0, <1>1, <2>2 DEF FilesGood
  <2>4. CursorsGood(file_cursors)'
    BY <1>0, <1>1, <2>2 DEF CursorsGood
  <2>5. PathsGood'
    <3>1. CASE file \in DOMAIN metadata
      <4>1. pathname_to_file_id' = Drop(pathname_to_file_id, metadata[file].path)
        BY <1>3, <3>1 DEF delete_file_contents
      <4> QED BY <1>0, <2>2, <4>1 DEF PathsGood, Drop
    <3>2. CASE file \notin DOMAIN metadata
      <4>1. pathname_to_file_id' = pathname_to_file_id
        BY <1>3, <3>2 DEF delete_file_contents
      <4> QED BY <1>0, <2>2, <3>2, <4>1 DEF PathsGood
    <3> QED BY <3>1, <3>2
  <2>6. Bounds'
    BY <1>0, <1>1 DEF Bounds
  <2> QED BY <2>3, <2>4, <2>5, <2>6 DEF Sizes
<1> QED BY <1>2, <1>3 DEF delete_response_handler, DeleteComplete

\* Sizes holds at the start, and every step keeps it.
LEMMA InitSizes == Init => Sizes
<1> SUFFICES ASSUME Init PROVE Sizes
  OBVIOUS
<1>1. /\ DOMAIN EmptyMap = {}
      /\ metadata = EmptyMap /\ pathname_to_file_id = EmptyMap
      /\ file_cursors = EmptyMap /\ last_fd = 0 /\ request_id = 0
  BY DEF Init, EmptyMap
<1> QED BY <1>1, SizesAssumption
        DEF Sizes, CursorsGood, PathsGood, FilesGood, Bounds

LEMMA NextSizes == UsersInv /\ Sizes /\ [Next]_vars => Sizes'
<1> SUFFICES ASSUME UsersInv, Sizes, [Next]_vars PROVE Sizes'
  OBVIOUS
<1>1. ASSUME UNCHANGED <<fileMeta, fds, request_id>> PROVE Sizes'
  BY <1>1, SameFiles DEF Sizes, Bounds, fileMeta, fds
<1>2. CASE UNCHANGED vars
  BY <1>1, <1>2 DEF vars
<1>3. ASSUME NEW c \in Procs, ClientCall(c) PROVE Sizes'
  <2>1. ASSUME NEW path \in StatPaths, file_storage_stat(c, path) PROVE Sizes'
    BY <1>1, <2>1 DEF file_storage_stat
  <2>2. Counts \subseteq Nat /\ \A s \in Seeks : s[2] \in Nat
    BY SizesAssumption
  <2> QED BY <1>3, <2>1, <2>2, OpenKeepsSizes, DeleteKeepsSizes, CloseKeepsSizes,
             ReadKeepsSizes, WriteKeepsSizes, SeekKeepsSizes DEF ClientCall
<1>4. ASSUME NEW c \in Procs, ClientEnds(c) PROVE Sizes'
  BY <1>1, <1>4 DEF ClientEnds
<1>5. ASSUME NEW n \in Nodes, NodeAnswer(n) PROVE Sizes'
  BY <1>1, <1>5, DeleteResponseKeepsSizes
  DEF NodeAnswer, read_response_handler, write_response_handler
<1>6. ASSUME NEW n \in Nodes,
             Espresso(n) \/ NodeDies(n) \/ NodeGone(n) \/ NodeReturns(n)
      PROVE  Sizes'
  BY <1>1, <1>6 DEF Espresso, NodeDies, NodeGone, NodeReturns
<1> QED BY <1>2, <1>3, <1>4, <1>5, <1>6 DEF Next

-------------------------------------------------------------------------------
(* Requests and their messages *)

Ops == {"read", "write", "delete"}

\* A message of this kind and id is on some connection.
OnWire(op, id) ==
    \E n \in Nodes : \E q \in {to_node[n], from_node[n]} : \E i \in DOMAIN q :
        q[i].op = op /\ q[i].id = id

AllKnown == \A op, id : OnWire(op, id) => op \in Ops /\ Known(op, id)

Balanced ==
    /\ \A id \in DOMAIN active_reads :
          Accounted(id, active_reads[id].expected - active_reads[id].received)
    /\ \A id \in DOMAIN active_writes :
          /\ Accounted(id, active_writes[id].expected - active_writes[id].received)
          /\ Accounted(active_writes[id].replica,
                       active_writes[id].replica_expected
                           - active_writes[id].replica_received)
    /\ \A id \in DOMAIN active_deletes :
          Accounted(id, active_deletes[id].expected - active_deletes[id].received)

Waits(r) == /\ {"expected", "received"} \subseteq DOMAIN r
            /\ r.expected \in Nat /\ r.received \in Nat

\* A delete is answered as soon as all its answers are there.
Pending(d) == d.expected = 0 \/ d.received # d.expected

WaitsTwice(w) ==
    /\ Waits(w)
    /\ {"replica", "replica_expected", "replica_received"} \subseteq DOMAIN w
    /\ w.replica_expected \in Nat /\ w.replica_received \in Nat

\* No id is of two requests, or of a request and of the replicas of a write.
Apart ==
    /\ \A id \in DOMAIN active_reads :
          id \notin DOMAIN active_writes /\ id \notin DOMAIN active_deletes
    /\ \A id \in DOMAIN active_deletes : id \notin DOMAIN active_writes
    /\ \A id \in DOMAIN active_writes :
          /\ active_writes[id].replica = id + 1
          /\ id + 1 <= request_id
          /\ id + 1 \notin DOMAIN active_reads
          /\ id + 1 \notin DOMAIN active_writes
          /\ id + 1 \notin DOMAIN active_deletes

RequestsGood ==
    /\ \A id \in DOMAIN active_reads : Waits(active_reads[id])
    /\ \A id \in DOMAIN active_deletes :
          Waits(active_deletes[id]) /\ Pending(active_deletes[id])
    /\ \A id \in DOMAIN active_writes : WaitsTwice(active_writes[id])
    /\ Apart

\* Until a node has died all run, and none has been started again.
Linked == /\ connected \subseteq Nodes
          /\ deaths \in Nat
          /\ deaths = 0 => /\ connected \subseteq alive
                          /\ alive = Nodes
                          /\ returned = {}

\* NoOrphanResponse with what makes it inductive: an answer is counted for one
\* request only, so it matters that ids are not shared.
NetInv == /\ Linked
          /\ Wires(to_node) /\ Wires(from_node)
          /\ IsFiniteSet(DOMAIN chunk_to_node)
          /\ RequestsGood
          /\ barista_up => AllKnown /\ Balanced

\* NetInv says more than NoOrphanResponse.
LEMMA NetInvOrphans == NetInv => NoOrphanResponse
<1> SUFFICES ASSUME NetInv, barista_up PROVE NoOrphanResponse
  BY DEF NoOrphanResponse
<1>1. AllKnown /\ Balanced
  BY DEF NetInv
<1>2. \A n \in Nodes : \A q \in {to_node[n], from_node[n]} :
          \A i \in DOMAIN q : Known(q[i].op, q[i].id)
  BY <1>1 DEF AllKnown, OnWire
<1> QED BY <1>1, <1>2 DEF NoOrphanResponse, Balanced

\* The number of messages under way is zero when there is none.
LEMMA InFlightNat ==
    ASSUME Wires(to_node), Wires(from_node), NEW x
    PROVE  /\ InFlight(x) \in Nat
           /\ Total(to_node, x) \in Nat /\ Total(from_node, x) \in Nat
           /\ InFlight(x) = 0 <=> \A op : ~OnWire(op, x)
           /\ InFlight(x) = 0 => Total(to_node, x) = 0 /\ Total(from_node, x) = 0
<1>1. /\ Total(to_node, x) \in Nat /\ Total(from_node, x) \in Nat
      /\ Total(to_node, x) = 0 <=>
            \A n \in Nodes : \A i \in DOMAIN to_node[n] : to_node[n][i].id # x
      /\ Total(from_node, x) = 0 <=>
            \A n \in Nodes : \A i \in DOMAIN from_node[n] : from_node[n][i].id # x
  BY TotalNat
<1>2. /\ InFlight(x) \in Nat
      /\ InFlight(x) = 0 <=> Total(to_node, x) = 0 /\ Total(from_node, x) = 0
  BY <1>1 DEF InFlight
<1>3. (\A op : ~OnWire(op, x)) <=>
        /\ \A n \in Nodes : \A i \in DOMAIN to_node[n] : to_node[n][i].id # x
        /\ \A n \in Nodes : \A i \in DOMAIN from_node[n] : from_node[n][i].id # x
  BY Zenon DEF OnWire
<1> QED BY <1>1, <1>2, <1>3

\* The number of messages after a step.
LEMMA InFlightPrimed ==
    ASSUME Wires(to_node)', Wires(from_node)', NEW CONSTANT x
    PROVE  InFlight(x)' \in Nat
<1>1. Total(to_node', x) \in Nat /\ Total(from_node', x) \in Nat
  BY TotalNat
<1> QED BY <1>1 DEF InFlight

\* Ids that have not been given out are on no message.
LEMMA FreshIds ==
    ASSUME UsersInv, NetInv, barista_up, NEW x \in Nat, x > request_id
    PROVE  InFlight(x) = 0
<1>1. /\ request_id \in Nat
      /\ DOMAIN active_reads \subseteq 1 .. request_id
      /\ DOMAIN active_writes \subseteq 1 .. request_id
      /\ DOMAIN active_deletes \subseteq 1 .. request_id
  BY DEF UsersInv, Numbers
<1>2. AllKnown /\ Apart /\ Wires(to_node) /\ Wires(from_node)
  BY DEF NetInv, RequestsGood
<1>3. x \notin 1 .. request_id
  BY <1>1
<1>4. WriteLookup(x) = {}
  <2> SUFFICES ASSUME NEW id \in DOMAIN active_writes, x \in {id, active_writes[id].replica}
               PROVE  FALSE
    BY DEF WriteLookup
  <2>1. x = id + 1 /\ id + 1 <= request_id /\ id \in 1 .. request_id
    BY <1>1, <1>2, <1>3 DEF Apart
  <2> QED BY <1>1, <2>1
<1>5. ASSUME NEW op, OnWire(op, x) PROVE FALSE
  <2>1. op \in Ops /\ Known(op, x)
    BY <1>2, <1>5 DEF AllKnown
  <2> QED BY <1>1, <1>3, <1>4, <2>1 DEF Known, Ops
<1> QED BY <1>2, <1>5, InFlightNat

-------------------------------------------------------------------------------
(* Steps that leave the requests alone *)

\* Steps that start and end no request.
LEMMA RequestsStay ==
    ASSUME UsersInv, NetInv,
           UNCHANGED <<active_reads, active_writes, active_deletes>>,
           request_id' \in Nat, request_id <= request_id'
    PROVE  RequestsGood'
<1>1. /\ request_id \in Nat /\ RequestsGood
      /\ DOMAIN active_writes \subseteq 1 .. request_id
  BY DEF UsersInv, Numbers, NetInv
<1>2. \A id \in DOMAIN active_writes : id + 1 <= request_id => id + 1 <= request_id'
  BY <1>1
<1> QED BY <1>1, <1>2 DEF RequestsGood, Apart

\* Messages move or are lost.
LEMMA MessagesMove ==
    ASSUME NetInv, UNCHANGED <<active_reads, active_writes, active_deletes>>,
           RequestsGood', barista_up' => barista_up,
           Wires(to_node)', Wires(from_node)', Linked',
           IsFiniteSet(DOMAIN chunk_to_node'),
           \A x : InFlight(x)' <= InFlight(x),
           deaths' = 0 => deaths = 0 /\ \A x : InFlight(x)' = InFlight(x),
           \A op, x : OnWire(op, x)' => OnWire(op, x)
    PROVE  NetInv'
<1> SUFFICES ASSUME barista_up' PROVE AllKnown' /\ Balanced'
  BY DEF NetInv
<1>1. AllKnown /\ Balanced /\ RequestsGood
  BY DEF NetInv
<1>2. \A op, x : Known(op, x)' <=> Known(op, x)
  BY DEF Known, WriteLookup
<1>3. AllKnown'
  BY <1>1, <1>2 DEF AllKnown
<1>4. ASSUME NEW x, NEW missing \in Int, Accounted(x, missing) PROVE Accounted(x, missing)'
  <2>1. InFlight(x) \in Nat
    BY InFlightNat DEF NetInv
  <2>2. InFlight(x)' \in Nat
    BY InFlightPrimed
  <2> QED BY <1>4, <2>1, <2>2 DEF Accounted
<1>5. Balanced'
  BY <1>1, <1>4 DEF Balanced, RequestsGood, Waits, WaitsTwice
<1> QED BY <1>3, <1>5

\* Steps that leave the connections alone too.
LEMMA NothingMoves ==
    ASSUME UsersInv, NetInv,
           UNCHANGED <<active_reads, active_writes, active_deletes, to_node,
                       from_node, chunk_to_node, deaths>>,
           Linked', barista_up' => barista_up,
           request_id' \in Nat, request_id <= request_id'
    PROVE  NetInv'
<1>1. Wires(to_node) /\ Wires(from_node) /\ IsFiniteSet(DOMAIN chunk_to_node)
  BY DEF NetInv
<1>2. /\ \A x : InFlight(x)' = InFlight(x)
      /\ \A op, x : OnWire(op, x)' => OnWire(op, x)
  BY DEF InFlight, OnWire
<1>3. \A x : InFlight(x) \in Nat
  BY <1>1, InFlightNat
<1>4. \A x : InFlight(x)' <= InFlight(x)
  BY <1>2, <1>3
<1> QED BY <1>1, <1>2, <1>4, RequestsStay, MessagesMove

\* A message leaves the connection it is on.
Behead(w, n) == [w EXCEPT ![n] = Tail(@)]

\* A message that leaves its connection is one less of its request, and no more.
LEMMA OneLess ==
    ASSUME NEW w, Wires(w), NEW n \in Nodes, w[n] # <<>>, NEW v, v = Behead(w, n)
    PROVE  /\ Wires(v)
           /\ \A x : Total(v, x) = Total(w, x) - Of(Head(w[n]), x)
           /\ \A k \in Nodes : \A i \in DOMAIN v[k] :
                  \E j \in DOMAIN w[k] : w[k][j] = v[k][i]
           /\ \E j \in DOMAIN w[n] : w[n][j] = Head(w[n])
<1> DEFINE q == Tail(w[n])
<1>0. v = [w EXCEPT ![n] = q]
  BY DEF Behead
<1>1. Listed(w[n])
  BY DEF Wires
<1>2. /\ Listed(q) /\ Len(w[n]) \in Nat \ {0} /\ DOMAIN w[n] = 1 .. Len(w[n])
      /\ DOMAIN q = 1 .. Len(w[n]) - 1
      /\ Head(w[n]) = w[n][1]
      /\ \A i \in DOMAIN q : q[i] = w[n][i + 1]
  BY <1>1, TailListed
<1> HIDE DEF q
<1>3. Wires(v) /\ \A x : Total(v, x) = Total(w, x) + Count(q, x) - Count(w[n], x)
  <2>1. Listed(q)
    BY <1>2
  <2> DEFINE u == [w EXCEPT ![n] = q]
  <2>2. Wires(u) /\ \A x : Total(u, x) = Total(w, x) + Count(q, x) - Count(w[n], x)
    BY <2>1, TotalChange, ZenonT(40)
  <2> HIDE DEF u
  <2>3. v = u
    BY <1>0 DEF u
  <2> QED BY <2>2, <2>3
<1>4. ASSUME NEW x PROVE Total(v, x) = Total(w, x) - Of(Head(w[n]), x)
  <2>1. Count(w[n], x) = Count(q, x) + Of(Head(w[n]), x)
    BY <1>1, CountTail DEF q
  <2> DEFINE o == Of(Head(w[n]), x)
  <2>2. Count(q, x) \in Nat /\ Total(w, x) \in Nat /\ o \in Nat
    BY <1>2, CountNat, TotalNat DEF Of
  <2> HIDE DEF o
  <2>3. Total(v, x) = Total(w, x) + Count(q, x) - Count(w[n], x)
    BY <1>3
  <2>4. Count(w[n], x) = Count(q, x) + o
    BY <2>1 DEF o
  <2>5. Total(v, x) = Total(w, x) - o
    BY <2>2, <2>3, <2>4
  <2> QED BY <2>5 DEF o
<1>5. ASSUME NEW k \in Nodes, NEW i \in DOMAIN v[k]
      PROVE  \E j \in DOMAIN w[k] : w[k][j] = v[k][i]
  <2>1. CASE k # n
    BY <1>0, <1>5, <2>1 DEF Wires
  <2>2. CASE k = n
    <3>1. v[k] = q
      BY <1>0, <2>2 DEF Wires
    <3>2. i \in 1 .. Len(w[n]) - 1 /\ v[k][i] = w[n][i + 1] /\ i + 1 \in 1 .. Len(w[n])
      BY <1>2, <1>5, <3>1
    <3> QED BY <1>2, <2>2, <3>2
  <2> QED BY <2>1, <2>2
<1>6. 1 \in DOMAIN w[n]
  BY <1>2
<1> QED BY <1>2, <1>3, <1>4, <1>5, <1>6

\* A node's answer takes the place of the request.
LEMMA EspressoKeepsNet ==
    ASSUME UsersInv, NetInv, NEW n \in Nodes, Espresso(n)
    PROVE  NetInv'
<1> DEFINE m == Head(to_node[n])
<1>1. PICK a : /\ from_node' = [from_node EXCEPT ![n] = Append(@, a)]
               /\ a.op = m.op /\ a.id = m.id
  BY DEF Espresso, Response
<1>2. /\ to_node[n] # <<>>
      /\ to_node' = [to_node EXCEPT ![n] = Tail(@)]
      /\ UNCHANGED <<active_reads, active_writes, active_deletes, chunk_to_node,
                     deaths, request_id, barista_up, connected, alive,
                     returned>>
  BY DEF Espresso, requests, maps
<1>3. Wires(to_node) /\ Wires(from_node) /\ IsFiniteSet(DOMAIN chunk_to_node) /\ Linked
      /\ request_id \in Nat
  BY DEF NetInv, UsersInv, Numbers
<1>4. /\ Wires(to_node')
      /\ \A x : Total(to_node', x) = Total(to_node, x) - Of(m, x)
      /\ \A k \in Nodes : \A i \in DOMAIN to_node'[k] :
             \E j \in DOMAIN to_node[k] : to_node[k][j] = to_node'[k][i]
      /\ \E j \in DOMAIN to_node[n] : to_node[n][j] = m
  <2>1. to_node' = Behead(to_node, n)
    BY <1>2 DEF Behead
  <2> QED BY <1>2, <1>3, <2>1, OneLess
<1> HIDE DEF m
<1>5. Wires(from_node') /\ Added(from_node', from_node, m.op, m.id, 1)
  BY <1>1, <1>3, AddedOne
<1>6. \A x : InFlight(x)' = InFlight(x) /\ InFlight(x)' <= InFlight(x)
  <2> TAKE x
  <2>1. Total(to_node, x) \in Nat /\ Total(from_node, x) \in Nat
    BY <1>3, InFlightNat
  <2>2. Total(from_node', x) = Total(from_node, x) + Of(m, x)
    BY <1>5 DEF Added, Of
  <2>3. Total(to_node', x) = Total(to_node, x) - Of(m, x) /\ Of(m, x) \in Nat
    BY <1>4 DEF Of
  <2> QED BY <2>1, <2>2, <2>3 DEF InFlight
<1>7. ASSUME NEW op, NEW x, OnWire(op, x)' PROVE OnWire(op, x)
  <2>1. PICK k \in Nodes : \/ \E i \in DOMAIN to_node'[k] :
                                to_node'[k][i].op = op /\ to_node'[k][i].id = x
                           \/ \E i \in DOMAIN from_node'[k] :
                                from_node'[k][i].op = op /\ from_node'[k][i].id = x
    BY <1>7 DEF OnWire
  <2>2. CASE \E i \in DOMAIN to_node'[k] : to_node'[k][i].op = op /\ to_node'[k][i].id = x
    BY <1>4, <2>2 DEF OnWire
  <2>3. CASE \E i \in DOMAIN from_node'[k] :
                from_node'[k][i].op = op /\ from_node'[k][i].id = x
    <3>1. PICK i \in DOMAIN from_node'[k] :
                from_node'[k][i].op = op /\ from_node'[k][i].id = x
      BY <2>3
    <3>2. \/ i \in DOMAIN from_node[k] /\ from_node'[k][i] = from_node[k][i]
          \/ from_node'[k][i].op = m.op /\ from_node'[k][i].id = m.id
      BY <1>5 DEF Added
    <3> QED BY <1>4, <3>1, <3>2 DEF OnWire
  <2> QED BY <2>1, <2>2, <2>3
<1>8. RequestsGood'
  BY <1>2, <1>3, RequestsStay
<1>9. Linked'
  BY <1>2, <1>3 DEF Linked
<1> QED BY <1>2, <1>3, <1>4, <1>5, <1>6, <1>7, <1>8, <1>9, MessagesMove

\* The messages of a node that dies are lost, and from then on a request may
\* wait for more than is under way.
LEMMA DeathKeepsNet ==
    ASSUME UsersInv, NetInv, NEW n \in Nodes, NodeDies(n)
    PROVE  NetInv'
<1>1. PICK kept \in {from_node[n], <<>>} :
          from_node' = [from_node EXCEPT ![n] = kept]
  BY DEF NodeDies
<1>2. /\ to_node' = [to_node EXCEPT ![n] = <<>>]
      /\ deaths' = deaths + 1
      /\ UNCHANGED <<active_reads, active_writes, active_deletes, chunk_to_node,
                     request_id, barista_up, connected>>
  BY DEF NodeDies, requests, maps
<1>3. Wires(to_node) /\ Wires(from_node) /\ IsFiniteSet(DOMAIN chunk_to_node) /\ Linked
      /\ request_id \in Nat /\ deaths \in Nat
  BY DEF NetInv, UsersInv, Numbers, Linked
<1>4. Listed(<<>>) /\ \A x : Count(<<>>, x) = 0
  <2>1. Listed(<<>>)
    <3>1. <<>> \in Seq({})
      OBVIOUS
    <3> QED BY <3>1 DEF Listed
  <2>2. DOMAIN <<>> = {}
    OBVIOUS
  <2> QED BY <2>1, <2>2, CountNat
<1>5. ASSUME NEW w, Wires(w), NEW q \in {w[n], <<>>}, NEW x
      PROVE  /\ Wires([w EXCEPT ![n] = q])
             /\ Total([w EXCEPT ![n] = q], x) \in Nat
             /\ Total(w, x) \in Nat
             /\ Total([w EXCEPT ![n] = q], x) <= Total(w, x)
  <2> DEFINE v == [w EXCEPT ![n] = q]
  <2>1. Listed(w[n]) /\ Listed(q)
    BY <1>4, <1>5 DEF Wires
  <2>2. Count(w[n], x) \in Nat /\ Count(q, x) \in Nat /\ Count(q, x) <= Count(w[n], x)
    <3>1. Count(w[n], x) \in Nat /\ Count(q, x) \in Nat
      BY <2>1, CountNat
    <3>2. Count(q, x) = Count(w[n], x) \/ Count(q, x) = 0
      BY <1>4
    <3> QED BY <3>1, <3>2
  <2>3. Wires(v) /\ Total(v, x) = Total(w, x) + Count(q, x) - Count(w[n], x)
    BY <1>5, <2>1, TotalChange
  <2>4. Total(w, x) \in Nat /\ Total(v, x) \in Nat
    BY <1>5, <2>3, TotalNat
  <2> HIDE DEF v
  <2>5. Total(v, x) <= Total(w, x)
    BY <2>2, <2>3, <2>4
  <2> QED BY <2>3, <2>4, <2>5 DEF v
<1>6. /\ Wires(to_node') /\ Wires(from_node')
      /\ \A x : /\ Total(to_node', x) \in Nat /\ Total(from_node', x) \in Nat
                /\ Total(to_node, x) \in Nat /\ Total(from_node, x) \in Nat
                /\ Total(to_node', x) <= Total(to_node, x)
                /\ Total(from_node', x) <= Total(from_node, x)
  BY <1>1, <1>2, <1>3, <1>5
<1>7. \A x : InFlight(x)' <= InFlight(x)
  BY <1>6 DEF InFlight
<1>8. ASSUME NEW k \in Nodes
      PROVE  to_node'[k] \in {to_node[k], <<>>} /\ from_node'[k] \in {from_node[k], <<>>}
  BY <1>1, <1>2, <1>3 DEF Wires
<1>9. ASSUME NEW op, NEW x, OnWire(op, x)' PROVE OnWire(op, x)
  <2>1. DOMAIN <<>> = {}
    OBVIOUS
  <2> QED BY <1>8, <1>9, <2>1 DEF OnWire
<1>10. deaths' # 0 /\ deaths' \in Nat
  BY <1>2, <1>3
<1>11. Linked'
  BY <1>2, <1>3, <1>10 DEF Linked
<1>12. RequestsGood'
  BY <1>2, <1>3, RequestsStay
<1> QED BY <1>2, <1>3, <1>6, <1>7, <1>9, <1>10, <1>11, <1>12, MessagesMove

-------------------------------------------------------------------------------
(* Answers *)

\* What it means for the messages under way that Barista takes an answer.
LEMMA AnswerTaken ==
    ASSUME NetInv, NEW n \in Nodes, from_node[n] # <<>>, Taken(n),
           NEW m, m = Head(from_node[n])
    PROVE  /\ Wires(to_node)' /\ Wires(from_node)'
           /\ \A x : InFlight(x) \in Nat /\ InFlight(x)' \in Nat
           /\ InFlight(m.id)' = InFlight(m.id) - 1
           /\ \A x : x # m.id => InFlight(x)' = InFlight(x)
           /\ OnWire(m.op, m.id)
           /\ \A op, x : OnWire(op, x)' => OnWire(op, x) /\ InFlight(x)' # 0
           /\ connected' = connected
<1>1. /\ Wires(to_node) /\ Wires(from_node)
      /\ from_node' = Behead(from_node, n) /\ to_node' = to_node
      /\ connected' = connected
  BY DEF NetInv, Taken, Behead
<1>2. /\ Wires(from_node')
      /\ \A x : Total(from_node', x) = Total(from_node, x) - Of(m, x)
      /\ \A k \in Nodes : \A i \in DOMAIN from_node'[k] :
             \E j \in DOMAIN from_node[k] : from_node[k][j] = from_node'[k][i]
      /\ \E j \in DOMAIN from_node[n] : from_node[n][j] = m
  BY <1>1, OneLess
<1>3. OnWire(m.op, m.id)
  BY <1>2 DEF OnWire
<1>4. Wires(to_node)' /\ Wires(from_node)'
  BY <1>1, <1>2
<1>5. \A x : InFlight(x) \in Nat /\ InFlight(x)' \in Nat
  BY <1>1, <1>4, InFlightNat, InFlightPrimed
<1>6. ASSUME NEW x PROVE InFlight(x)' = InFlight(x) - Of(m, x)
  <2>1. Total(to_node, x) \in Nat /\ Total(from_node, x) \in Nat
    BY <1>1, TotalNat
  <2>2. Total(from_node', x) = Total(from_node, x) - Of(m, x) /\ Of(m, x) \in Nat
    BY <1>2 DEF Of
  <2> QED BY <1>1, <2>1, <2>2 DEF InFlight
<1>7. InFlight(m.id)' = InFlight(m.id) - 1
  <2>1. Of(m, m.id) = 1
    BY DEF Of
  <2> QED BY <1>6, <2>1
<1>8. ASSUME NEW x, x # m.id PROVE InFlight(x)' = InFlight(x)
  <2>1. Of(m, x) = 0
    BY <1>8 DEF Of
  <2> QED BY <1>5, <1>6, <2>1
<1>9. ASSUME NEW op, NEW x, OnWire(op, x)' PROVE OnWire(op, x)
  BY <1>1, <1>2, <1>9 DEF OnWire
<1>10. ASSUME NEW op, NEW x, OnWire(op, x)' PROVE InFlight(x)' # 0
  <2> DEFINE to == to_node'
             from == from_node'
  <2>1. \/ \E k \in Nodes : \E i \in DOMAIN to[k] : to[k][i].id = x
        \/ \E k \in Nodes : \E i \in DOMAIN from[k] : from[k][i].id = x
    BY <1>10 DEF OnWire
  <2>2. Wires(to) /\ Wires(from)
    BY <1>4
  <2>3. InFlight(x)' = Total(to, x) + Total(from, x)
    BY DEF InFlight
  <2> HIDE DEF to, from
  <2>4. Total(to, x) \in Nat /\ Total(from, x) \in Nat
        /\ (Total(to, x) # 0 \/ Total(from, x) # 0)
    BY <2>1, <2>2, TotalNat
  <2> QED BY <2>3, <2>4
<1>11. \A op, x : OnWire(op, x)' => OnWire(op, x) /\ InFlight(x)' # 0
  BY <1>9, <1>10
<1> QED BY <1>1, <1>3, <1>4, <1>5, <1>7, <1>8, <1>11

\* An answer that is counted is one fewer to wait for and one fewer under way.
LEMMA OneFewer ==
    ASSUME NEW x, NEW e \in Nat, NEW r \in Nat, Accounted(x, e - r),
           InFlight(x) \in Nat, InFlight(x)' = InFlight(x) - 1, deaths' = deaths
    PROVE  /\ InFlight(x)' <= e - (r + 1)
           /\ deaths' = 0 => InFlight(x)' = e - (r + 1)
  BY DEF Accounted

LEMMA AsMany ==
    ASSUME NEW x, NEW missing, Accounted(x, missing),
           InFlight(x)' = InFlight(x), deaths' = deaths
    PROVE  /\ InFlight(x)' <= missing
           /\ deaths' = 0 => InFlight(x)' = missing
  BY DEF Accounted

\* An answer to a read is counted, and the last one ends the request.
LEMMA ReadAnswerKeepsNet ==
    ASSUME UsersInv, NetInv, NEW n \in Nodes, read_response_handler(n)
    PROVE  NetInv'
<1>0. PICK m : m = Head(from_node[n])
  OBVIOUS
<1> DEFINE id == m.id
           old == active_reads[id]
           r == [old EXCEPT !.received = @ + 1, !.packets = Put(@, m.chunk, m.data)]
<1>1. /\ barista_up /\ from_node[n] # <<>> /\ m.op = "read" /\ Taken(n)
      /\ id \in DOMAIN active_reads
      /\ ReadComplete(id, r)
      /\ UNCHANGED <<barista_up, active_writes, active_deletes, request_id,
                     chunk_to_node, alive, deaths, returned>>
  BY <1>0 DEF read_response_handler, Take, maps, machines
<1>2. /\ AllKnown /\ Balanced /\ RequestsGood /\ Apart /\ Linked
      /\ IsFiniteSet(DOMAIN chunk_to_node)
  BY <1>1 DEF NetInv, RequestsGood
<1>3. /\ Wires(to_node)' /\ Wires(from_node)'
      /\ \A x : InFlight(x) \in Nat /\ InFlight(x)' \in Nat
      /\ InFlight(id)' = InFlight(id) - 1
      /\ \A x : x # id => InFlight(x)' = InFlight(x)
      /\ \A op, x : OnWire(op, x)' => OnWire(op, x) /\ InFlight(x)' # 0
      /\ connected' = connected
  BY <1>0, <1>1, AnswerTaken
<1>4. Waits(old)
  BY <1>1, <1>2 DEF RequestsGood
<1>5. Waits(r) /\ r.expected = old.expected /\ r.received = old.received + 1
  BY <1>4 DEF Waits
<1>6. /\ InFlight(id)' <= r.expected - r.received
      /\ deaths' = 0 => InFlight(id)' = r.expected - r.received
  <2>1. Accounted(id, old.expected - old.received)
    BY <1>1, <1>2 DEF Balanced
  <2> QED BY <1>1, <1>3, <1>4, <1>5, <2>1, OneFewer DEF Waits
<1> HIDE DEF r, id, old
<1>7. \/ active_reads' = Add(active_reads, id, r)
      \/ active_reads' = Drop(active_reads, id) /\ InFlight(id)' = 0
  <2>1. CASE r.expected # 0 /\ r.expected = r.received
    <3>1. InFlight(id)' = 0
      BY <1>3, <1>5, <1>6, <2>1 DEF Waits
    <3> QED BY <1>1, <2>1, <3>1 DEF ReadComplete
  <2>2. CASE ~(r.expected # 0 /\ r.expected = r.received)
    BY <1>1, <2>2 DEF ReadComplete
  <2> QED BY <2>1, <2>2
<1>8. /\ \A x \in DOMAIN active_reads' :
            /\ x \in DOMAIN active_reads
            /\ x = id => active_reads'[x] = r
            /\ x # id => active_reads'[x] = active_reads[x]
      /\ \A x \in DOMAIN active_reads : x # id => x \in DOMAIN active_reads'
      /\ id \notin DOMAIN active_reads' => InFlight(id)' = 0
  BY <1>1, <1>7 DEF Add, Drop
<1>9. RequestsGood'
  BY <1>1, <1>2, <1>5, <1>8 DEF RequestsGood, Apart
<1>10. Balanced'
  <2>1. ASSUME NEW x, x # id, NEW k, Accounted(x, k)
        PROVE  InFlight(x)' <= k /\ (deaths' = 0 => InFlight(x)' = k)
    BY <1>1, <1>3, <2>1, AsMany
  <2>2. ASSUME NEW x \in DOMAIN active_reads'
        PROVE  Accounted(x, active_reads[x].expected - active_reads[x].received)'
    <3>1. CASE x = id
      BY <1>6, <1>8, <3>1 DEF Accounted
    <3>2. CASE x # id
      BY <1>2, <1>8, <2>1, <3>2 DEF Accounted, Balanced
    <3> QED BY <3>1, <3>2
  <2>3. ASSUME NEW x \in DOMAIN active_deletes'
        PROVE  Accounted(x, active_deletes[x].expected - active_deletes[x].received)'
    <3>1. x # id
      BY <1>1, <1>2 DEF Apart
    <3> QED BY <1>1, <1>2, <2>1, <3>1 DEF Accounted, Balanced
  <2>4. ASSUME NEW x \in DOMAIN active_writes'
        PROVE  /\ Accounted(x, active_writes[x].expected - active_writes[x].received)'
               /\ Accounted(active_writes[x].replica,
                            active_writes[x].replica_expected
                               - active_writes[x].replica_received)'
    <3>1. x # id /\ active_writes[x].replica # id
      BY <1>1, <1>2 DEF Apart
    <3> QED BY <1>1, <1>2, <2>1, <3>1 DEF Accounted, Balanced
  <2> QED BY <2>2, <2>3, <2>4 DEF Balanced
<1>11. AllKnown'
  <2>1. ASSUME NEW op, NEW x, OnWire(op, x)' PROVE op \in Ops /\ Known(op, x)'
    <3>1. op \in Ops /\ Known(op, x) /\ InFlight(x)' # 0
      BY <1>2, <1>3, <2>1 DEF AllKnown
    <3> QED BY <1>1, <1>8, <3>1 DEF Known, WriteLookup, Ops
  <2> QED BY <2>1 DEF AllKnown
<1>12. Linked' /\ IsFiniteSet(DOMAIN chunk_to_node)'
  BY <1>1, <1>2, <1>3 DEF Linked
<1> QED BY <1>3, <1>9, <1>10, <1>11, <1>12 DEF NetInv

\* An answer to a delete, likewise.
LEMMA DeleteAnswerKeepsNet ==
    ASSUME UsersInv, NetInv, NEW n \in Nodes, delete_response_handler(n)
    PROVE  NetInv'
<1>0. PICK m : m = Head(from_node[n])
  OBVIOUS
<1> DEFINE id == m.id
           old == active_deletes[id]
           r == [old EXCEPT !.received = @ + 1]
<1>1. /\ barista_up /\ from_node[n] # <<>> /\ m.op = "delete" /\ Taken(n)
      /\ id \in DOMAIN active_deletes
      /\ DeleteComplete(id, r)
      /\ UNCHANGED <<barista_up, active_writes, active_reads, request_id,
                     chunk_to_node, alive, deaths, returned>>
  BY <1>0 DEF delete_response_handler, Take, maps, machines
<1>2. /\ AllKnown /\ Balanced /\ RequestsGood /\ Apart /\ Linked
      /\ IsFiniteSet(DOMAIN chunk_to_node)
  BY <1>1 DEF NetInv, RequestsGood
<1>3. /\ Wires(to_node)' /\ Wires(from_node)'
      /\ \A x : InFlight(x) \in Nat /\ InFlight(x)' \in Nat
      /\ InFlight(id)' = InFlight(id) - 1
      /\ \A x : x # id => InFlight(x)' = InFlight(x)
      /\ \A op, x : OnWire(op, x)' => OnWire(op, x) /\ InFlight(x)' # 0
      /\ connected' = connected
  BY <1>0, <1>1, AnswerTaken
<1>4. Waits(old)
  BY <1>1, <1>2 DEF RequestsGood
<1>5. Waits(r) /\ r.expected = old.expected /\ r.received = old.received + 1
  BY <1>4 DEF Waits
<1>6. /\ InFlight(id)' <= r.expected - r.received
      /\ deaths' = 0 => InFlight(id)' = r.expected - r.received
  <2>1. Accounted(id, old.expected - old.received)
    BY <1>1, <1>2 DEF Balanced
  <2> QED BY <1>1, <1>3, <1>4, <1>5, <2>1, OneFewer DEF Waits
<1> HIDE DEF r, id, old
<1>7. \/ active_deletes' = Add(active_deletes, id, r)
      \/ active_deletes' = Drop(active_deletes, id) /\ InFlight(id)' = 0
  <2>1. CASE r.expected # 0 /\ r.expected = r.received
    <3>1. InFlight(id)' = 0
      BY <1>3, <1>5, <1>6, <2>1 DEF Waits
    <3> QED BY <1>1, <2>1, <3>1 DEF DeleteComplete
  <2>2. CASE ~(r.expected # 0 /\ r.expected = r.received)
    BY <1>1, <2>2 DEF DeleteComplete
  <2> QED BY <2>1, <2>2
<1>8. /\ \A x \in DOMAIN active_deletes' :
            /\ x \in DOMAIN active_deletes
            /\ x = id => active_deletes'[x] = r
            /\ x # id => active_deletes'[x] = active_deletes[x]
      /\ \A x \in DOMAIN active_deletes : x # id => x \in DOMAIN active_deletes'
      /\ id \notin DOMAIN active_deletes' => InFlight(id)' = 0
  BY <1>1, <1>7 DEF Add, Drop
<1>9. RequestsGood'
  <2>1. id \in DOMAIN active_deletes' => Pending(r)
    BY <1>1 DEF DeleteComplete, Drop, Pending
  <2> QED BY <1>1, <1>2, <1>5, <1>8, <2>1 DEF RequestsGood, Apart
<1>10. Balanced'
  <2>1. ASSUME NEW x, x # id, NEW k, Accounted(x, k)
        PROVE  InFlight(x)' <= k /\ (deaths' = 0 => InFlight(x)' = k)
    BY <1>1, <1>3, <2>1, AsMany
  <2>2. ASSUME NEW x \in DOMAIN active_deletes'
        PROVE  Accounted(x, active_deletes[x].expected - active_deletes[x].received)'
    <3>1. CASE x = id
      BY <1>6, <1>8, <3>1 DEF Accounted
    <3>2. CASE x # id
      BY <1>2, <1>8, <2>1, <3>2 DEF Accounted, Balanced
    <3> QED BY <3>1, <3>2
  <2>3. ASSUME NEW x \in DOMAIN active_reads'
        PROVE  Accounted(x, active_reads[x].expected - active_reads[x].received)'
    <3>1. x # id
      BY <1>1, <1>2 DEF Apart
    <3> QED BY <1>1, <1>2, <2>1, <3>1 DEF Accounted, Balanced
  <2>4. ASSUME NEW x \in DOMAIN active_writes'
        PROVE  /\ Accounted(x, active_writes[x].expected - active_writes[x].received)'
               /\ Accounted(active_writes[x].replica,
                            active_writes[x].replica_expected
                               - active_writes[x].replica_received)'
    <3>1. x # id /\ active_writes[x].replica # id
      BY <1>1, <1>2 DEF Apart
    <3> QED BY <1>1, <1>2, <2>1, <3>1 DEF Accounted, Balanced
  <2> QED BY <2>2, <2>3, <2>4 DEF Balanced
<1>11. AllKnown'
  <2>1. ASSUME NEW op, NEW x, OnWire(op, x)' PROVE op \in Ops /\ Known(op, x)'
    <3>1. op \in Ops /\ Known(op, x) /\ InFlight(x)' # 0
      BY <1>2, <1>3, <2>1 DEF AllKnown
    <3> QED BY <1>1, <1>8, <3>1 DEF Known, WriteLookup, Ops
  <2> QED BY <2>1 DEF AllKnown
<1>12. Linked' /\ IsFiniteSet(DOMAIN chunk_to_node)'
  BY <1>1, <1>2, <1>3 DEF Linked
<1> QED BY <1>3, <1>9, <1>10, <1>11, <1>12 DEF NetInv

\* An answer to a write, of a chunk or of a replica: the request ends when both
\* kinds have been answered.
LEMMA WriteAnswerKeepsNet ==
    ASSUME UsersInv, NetInv, NEW n \in Nodes, write_response_handler(n)
    PROVE  NetInv'
<1>0. PICK m : m = Head(from_node[n])
  OBVIOUS
<1> DEFINE Updated(id) == IF m.id = id THEN CountPrimary(id, m)
                          ELSE [active_writes[id] EXCEPT !.replica_received = @ + 1]
<1>1. /\ barista_up /\ from_node[n] # <<>> /\ m.op = "write" /\ Taken(n)
      /\ UNCHANGED <<barista_up, active_reads, active_deletes, request_id,
                     chunk_to_node, alive, deaths, returned>>
  BY <1>0 DEF write_response_handler, Take, maps, machines
<1>2. /\ AllKnown /\ Balanced /\ RequestsGood /\ Apart /\ Linked
      /\ IsFiniteSet(DOMAIN chunk_to_node)
  BY <1>1 DEF NetInv, RequestsGood
<1>3. /\ Wires(to_node)' /\ Wires(from_node)'
      /\ \A x : InFlight(x) \in Nat /\ InFlight(x)' \in Nat
      /\ InFlight(m.id)' = InFlight(m.id) - 1
      /\ \A x : x # m.id => InFlight(x)' = InFlight(x)
      /\ \A op, x : OnWire(op, x)' => OnWire(op, x) /\ InFlight(x)' # 0
      /\ connected' = connected
  BY <1>0, <1>1, AnswerTaken
<1>4. PICK id \in DOMAIN active_writes :
          m.id \in {id, active_writes[id].replica} /\ WriteComplete(id, Updated(id))
  BY <1>0 DEF write_response_handler, WriteLookup
<1> DEFINE old == active_writes[id]
           w == Updated(id)
<1>5. WaitsTwice(old) /\ old.replica = id + 1 /\ id \in Nat
  BY <1>2, <1>4 DEF RequestsGood, Apart, UsersInv, Numbers
<1>6. /\ WaitsTwice(w) /\ w.replica = id + 1
      /\ w.expected = old.expected /\ w.replica_expected = old.replica_expected
      /\ m.id = id => /\ w.received = old.received + 1
                      /\ w.replica_received = old.replica_received
      /\ m.id # id => /\ w.received = old.received
                      /\ w.replica_received = old.replica_received + 1
  <2>1. CASE m.id = id
    <3> DEFINE v == [old EXCEPT !.received = @ + 1]
               k == v.count + m.count
    <3>1. w = [v EXCEPT !.count = k]
      BY <2>1 DEF CountPrimary
    <3>2. /\ DOMAIN v = DOMAIN old
          /\ v.replica = old.replica /\ v.expected = old.expected
          /\ v.received = old.received + 1
          /\ v.replica_expected = old.replica_expected
          /\ v.replica_received = old.replica_received
      BY <1>5 DEF WaitsTwice, Waits
    <3> HIDE DEF v, k, w
    <3>3. /\ DOMAIN w = DOMAIN v
          /\ w.replica = v.replica /\ w.expected = v.expected
          /\ w.received = v.received
          /\ w.replica_expected = v.replica_expected
          /\ w.replica_received = v.replica_received
      BY <1>5, <3>1, <3>2 DEF WaitsTwice, Waits
    <3> HIDE DEF old
    <3> QED BY <1>5, <2>1, <3>2, <3>3 DEF WaitsTwice, Waits
  <2>2. CASE m.id # id
    <3>1. w = [old EXCEPT !.replica_received = @ + 1]
      BY <2>2
    <3> QED BY <1>5, <2>2, <3>1 DEF WaitsTwice, Waits
  <2> QED BY <2>1, <2>2
<1> HIDE DEF Updated, w
<1>7. ASSUME NEW x, x # m.id, NEW k, Accounted(x, k)
      PROVE  InFlight(x)' <= k /\ (deaths' = 0 => InFlight(x)' = k)
  BY <1>1, <1>3, <1>7, AsMany
<1>8. /\ InFlight(id)' <= w.expected - w.received
      /\ deaths' = 0 => InFlight(id)' = w.expected - w.received
      /\ InFlight(id + 1)' <= w.replica_expected - w.replica_received
      /\ deaths' = 0 => InFlight(id + 1)' = w.replica_expected - w.replica_received
  <2>1. /\ Accounted(id, old.expected - old.received)
        /\ Accounted(id + 1, old.replica_expected - old.replica_received)
    BY <1>2, <1>4, <1>5 DEF Balanced
  <2>2. id + 1 # id
    BY <1>5
  <2>3. CASE m.id = id
    <3>1. id + 1 # m.id
      BY <2>2, <2>3
    <3>2. /\ InFlight(id)' <= old.expected - (old.received + 1)
          /\ deaths' = 0 => InFlight(id)' = old.expected - (old.received + 1)
      <4>1. old.expected \in Nat /\ old.received \in Nat
        BY <1>5 DEF WaitsTwice, Waits
      <4>2. /\ Accounted(id, old.expected - old.received)
            /\ InFlight(id) \in Nat /\ InFlight(id)' = InFlight(id) - 1
            /\ deaths' = deaths
        BY <1>1, <1>3, <2>1, <2>3
      <4> QED BY <4>1, <4>2, OneFewer
    <3>3. /\ InFlight(id + 1)' <= old.replica_expected - old.replica_received
          /\ deaths' = 0 =>
                InFlight(id + 1)' = old.replica_expected - old.replica_received
      BY <1>7, <2>1, <3>1
    <3> QED BY <1>6, <2>3, <3>2, <3>3
  <2>4. CASE m.id # id
    <3>1. m.id = id + 1
      BY <1>4, <1>5, <2>4
    <3>2. /\ InFlight(id + 1)' <= old.replica_expected - (old.replica_received + 1)
          /\ deaths' = 0 =>
                InFlight(id + 1)' = old.replica_expected - (old.replica_received + 1)
      BY <1>1, <1>3, <1>5, <2>1, <3>1, OneFewer DEF WaitsTwice
    <3>3. /\ InFlight(id)' <= old.expected - old.received
          /\ deaths' = 0 => InFlight(id)' = old.expected - old.received
      BY <1>7, <2>1, <2>4
    <3> QED BY <1>6, <2>4, <3>2, <3>3
  <2> QED BY <2>3, <2>4
<1> HIDE DEF old
<1>9. \/ active_writes' = Add(active_writes, id, w)
      \/ active_writes' = Drop(active_writes, id) /\ InFlight(id)' = 0
         /\ InFlight(id + 1)' = 0
  <2> DEFINE done == /\ w.expected # 0
                     /\ w.expected = w.received
                     /\ w.replica_expected = w.replica_received
  <2>0. WriteComplete(id, w)
    BY <1>4 DEF w
  <2>1. CASE done
    <3>1. InFlight(id)' = 0 /\ InFlight(id + 1)' = 0
      BY <1>3, <1>6, <1>8, <2>1 DEF Waits, WaitsTwice
    <3> QED BY <2>0, <2>1, <3>1 DEF WriteComplete
  <2>2. CASE ~done
    BY <2>0, <2>2 DEF WriteComplete
  <2> QED BY <2>1, <2>2
<1>10. /\ \A x \in DOMAIN active_writes' :
             /\ x \in DOMAIN active_writes
             /\ x = id => active_writes'[x] = w
             /\ x # id => active_writes'[x] = active_writes[x]
       /\ \A x \in DOMAIN active_writes : x # id => x \in DOMAIN active_writes'
       /\ id \notin DOMAIN active_writes' =>
             InFlight(id)' = 0 /\ InFlight(id + 1)' = 0
  BY <1>4, <1>9 DEF Add, Drop
<1>11. RequestsGood'
  <2>1. \A x \in DOMAIN active_writes' : active_writes'[x].replica = x + 1
                                          /\ WaitsTwice(active_writes'[x])
    BY <1>2, <1>6, <1>10 DEF RequestsGood, Apart
  <2> QED BY <1>1, <1>2, <1>10, <2>1 DEF RequestsGood, Apart
<1>12. Balanced'
  <2>1. ASSUME NEW x \in DOMAIN active_reads'
        PROVE  Accounted(x, active_reads[x].expected - active_reads[x].received)'
    <3>1. x # m.id
      BY <1>1, <1>2, <1>4, <1>5 DEF Apart
    <3> QED BY <1>1, <1>2, <1>7, <3>1 DEF Accounted, Balanced
  <2>2. ASSUME NEW x \in DOMAIN active_deletes'
        PROVE  Accounted(x, active_deletes[x].expected - active_deletes[x].received)'
    <3>1. x # m.id
      BY <1>1, <1>2, <1>4, <1>5 DEF Apart
    <3> QED BY <1>1, <1>2, <1>7, <3>1 DEF Accounted, Balanced
  <2>3. ASSUME NEW x \in DOMAIN active_writes'
        PROVE  /\ Accounted(x, active_writes[x].expected - active_writes[x].received)'
               /\ Accounted(active_writes[x].replica,
                            active_writes[x].replica_expected
                               - active_writes[x].replica_received)'
    <3>1. CASE x = id
      <4>1. active_writes'[x] = w /\ w.replica = id + 1
        BY <1>6, <1>10, <3>1
      <4> QED BY <1>8, <3>1, <4>1 DEF Accounted
    <3>2. CASE x # id
      <4>1. active_writes'[x] = active_writes[x] /\ x \in DOMAIN active_writes
        BY <1>10, <3>2
      <4>2. active_writes[x].replica = x + 1 /\ x \in Nat
            /\ x + 1 # id /\ x # id + 1 /\ x + 1 # id + 1
        BY <1>2, <1>4, <1>5, <3>2, <4>1 DEF Apart, UsersInv, Numbers
      <4>3. x # m.id /\ x + 1 # m.id
        <5>1. m.id \in {id, id + 1}
          BY <1>4, <1>5 DEF old
        <5> QED BY <3>2, <4>2, <5>1
      <4>4. /\ Accounted(x, active_writes[x].expected - active_writes[x].received)
            /\ Accounted(x + 1, active_writes[x].replica_expected
                                   - active_writes[x].replica_received)
        BY <1>2, <4>1, <4>2 DEF Balanced
      <4> QED BY <1>7, <4>1, <4>2, <4>3, <4>4 DEF Accounted
    <3> QED BY <3>1, <3>2
  <2> QED BY <2>1, <2>2, <2>3 DEF Balanced
<1>13. AllKnown'
  <2>1. ASSUME NEW op, NEW x, OnWire(op, x)' PROVE op \in Ops /\ Known(op, x)'
    <3>1. op \in Ops /\ Known(op, x) /\ InFlight(x)' # 0
      BY <1>2, <1>3, <2>1 DEF AllKnown
    <3>2. CASE op = "write"
      <4>1. PICK y \in DOMAIN active_writes : x \in {y, active_writes[y].replica}
        BY <3>1, <3>2 DEF Known, WriteLookup
      <4>2. active_writes[y].replica = y + 1
        BY <1>2 DEF Apart
      <4>3. y \in DOMAIN active_writes'
        BY <1>10, <3>1, <4>1, <4>2
      <4>4. active_writes'[y].replica = y + 1
        BY <1>11, <4>3 DEF RequestsGood, Apart
      <4> QED BY <3>1, <3>2, <4>1, <4>2, <4>3, <4>4 DEF Known, WriteLookup
    <3>3. CASE op # "write"
      BY <1>1, <3>1, <3>3 DEF Known, Ops
    <3> QED BY <3>2, <3>3
  <2> QED BY <2>1 DEF AllKnown
<1>14. Linked' /\ IsFiniteSet(DOMAIN chunk_to_node)'
  BY <1>1, <1>2, <1>3 DEF Linked
<1> QED BY <1>3, <1>11, <1>12, <1>13, <1>14 DEF NetInv

-------------------------------------------------------------------------------
(* Requests that begin *)

\* What the messages of a new request add to those under way.
LEMMA NewMessages ==
    ASSUME UsersInv, NetInv, barista_up, NEW h, h.ok, Sent(h), UNCHANGED machines,
           NEW op, NEW a, NEW b, a = request_id + 1, b = request_id + 2,
           Sending(h, to_node, op, a, b, 0, 0)
    PROVE  /\ h.chunks \in Nat /\ h.replicas \in Nat
           /\ Wires(to_node)' /\ Wires(from_node)' /\ Linked'
           /\ IsFiniteSet(DOMAIN chunk_to_node)'
           /\ \A x : x # a /\ x # b => InFlight(x)' = InFlight(x)
           /\ InFlight(a)' <= h.chunks /\ InFlight(b)' <= h.replicas
           /\ deaths' = 0 => InFlight(a)' = h.chunks /\ InFlight(b)' = h.replicas
           /\ \A o, x : OnWire(o, x)' => \/ OnWire(o, x)
                                         \/ o = op /\ x \in {a, b} /\ InFlight(x)' # 0
           /\ deaths' = deaths /\ barista_up'
<1>1. /\ Linked /\ Wires(to_node) /\ Wires(from_node) /\ request_id \in Nat
  BY DEF NetInv, UsersInv, Numbers
<1>2. /\ to_node' = h.out /\ chunk_to_node' = h.c2n
      /\ UNCHANGED <<barista_up, connected, from_node, alive, deaths, returned>>
  BY DEF Sent, machines
<1>3. /\ h.chunks \in Nat /\ h.replicas \in Nat /\ Wires(to_node')
      /\ IsFiniteSet(DOMAIN chunk_to_node')
  BY <1>2 DEF Sending, Good
<1>4. /\ \A x : x # a /\ x # b => Total(to_node', x) = Total(to_node, x)
      /\ Total(to_node', a) <= h.chunks /\ Total(to_node', b) <= h.replicas
      /\ connected \subseteq alive => /\ Total(to_node', a) = h.chunks
                                      /\ Total(to_node', b) = h.replicas
      /\ \A n \in Nodes : \A i \in DOMAIN to_node'[n] :
            \/ i \in DOMAIN to_node[n] /\ to_node'[n][i] = to_node[n][i]
            \/ to_node'[n][i].op = op /\ to_node'[n][i].id \in {a, b}
  <2>1. h.chunks + 0 = h.chunks /\ h.replicas + 0 = h.replicas
    BY <1>3
  <2> QED BY <1>2, <2>1 DEF Sending
<1>5. Total(from_node, a) = 0 /\ Total(from_node, b) = 0
  <2>1. InFlight(a) = 0 /\ InFlight(b) = 0
    <3>1. a \in Nat /\ b \in Nat /\ a > request_id /\ b > request_id
      BY <1>1
    <3> QED BY <3>1, FreshIds
  <2> QED BY <1>1, <2>1, InFlightNat
<1>6. \A x : /\ InFlight(x)' = Total(to_node', x) + Total(from_node, x)
             /\ Total(to_node', x) \in Nat /\ Total(from_node, x) \in Nat
  BY <1>1, <1>2, <1>3, TotalNat DEF InFlight
<1>7. \A x : x # a /\ x # b => InFlight(x)' = InFlight(x)
  BY <1>4, <1>6 DEF InFlight
<1>8. InFlight(a)' = Total(to_node', a) /\ InFlight(b)' = Total(to_node', b)
  BY <1>5, <1>6
<1>9. ASSUME NEW o, NEW x, OnWire(o, x)', ~OnWire(o, x)
      PROVE  o = op /\ x \in {a, b} /\ InFlight(x)' # 0
  <2>1. PICK n \in Nodes : \E i \in DOMAIN to_node'[n] :
                               to_node'[n][i].op = o /\ to_node'[n][i].id = x
    BY <1>2, <1>9 DEF OnWire
  <2>2. PICK i \in DOMAIN to_node'[n] : to_node'[n][i].op = o /\ to_node'[n][i].id = x
    BY <2>1
  <2>3. ~(i \in DOMAIN to_node[n] /\ to_node'[n][i] = to_node[n][i])
    BY <1>9, <2>2 DEF OnWire
  <2>4. o = op /\ x \in {a, b}
    BY <1>4, <2>2, <2>3
  <2>5. Total(to_node', x) # 0
    <3> DEFINE v == to_node'
    <3>1. Wires(v) /\ v[n][i].id = x /\ i \in DOMAIN v[n]
      BY <1>3, <2>2
    <3> HIDE DEF v
    <3>2. Total(v, x) # 0
      BY <3>1, TotalNat
    <3> QED BY <3>2 DEF v
  <2> QED BY <1>6, <2>4, <2>5
<1>10. Linked'
  BY <1>1, <1>2 DEF Linked
<1>11. deaths' = 0 => InFlight(a)' = h.chunks /\ InFlight(b)' = h.replicas
  BY <1>1, <1>2, <1>4, <1>8 DEF Linked
<1>12. Wires(to_node)' /\ Wires(from_node)'
  BY <1>1, <1>2, <1>3
<1>13. \A o, x : OnWire(o, x)' => \/ OnWire(o, x)
                                  \/ o = op /\ x \in {a, b} /\ InFlight(x)' # 0
  BY <1>9
<1> QED BY <1>2, <1>3, <1>4, <1>7, <1>8, <1>10, <1>11, <1>12, <1>13

\* The ids of a new request are those of no other.
LEMMA NewIds ==
    ASSUME UsersInv, NetInv, NEW a, a = request_id + 1
    PROVE  /\ a \in Nat
           /\ a \notin DOMAIN active_reads /\ a + 1 \notin DOMAIN active_reads
           /\ a \notin DOMAIN active_writes /\ a + 1 \notin DOMAIN active_writes
           /\ a \notin DOMAIN active_deletes /\ a + 1 \notin DOMAIN active_deletes
           /\ \A x \in DOMAIN active_reads : x # a /\ x # a + 1
           /\ \A x \in DOMAIN active_deletes : x # a /\ x # a + 1
           /\ \A x \in DOMAIN active_writes :
                 /\ x # a /\ x # a + 1
                 /\ active_writes[x].replica = x + 1
                 /\ x + 1 # a /\ x + 1 # a + 1
<1>1. /\ request_id \in Nat
      /\ DOMAIN active_reads \subseteq 1 .. request_id
      /\ DOMAIN active_writes \subseteq 1 .. request_id
      /\ DOMAIN active_deletes \subseteq 1 .. request_id
  BY DEF UsersInv, Numbers
<1>2. a \in Nat /\ a \notin 1 .. request_id /\ a + 1 \notin 1 .. request_id
  BY <1>1
<1>3. ASSUME NEW x \in DOMAIN active_writes
      PROVE  active_writes[x].replica = x + 1 /\ x + 1 # a /\ x + 1 # a + 1
  <2>1. active_writes[x].replica = x + 1 /\ x + 1 <= request_id /\ x \in 1 .. request_id
    BY <1>1 DEF NetInv, RequestsGood, Apart
  <2> QED BY <1>1, <2>1
<1> QED BY <1>1, <1>2, <1>3

\* A new request waits for what its handler has sent, and there is nothing else
\* with its ids.
LEMMA ReadKeepsNet ==
    ASSUME UsersInv, Sizes, NetInv, barista_up, NEW c \in Procs, NEW fd,
           NEW count \in Nat, read_file(c, fd, count)
    PROVE  NetInv'
<1>0. /\ request_id \in Nat /\ Linked /\ Wires(to_node) /\ Wires(from_node)
      /\ IsFiniteSet(DOMAIN chunk_to_node) /\ AllKnown /\ Balanced /\ RequestsGood
  BY DEF UsersInv, Numbers, NetInv
<1>1. CASE ReadRefused(c, fd, count)
  <2>1. /\ UNCHANGED <<active_reads, active_writes, active_deletes, to_node,
                       from_node, chunk_to_node, deaths, connected, alive, returned,
                       barista_up>>
        /\ request_id' = request_id + 1
    BY <1>1 DEF ReadRefused, requests, network, maps, machines, get_new_request_id
  <2>2. Linked' /\ request_id' \in Nat /\ request_id <= request_id'
    BY <1>0, <2>1 DEF Linked
  <2> QED BY <2>1, <2>2, NothingMoves
<1>2. CASE Crash
  <2>1. UNCHANGED <<active_reads, active_writes, active_deletes, to_node, request_id,
                    from_node, chunk_to_node, deaths, connected, alive, returned>>
        /\ ~barista_up'
    BY <1>2 DEF Crash, requests, network, maps, machines
  <2>2. Linked' /\ request_id' \in Nat /\ request_id <= request_id'
    BY <1>0, <2>1 DEF Linked
  <2> QED BY <2>1, <2>2, NothingMoves
<1>3. CASE ReadSent(c, fd, count) /\ ~Crash
  <2>1. fd \in DOMAIN file_cursors
    <3>1. PICK h : ReadStarted(c, fd, count, h)
      BY <1>3, ReadSentDoes
    <3> QED BY <3>1, LockedFile DEF ReadStarted, ReadVerdict, Proceed,
            FILE_NOT_OPEN_FOR_READ
  <2>2. file_cursors[fd].offset \in Nat
    BY <2>1 DEF Sizes, CursorsGood
  <2>3. PICK a : a = request_id + 1
    OBVIOUS
  <2> DEFINE b == a + 1
  <2>4. /\ a \in Nat /\ b = request_id + 2 /\ a # b
        /\ Total(to_node, a) = 0 /\ Total(to_node, b) = 0
    <3>1. a \in Nat /\ b \in Nat /\ a > request_id /\ b > request_id
          /\ b = request_id + 2
      BY <1>0, <2>3
    <3>2. InFlight(a) = 0 /\ InFlight(b) = 0
      BY <3>1, FreshIds
    <3> QED BY <1>0, <2>3, <3>1, <3>2, InFlightNat
  <2>5. PICK h : /\ h.ok /\ Sent(h) /\ UNCHANGED machines
                 /\ ReadStarted(c, fd, count, h)
                 /\ h.replicas = 0
                 /\ Sending(h, to_node, "read", a, b, 0, 0)
    BY <1>0, <1>3, <2>2, <2>3, <2>4, ReadSentSends DEF Linked
  <2> DEFINE r == ReadRequest(c, fd, count, h)
  <2>6. /\ active_reads' = Add(active_reads, a, r) /\ request_id' = a
        /\ UNCHANGED <<active_writes, active_deletes>>
    BY <2>3, <2>5 DEF ReadStarted, get_new_request_id
  <2>7. /\ h.chunks \in Nat
        /\ Wires(to_node)' /\ Wires(from_node)' /\ Linked'
        /\ IsFiniteSet(DOMAIN chunk_to_node)'
        /\ \A x : x # a /\ x # b => InFlight(x)' = InFlight(x)
        /\ InFlight(a)' <= h.chunks /\ InFlight(b)' <= h.replicas
        /\ deaths' = 0 => InFlight(a)' = h.chunks
        /\ \A o, x : OnWire(o, x)' => \/ OnWire(o, x)
                                      \/ o = "read" /\ x \in {a, b} /\ InFlight(x)' # 0
        /\ deaths' = deaths
    BY <2>3, <2>4, <2>5, NewMessages
  <2>8. InFlight(b)' = 0
    <3>1. InFlight(b)' \in Nat
      BY <2>7, InFlightPrimed
    <3> QED BY <2>5, <2>7, <3>1
  <2>9. Waits(r) /\ r.expected - r.received = h.chunks
    BY <2>7 DEF Waits, ReadRequest
  <2> HIDE DEF r
  <2>10. /\ DOMAIN active_reads' = DOMAIN active_reads \cup {a}
         /\ active_reads'[a] = r
         /\ \A x \in DOMAIN active_reads : x # a /\ active_reads'[x] = active_reads[x]
    BY <2>3, <2>6, NewIds DEF Add
  <2>11. RequestsGood'
    <3>1. Apart'
      <4>1. request_id <= request_id'
        BY <1>0, <2>3, <2>6
      <4>2. \A x \in DOMAIN active_writes : x + 1 <= request_id'
        <5>1. \A x \in DOMAIN active_writes : x + 1 <= request_id /\ x \in 1 .. request_id
          BY <1>0 DEF RequestsGood, Apart, UsersInv, Numbers
        <5> QED BY <1>0, <2>3, <2>6, <5>1
      <4> QED BY <1>0, <2>3, <2>6, <2>10, <4>2, NewIds DEF RequestsGood, Apart
    <3> QED BY <1>0, <2>6, <2>9, <2>10, <3>1 DEF RequestsGood
  <2>12. Balanced'
    <3>1. ASSUME NEW x, x # a, x # b, NEW k, Accounted(x, k)
          PROVE  InFlight(x)' <= k /\ (deaths' = 0 => InFlight(x)' = k)
      BY <2>7, <3>1, AsMany
    <3>2. ASSUME NEW x \in DOMAIN active_reads'
          PROVE  Accounted(x, active_reads[x].expected - active_reads[x].received)'
      <4>1. CASE x = a
        BY <2>7, <2>9, <2>10, <4>1 DEF Accounted
      <4>2. CASE x # a
        <5>1. x \in DOMAIN active_reads /\ x # b /\ active_reads'[x] = active_reads[x]
          BY <2>3, <2>10, <4>2, NewIds
        <5> QED BY <1>0, <3>1, <4>2, <5>1 DEF Accounted, Balanced
      <4> QED BY <4>1, <4>2
    <3>3. ASSUME NEW x \in DOMAIN active_deletes'
          PROVE  Accounted(x, active_deletes[x].expected - active_deletes[x].received)'
      <4>1. x # a /\ x # b
        BY <2>3, <2>6, NewIds
      <4> QED BY <1>0, <2>6, <3>1, <4>1 DEF Accounted, Balanced
    <3>4. ASSUME NEW x \in DOMAIN active_writes'
          PROVE  /\ Accounted(x, active_writes[x].expected - active_writes[x].received)'
                 /\ Accounted(active_writes[x].replica,
                              active_writes[x].replica_expected
                                 - active_writes[x].replica_received)'
      <4>1. /\ x # a /\ x # b
            /\ active_writes[x].replica # a /\ active_writes[x].replica # b
        BY <2>3, <2>6, NewIds
      <4> QED BY <1>0, <2>6, <3>1, <4>1 DEF Accounted, Balanced
    <3> QED BY <3>2, <3>3, <3>4 DEF Balanced
  <2>13. AllKnown'
    <3>1. ASSUME NEW op, NEW x, OnWire(op, x)' PROVE op \in Ops /\ Known(op, x)'
      <4>1. CASE OnWire(op, x)
        <5>1. op \in Ops /\ Known(op, x)
          BY <1>0, <4>1 DEF AllKnown
        <5> QED BY <2>6, <2>10, <5>1 DEF Known, WriteLookup, Ops
      <4>2. CASE ~OnWire(op, x)
        <5>1. op = "read" /\ x = a
          BY <2>7, <2>8, <3>1, <4>2
        <5> QED BY <2>10, <5>1 DEF Known, Ops
      <4> QED BY <4>1, <4>2
    <3> QED BY <3>1 DEF AllKnown
  <2> QED BY <2>7, <2>11, <2>12, <2>13 DEF NetInv
<1> QED BY <1>1, <1>2, <1>3 DEF read_file

LEMMA DeleteKeepsNet ==
    ASSUME UsersInv, NetInv, barista_up, NEW c, NEW path, delete_file(c, path)
    PROVE  NetInv'
<1>0. /\ request_id \in Nat /\ Linked /\ Wires(to_node) /\ Wires(from_node)
      /\ IsFiniteSet(DOMAIN chunk_to_node) /\ AllKnown /\ Balanced /\ RequestsGood
  BY DEF UsersInv, Numbers, NetInv
<1>1. CASE DeleteRefused(c, path)
  <2>1. /\ UNCHANGED <<active_deletes, active_writes, active_reads, to_node,
                       from_node, chunk_to_node, deaths, connected, alive, returned,
                       barista_up>>
        /\ request_id' = request_id + 1
    BY <1>1 DEF DeleteRefused, requests, network, maps, machines, get_new_request_id
  <2>2. Linked' /\ request_id' \in Nat /\ request_id <= request_id'
    BY <1>0, <2>1 DEF Linked
  <2> QED BY <2>1, <2>2, NothingMoves
<1>2. CASE Crash
  <2>1. UNCHANGED <<active_deletes, active_writes, active_reads, to_node, request_id,
                    from_node, chunk_to_node, deaths, connected, alive, returned>>
        /\ ~barista_up'
    BY <1>2 DEF Crash, requests, network, maps, machines
  <2>2. Linked' /\ request_id' \in Nat /\ request_id <= request_id'
    BY <1>0, <2>1 DEF Linked
  <2> QED BY <2>1, <2>2, NothingMoves
<1>3. CASE DeleteSent(c, path) /\ ~Crash
  <2>1. PICK a : a = request_id + 1
    OBVIOUS
  <2> DEFINE b == a + 1
  <2>2. /\ a \in Nat /\ b = request_id + 2 /\ a # b
        /\ Total(to_node, a) = 0 /\ Total(to_node, b) = 0
    <3>1. a \in Nat /\ b \in Nat /\ a > request_id /\ b > request_id
          /\ b = request_id + 2
      BY <1>0, <2>1
    <3>2. InFlight(a) = 0 /\ InFlight(b) = 0
      BY <3>1, FreshIds
    <3> QED BY <1>0, <2>1, <3>1, <3>2, InFlightNat
  <2>3. PICK h : /\ h.ok /\ Sent(h) /\ UNCHANGED machines
                 /\ DeleteStarted(c, path, h)
                 /\ h.replicas = 0
                 /\ Sending(h, to_node, "delete", a, b, 0, 0)
    BY <1>0, <1>3, <2>1, <2>2, DeleteSentSends DEF Linked
  <2> DEFINE r == DeleteRequest(c, path, h)
  <2>4. /\ active_deletes' = Add(active_deletes, a, r) /\ request_id' = a
        /\ UNCHANGED <<active_writes, active_reads>>
    BY <2>1, <2>3 DEF DeleteStarted, get_new_request_id
  <2>5. /\ h.chunks \in Nat
        /\ Wires(to_node)' /\ Wires(from_node)' /\ Linked'
        /\ IsFiniteSet(DOMAIN chunk_to_node)'
        /\ \A x : x # a /\ x # b => InFlight(x)' = InFlight(x)
        /\ InFlight(a)' <= h.chunks /\ InFlight(b)' <= h.replicas
        /\ deaths' = 0 => InFlight(a)' = h.chunks
        /\ \A o, x : OnWire(o, x)' => \/ OnWire(o, x)
                                      \/ o = "delete" /\ x \in {a, b} /\ InFlight(x)' # 0
        /\ deaths' = deaths
    BY <2>1, <2>2, <2>3, NewMessages
  <2>6. InFlight(b)' = 0
    <3>1. InFlight(b)' \in Nat
      BY <2>5, InFlightPrimed
    <3> QED BY <2>3, <2>5, <3>1
  <2>7. Waits(r) /\ Pending(r) /\ r.expected - r.received = h.chunks
    BY <2>5 DEF Waits, Pending, DeleteRequest
  <2> HIDE DEF r
  <2>8. /\ DOMAIN active_deletes' = DOMAIN active_deletes \cup {a}
         /\ active_deletes'[a] = r
         /\ \A x \in DOMAIN active_deletes : x # a /\ active_deletes'[x] = active_deletes[x]
    BY <2>1, <2>4, NewIds DEF Add
  <2>9. RequestsGood'
    <3>1. Apart'
      <4>1. request_id <= request_id'
        BY <1>0, <2>1, <2>4
      <4>2. \A x \in DOMAIN active_writes : x + 1 <= request_id'
        <5>1. \A x \in DOMAIN active_writes : x + 1 <= request_id /\ x \in 1 .. request_id
          BY <1>0 DEF RequestsGood, Apart, UsersInv, Numbers
        <5> QED BY <1>0, <2>1, <2>4, <5>1
      <4> QED BY <1>0, <2>1, <2>4, <2>8, <4>2, NewIds DEF RequestsGood, Apart
    <3> QED BY <1>0, <2>4, <2>7, <2>8, <3>1 DEF RequestsGood
  <2>10. Balanced'
    <3>1. ASSUME NEW x, x # a, x # b, NEW k, Accounted(x, k)
          PROVE  InFlight(x)' <= k /\ (deaths' = 0 => InFlight(x)' = k)
      BY <2>5, <3>1, AsMany
    <3>2. ASSUME NEW x \in DOMAIN active_deletes'
          PROVE  Accounted(x, active_deletes[x].expected - active_deletes[x].received)'
      <4>1. CASE x = a
        BY <2>5, <2>7, <2>8, <4>1 DEF Accounted
      <4>2. CASE x # a
        <5>1. x \in DOMAIN active_deletes /\ x # b /\ active_deletes'[x] = active_deletes[x]
          BY <2>1, <2>8, <4>2, NewIds
        <5> QED BY <1>0, <3>1, <4>2, <5>1 DEF Accounted, Balanced
      <4> QED BY <4>1, <4>2
    <3>3. ASSUME NEW x \in DOMAIN active_reads'
          PROVE  Accounted(x, active_reads[x].expected - active_reads[x].received)'
      <4>1. x # a /\ x # b
        BY <2>1, <2>4, NewIds
      <4> QED BY <1>0, <2>4, <3>1, <4>1 DEF Accounted, Balanced
    <3>4. ASSUME NEW x \in DOMAIN active_writes'
          PROVE  /\ Accounted(x, active_writes[x].expected - active_writes[x].received)'
                 /\ Accounted(active_writes[x].replica,
                              active_writes[x].replica_expected
                                 - active_writes[x].replica_received)'
      <4>1. /\ x # a /\ x # b
            /\ active_writes[x].replica # a /\ active_writes[x].replica # b
        BY <2>1, <2>4, NewIds
      <4> QED BY <1>0, <2>4, <3>1, <4>1 DEF Accounted, Balanced
    <3> QED BY <3>2, <3>3, <3>4 DEF Balanced
  <2>11. AllKnown'
    <3>1. ASSUME NEW op, NEW x, OnWire(op, x)' PROVE op \in Ops /\ Known(op, x)'
      <4>1. CASE OnWire(op, x)
        <5>1. op \in Ops /\ Known(op, x)
          BY <1>0, <4>1 DEF AllKnown
        <5> QED BY <2>4, <2>8, <5>1 DEF Known, WriteLookup, Ops
      <4>2. CASE ~OnWire(op, x)
        <5>1. op = "delete" /\ x = a
          BY <2>5, <2>6, <3>1, <4>2
        <5> QED BY <2>8, <5>1 DEF Known, Ops
      <4> QED BY <4>1, <4>2
    <3> QED BY <3>1 DEF AllKnown
  <2> QED BY <2>5, <2>9, <2>10, <2>11 DEF NetInv
<1> QED BY <1>1, <1>2, <1>3 DEF delete_file

LEMMA WriteKeepsNet ==
    ASSUME UsersInv, Sizes, NetInv, barista_up, NEW c \in Procs, NEW fd,
           NEW count \in Nat, write_file(c, fd, count)
    PROVE  NetInv'
<1>0. /\ request_id \in Nat /\ Linked /\ Wires(to_node) /\ Wires(from_node)
      /\ IsFiniteSet(DOMAIN chunk_to_node) /\ AllKnown /\ Balanced /\ RequestsGood
  BY DEF UsersInv, Numbers, NetInv
<1>1. CASE WriteRefused(c, fd, count)
  <2>1. /\ UNCHANGED <<active_reads, active_writes, active_deletes, to_node,
                       from_node, chunk_to_node, deaths, connected, alive, returned,
                       barista_up>>
        /\ request_id' = request_id + 2
    BY <1>1 DEF WriteRefused, requests, network, maps, machines
  <2>2. Linked' /\ request_id' \in Nat /\ request_id <= request_id'
    BY <1>0, <2>1 DEF Linked
  <2> QED BY <2>1, <2>2, NothingMoves
<1>2. CASE Crash
  <2>1. UNCHANGED <<active_reads, active_writes, active_deletes, to_node, request_id,
                    from_node, chunk_to_node, deaths, connected, alive, returned>>
        /\ ~barista_up'
    BY <1>2 DEF Crash, requests, network, maps, machines
  <2>2. Linked' /\ request_id' \in Nat /\ request_id <= request_id'
    BY <1>0, <2>1 DEF Linked
  <2> QED BY <2>1, <2>2, NothingMoves
<1>3. CASE WriteSent(c, fd, count) /\ ~Crash
  <2>1. fd \in DOMAIN file_cursors
    <3>1. PICK h : WriteStarted(c, fd, count, h)
      BY <1>3, WriteSentDoes
    <3> QED BY <3>1, LockedFile DEF WriteStarted, WriteVerdict, Proceed, HasLock,
            FILE_NOT_OPEN_FOR_WRITE
  <2>2. file_cursors[fd].offset \in Nat
    BY <2>1 DEF Sizes, CursorsGood
  <2>3. PICK a : a = request_id + 1
    OBVIOUS
  <2> DEFINE b == a + 1
  <2>4. /\ a \in Nat /\ b = request_id + 2 /\ a # b
        /\ Total(to_node, a) = 0 /\ Total(to_node, b) = 0
    <3>1. a \in Nat /\ b \in Nat /\ a > request_id /\ b > request_id
          /\ b = request_id + 2
      BY <1>0, <2>3
    <3>2. InFlight(a) = 0 /\ InFlight(b) = 0
      BY <3>1, FreshIds
    <3> QED BY <1>0, <2>3, <3>1, <3>2, InFlightNat
  <2>5. PICK h : /\ h.ok /\ Sent(h) /\ UNCHANGED machines
                 /\ WriteStarted(c, fd, count, h)
                 /\ Sending(h, to_node, "write", a, b, 0, 0)
    BY <1>0, <1>3, <2>2, <2>3, <2>4, WriteSentSends DEF Linked
  <2> DEFINE w == WriteRequest(c, fd, count, h)
  <2>6. /\ active_writes' = Add(active_writes, a, w) /\ request_id' = b
        /\ UNCHANGED <<active_reads, active_deletes>>
    BY <2>3, <2>5 DEF WriteStarted, get_new_request_id
  <2>7. /\ h.chunks \in Nat /\ h.replicas \in Nat
        /\ Wires(to_node)' /\ Wires(from_node)' /\ Linked'
        /\ IsFiniteSet(DOMAIN chunk_to_node)'
        /\ \A x : x # a /\ x # b => InFlight(x)' = InFlight(x)
        /\ InFlight(a)' <= h.chunks /\ InFlight(b)' <= h.replicas
        /\ deaths' = 0 => InFlight(a)' = h.chunks /\ InFlight(b)' = h.replicas
        /\ \A o, x : OnWire(o, x)' => \/ OnWire(o, x)
                                      \/ o = "write" /\ x \in {a, b}
        /\ deaths' = deaths
    BY <2>3, <2>4, <2>5, NewMessages
  <2>8. /\ WaitsTwice(w) /\ w.replica = b
        /\ w.expected - w.received = h.chunks
        /\ w.replica_expected - w.replica_received = h.replicas
    <3>1. w.replica = b
      BY <2>3 DEF WriteRequest, get_new_request_id
    <3>2. /\ {"replica", "replica_expected", "replica_received", "expected",
              "received"} \subseteq DOMAIN w
          /\ w.expected = h.chunks /\ w.received = 0
          /\ w.replica_expected = h.replicas /\ w.replica_received = 0
      BY DEF WriteRequest
    <3> HIDE DEF w
    <3> QED BY <2>7, <3>1, <3>2 DEF Waits, WaitsTwice
  <2> HIDE DEF w
  <2>9. /\ DOMAIN active_writes' = DOMAIN active_writes \cup {a}
        /\ active_writes'[a] = w
        /\ \A x \in DOMAIN active_writes : x # a /\ active_writes'[x] = active_writes[x]
    BY <2>3, <2>6, NewIds DEF Add
  <2>10. RequestsGood'
    <3>1. \A x \in DOMAIN active_writes : x + 1 <= request_id'
      <4>1. \A x \in DOMAIN active_writes : x + 1 <= request_id /\ x \in 1 .. request_id
        BY <1>0 DEF RequestsGood, Apart, UsersInv, Numbers
      <4> QED BY <1>0, <2>3, <2>6, <4>1
    <3>2. a + 1 <= request_id' /\ a + 1 # a
      BY <2>4, <2>6
    <3>3. Apart'
      BY <1>0, <2>3, <2>6, <2>8, <2>9, <3>1, <3>2, NewIds DEF RequestsGood, Apart
    <3> QED BY <1>0, <2>6, <2>8, <2>9, <3>3 DEF RequestsGood
  <2>11. Balanced'
    <3>1. ASSUME NEW x, x # a, x # b, NEW k, Accounted(x, k)
          PROVE  InFlight(x)' <= k /\ (deaths' = 0 => InFlight(x)' = k)
      BY <2>7, <3>1, AsMany
    <3>2. ASSUME NEW x \in DOMAIN active_reads'
          PROVE  Accounted(x, active_reads[x].expected - active_reads[x].received)'
      <4>1. x # a /\ x # b
        BY <2>3, <2>6, NewIds
      <4> QED BY <1>0, <2>6, <3>1, <4>1 DEF Accounted, Balanced
    <3>3. ASSUME NEW x \in DOMAIN active_deletes'
          PROVE  Accounted(x, active_deletes[x].expected - active_deletes[x].received)'
      <4>1. x # a /\ x # b
        BY <2>3, <2>6, NewIds
      <4> QED BY <1>0, <2>6, <3>1, <4>1 DEF Accounted, Balanced
    <3>4. ASSUME NEW x \in DOMAIN active_writes'
          PROVE  /\ Accounted(x, active_writes[x].expected - active_writes[x].received)'
                 /\ Accounted(active_writes[x].replica,
                              active_writes[x].replica_expected
                                 - active_writes[x].replica_received)'
      <4>1. CASE x = a
        BY <2>7, <2>8, <2>9, <4>1 DEF Accounted
      <4>2. CASE x # a
        <5>1. /\ x \in DOMAIN active_writes /\ x # b
              /\ active_writes'[x] = active_writes[x]
              /\ active_writes[x].replica # a /\ active_writes[x].replica # b
          BY <2>3, <2>9, <4>2, NewIds
        <5> QED BY <1>0, <3>1, <4>2, <5>1 DEF Accounted, Balanced
      <4> QED BY <4>1, <4>2
    <3> QED BY <3>2, <3>3, <3>4 DEF Balanced
  <2>12. AllKnown'
    <3>1. ASSUME NEW op, NEW x, OnWire(op, x)' PROVE op \in Ops /\ Known(op, x)'
      <4>1. CASE OnWire(op, x)
        <5>1. op \in Ops /\ Known(op, x)
          BY <1>0, <4>1 DEF AllKnown
        <5> QED BY <2>6, <2>9, <5>1 DEF Known, WriteLookup, Ops
      <4>2. CASE ~OnWire(op, x)
        <5>1. op = "write" /\ x \in {a, b}
          BY <2>7, <3>1, <4>2
        <5> QED BY <2>8, <2>9, <5>1 DEF Known, WriteLookup, Ops
      <4> QED BY <4>1, <4>2
    <3> QED BY <3>1 DEF AllKnown
  <2> QED BY <2>7, <2>10, <2>11, <2>12 DEF NetInv
<1> QED BY <1>1, <1>2, <1>3 DEF write_file

-------------------------------------------------------------------------------
(* The theorem *)

\* NetInv holds at the start, every step keeps it, and so it holds always.
LEMMA InitNet == Init => NetInv
<1> SUFFICES ASSUME Init PROVE NetInv
  OBVIOUS
<1>1. /\ DOMAIN EmptyMap = {} /\ chunk_to_node = EmptyMap
      /\ active_reads = EmptyMap /\ active_writes = EmptyMap
      /\ active_deletes = EmptyMap
      /\ connected = Nodes /\ alive = Nodes /\ deaths = 0 /\ returned = {}
      /\ to_node = [n \in Nodes |-> <<>>] /\ from_node = [n \in Nodes |-> <<>>]
  BY DEF Init, EmptyMap
<1>2. IsFiniteSet({})
  BY FS_EmptySet
<1>3. Wires(to_node) /\ Wires(from_node)
  <2>1. <<>> \in Seq({})
    OBVIOUS
  <2> QED BY <1>1, <2>1 DEF Wires, Listed
<1>4. \A op, x : ~OnWire(op, x)
  <2>1. DOMAIN <<>> = {}
    OBVIOUS
  <2> QED BY <1>1, <2>1 DEF OnWire
<1>5. RequestsGood /\ Linked
  BY <1>1 DEF RequestsGood, Apart, Linked
<1>6. AllKnown /\ Balanced
  BY <1>1, <1>4 DEF AllKnown, Balanced
<1> QED BY <1>1, <1>2, <1>3, <1>5, <1>6 DEF NetInv

LEMMA NextNet == UsersInv /\ Sizes /\ NetInv /\ [Next]_vars => NetInv'
<1> SUFFICES ASSUME UsersInv, Sizes, NetInv, [Next]_vars PROVE NetInv'
  OBVIOUS
<1>0. request_id \in Nat /\ request_id <= request_id /\ Linked
  BY DEF UsersInv, Numbers, NetInv
<1>1. ASSUME UNCHANGED <<request_id, requests, to_node, from_node, chunk_to_node,
                         deaths>>,
             Linked', barista_up' => barista_up
      PROVE  NetInv'
  BY <1>0, <1>1, NothingMoves DEF requests
<1>2. ASSUME UNCHANGED <<barista_up, request_id, requests, network, maps, deaths, alive,
                         returned>>
      PROVE  NetInv'
  <2>1. Linked'
    BY <1>0, <1>2 DEF Linked, network
  <2> QED BY <1>1, <1>2, <2>1 DEF network, maps
<1>3. CASE UNCHANGED vars
  BY <1>2, <1>3 DEF vars, machines
<1>4. ASSUME NEW c \in Procs, ClientCall(c) PROVE NetInv'
  <2>1. ASSUME NEW path, file_storage_stat(c, path) PROVE NetInv'
    BY <1>2, <2>1 DEF file_storage_stat, machines
  <2>2. ASSUME NEW path, NEW flags, open_file(c, path, flags) PROVE NetInv'
    BY <1>2, <2>2 DEF open_file, machines
  <2>3. ASSUME NEW fd, close_file(c, fd) PROVE NetInv'
    BY <1>2, <2>3 DEF close_file, machines
  <2>4. ASSUME NEW fd, NEW whence, NEW o, file_seek(c, fd, whence, o) PROVE NetInv'
    BY <1>2, <2>4 DEF file_seek, machines
  <2>5. Counts \subseteq Nat /\ barista_up
    BY <1>4, SizesAssumption DEF ClientCall
  <2> QED BY <1>4, <2>1, <2>2, <2>3, <2>4, <2>5, DeleteKeepsNet, ReadKeepsNet,
             WriteKeepsNet DEF ClientCall
<1>5. ASSUME NEW c \in Procs, ClientEnds(c) PROVE NetInv'
  BY <1>2, <1>5 DEF ClientEnds
<1>6. ASSUME NEW n \in Nodes, NodeAnswer(n) PROVE NetInv'
  BY <1>6, ReadAnswerKeepsNet, WriteAnswerKeepsNet, DeleteAnswerKeepsNet
  DEF NodeAnswer
<1>7. ASSUME NEW n \in Nodes, NodeGone(n) PROVE NetInv'
  <2>1. Linked'
    BY <1>0, <1>7 DEF NodeGone, Linked, machines
  <2> QED BY <1>1, <1>7, <2>1 DEF NodeGone, machines, maps
<1>8. ASSUME NEW n \in Nodes, NodeReturns(n) PROVE NetInv'
  <2>1. Linked'
    BY <1>0, <1>8 DEF NodeReturns, Linked
  <2> QED BY <1>1, <1>8, <2>1 DEF NodeReturns, maps
<1> QED BY <1>3, <1>4, <1>5, <1>6, <1>7, <1>8, EspressoKeepsNet, DeathKeepsNet
        DEF Next

LEMMA NetInvariance == Spec => [](UsersInv /\ Sizes /\ NetInv)
<1>1. Init => UsersInv /\ Sizes /\ NetInv
  BY InitUsers, InitSizes, InitNet
<1>2. UsersInv /\ Sizes /\ NetInv /\ [Next]_vars => (UsersInv /\ Sizes /\ NetInv)'
  BY NextUsers, NextSizes, NextNet
<1> QED BY <1>1, <1>2, PTL DEF Spec

\* Every chunk request on the wire and every answer to one belongs to a request
\* Barista still has, and a request waits for no fewer answers than are under
\* way, exactly those while no node has died: for any clients, files, sizes,
\* failures of nodes and fates of sends to dead nodes.
THEOREM NoAnswerIsOrphaned == Spec => []NoOrphanResponse
  BY NetInvariance, NetInvOrphans, PTL

\* Every lock will be given back: its holder has a descriptor to close, or a
\* delete with an answer on the wire.  Left out are deletes that sent nothing,
\* and executions in which a node has died.
THEOREM LocksAreUsed == Spec => []LocksHaveUsers
<1>1. UsersInv /\ Sizes /\ NetInv => LocksHaveUsers
  <2> SUFFICES ASSUME UsersInv, NetInv, barista_up, deaths = 0,
                      NEW id \in DOMAIN active_deletes
               PROVE  InFlight(id) > 0 \/ Stuck(active_deletes[id])
    BY DEF LocksHaveUsers, UsersInv, HoldersKnown
  <2> DEFINE d == active_deletes[id]
  <2>1. d.expected \in Nat /\ d.received \in Nat /\ Pending(d)
    BY DEF NetInv, RequestsGood, Waits
  <2>2. InFlight(id) = d.expected - d.received
    BY DEF NetInv, Balanced, Accounted
  <2>3. InFlight(id) \in Nat
    BY InFlightNat DEF NetInv
  <2> HIDE DEF d
  <2>4. InFlight(id) > 0 \/ Stuck(d)
    BY <2>1, <2>2, <2>3 DEF Pending, Stuck
  <2> QED BY <2>4 DEF d
<1> QED BY <1>1, NetInvariance, PTL

-------------------------------------------------------------------------------
(* Where the chunks are *)

\* The chunk maps: chunks within the bounds, each on a node of its kind.
GoodMaps(c2n, c2r) ==
    /\ DOMAIN c2n \subseteq Universe /\ DOMAIN c2r \subseteq Universe
    /\ \A k \in DOMAIN c2n : c2n[k] \in Primaries
    /\ \A k \in DOMAIN c2r : c2r[k] \in Replicas

\* What a send needs of a handler's record.
Record(h) == DOMAIN h = Fields /\ h.fate \in Fates

\* Sending leaves the maps alone and sets nodes down at most.
Keeps(g, h) == /\ Record(g)
               /\ g.c2n = h.c2n /\ g.c2r = h.c2r
               /\ g.up \subseteq h.up

\* A send, whatever becomes of it.
LEMMA SendKeeps ==
    ASSUME NEW h, Record(h), NEW n, NEW m
    PROVE  Keeps(Send(h, n, m), h)
<1> DEFINE g == Send(h, n, m)
<1>0. DOMAIN h = Fields /\ h.fate \in Fates
  BY DEF Record
<1>1. CASE g = h
  BY <1>1, <1>0 DEF Keeps, Record
<1>2. CASE g = Fatal(h)
  BY <1>0, <1>2 DEF Keeps, Record, Fatal, Fields
<1>3. CASE g = SendToLive(h, n, m)
  <2> DEFINE v == [h.out EXCEPT ![n] = Append(@, m)]
  <2>1. g = [[h EXCEPT !.out = v] EXCEPT !.failed = FALSE]
    BY <1>3 DEF SendToLive
  <2> HIDE DEF g, v
  <2>2. DOMAIN g = Fields /\ g.fate = h.fate /\ g.c2n = h.c2n /\ g.c2r = h.c2r /\ g.up = h.up
    BY <1>0, <2>1 DEF Fields
  <2>3. Keeps(g, h)
    BY <1>0, <2>2 DEF Keeps, Record
  <2> QED BY <2>3 DEF g
<1>4. CASE g = SendToDead(h, n) /\ n \in connected \ alive
  <2> DEFINE f == [h.fate EXCEPT ![n] = FateAfter(@)]
  <2>1. f \in Fates
    BY <1>0, <1>4 DEF Fates, FateAfter
  <2>2. \/ g = [[h EXCEPT !.fate = f] EXCEPT !.failed = FALSE]
        \/ g = [[h EXCEPT !.fate = f] EXCEPT !.failed = TRUE]
        \/ g = [h EXCEPT !.ok = FALSE]
    BY <1>4 DEF SendToDead, Fatal
  <2> HIDE DEF g, f
  <2>3. DOMAIN g = Fields /\ g.fate \in {f, h.fate} /\ g.c2n = h.c2n /\ g.c2r = h.c2r
        /\ g.up = h.up
    BY <1>0, <2>2 DEF Fields
  <2>4. Keeps(g, h)
    BY <1>0, <2>1, <2>3 DEF Keeps, Record
  <2> QED BY <2>4 DEF g
<1>5. \/ g = h
      \/ g = Fatal(h)
      \/ g = SendToLive(h, n, m)
      \/ g = SendToDead(h, n) /\ n \in connected \ alive
  BY DEF Send
<1> HIDE DEF g
<1>6. Keeps(g, h)
  BY <1>1, <1>2, <1>3, <1>4, <1>5 DEF g
<1> QED BY <1>6 DEF g

\* Two sends after one another.
LEMMA KeepsTwice ==
    ASSUME NEW f, NEW g, NEW h, Keeps(f, g), Keeps(g, h)
    PROVE  Keeps(f, h) /\ Record(g)
  BY DEF Keeps

\* A send after which the node may be set down.
LEMMA SendOrDownKeeps ==
    ASSUME NEW h, Record(h), NEW n, NEW m
    PROVE  Keeps(SendOrDown(h, n, m), h)
<1> DEFINE g == Send(h, n, m)
           f == DownIfFailed(g, n)
<1>1. Keeps(g, h)
  BY SendKeeps
<1> HIDE DEF g
<1>2. DOMAIN g = Fields /\ g.fate \in Fates
  BY <1>1 DEF Keeps, Record
<1>3. f = g \/ f = [g EXCEPT !.up = g.up \ {n}]
  BY DEF DownIfFailed, set_node_down
<1> HIDE DEF f
<1>4. DOMAIN f = Fields /\ f.fate = g.fate /\ f.c2n = g.c2n /\ f.c2r = g.c2r
      /\ f.up \subseteq g.up
  BY <1>2, <1>3 DEF Fields
<1>5. Keeps(f, g)
  BY <1>2, <1>4 DEF Keeps, Record
<1>6. Keeps(f, h)
  BY <1>1, <1>5, KeepsTwice
<1> QED BY <1>6 DEF f, g, SendOrDown

\* A piece of a read.
LEMMA ReadOnceKeeps ==
    ASSUME NEW h, Record(h), NEW id, NEW ch, NEW s
    PROVE  Keeps(ReadOnce(h, id, ch, s), h)
<1>1. Keeps(Fatal(h), h)
  BY DEF Keeps, Record, Fatal, Fields
<1> HIDE DEF Fatal, SendOrDown
<1> QED BY <1>1, SendOrDownKeeps DEF ReadOnce

\* Its tries.
LEMMA ReadSpanKeeps ==
    ASSUME NEW h, Record(h), NEW id, NEW file, NEW s
    PROVE  Keeps(ReadSpan(h, id, file, s), h)
<1> DEFINE ch == <<file, s.stripe, s.chunk>>
           f == ReadOnce(h, id, ch, s)
           g == ReadRetry(f, id, ch, s)
           e == ReadRetry(g, id, ch, s)
<1>1. Keeps(h, h)
  BY DEF Keeps
<1>2. Keeps(f, h)
  BY ReadOnceKeeps
<1>3. Keeps(g, h)
  <2>1. Record(f)
    BY <1>2 DEF Keeps
  <2> HIDE DEF f
  <2>2. Keeps(g, f)
    BY <2>1, ReadOnceKeeps DEF ReadRetry, Keeps
  <2> QED BY <1>2, <2>2, KeepsTwice
<1>4. Keeps(e, h)
  <2>1. Record(g)
    BY <1>3 DEF Keeps
  <2> HIDE DEF g
  <2>2. Keeps(e, g)
    BY <2>1, ReadOnceKeeps DEF ReadRetry, Keeps
  <2> QED BY <1>3, <2>2, KeepsTwice
<1>5. e = ReadChunk(h, id, ch, s)
  BY DEF ReadChunk
<1> HIDE DEF e
<1>6. Keeps([e EXCEPT !.chunks = @ + 1], h)
  BY <1>4 DEF Keeps, Record, Fields
<1>7. Keeps([h EXCEPT !.broken = @ \cup {s.stripe}], h)
  BY DEF Keeps, Record, Fields
<1> QED BY <1>1, <1>5, <1>6, <1>7 DEF ReadSpan

\* What holds of the record all through the loops.
Shaped(h) == Record(h) /\ h.up \subseteq Nodes /\ GoodMaps(h.c2n, h.c2r)

\* A send keeps it.
LEMMA KeepsShaped ==
    ASSUME NEW g, NEW h, Keeps(g, h), Shaped(h)
    PROVE  Shaped(g)
  BY DEF Keeps, Shaped

\* A new chunk gets a primary and a replica node, whichever are up.
LEMMA PlacedShaped ==
    ASSUME NEW h, Shaped(h), NEW ch \in Universe
    PROVE  Shaped(Placed(h, ch))
<1> DEFINE f == Placed(h, ch)
           p == IF Has(h.c2n, ch) THEN h.c2n
                ELSE Put(h.c2n, ch, PutChunk(h.up, ch[3]))
           r == IF Has(h.c2r, ch) THEN h.c2r
                ELSE Put(h.c2r, ch, PutReplica(h.up, ch[3]))
<1>1. DOMAIN h = Fields /\ h.fate \in Fates /\ h.up \subseteq Nodes
      /\ GoodMaps(h.c2n, h.c2r)
  BY DEF Shaped, Record
<1>2. f = [[h EXCEPT !.c2n = p] EXCEPT !.c2r = r]
  BY <1>1 DEF Placed, Fields
<1>3. PutChunk(h.up, ch[3]) \in Primaries /\ PutReplica(h.up, ch[3]) \in Replicas
  BY DEF PutChunk, PutReplica, Primaries, Replicas
<1>4. DOMAIN p \subseteq Universe /\ \A k \in DOMAIN p : p[k] \in Primaries
  BY <1>1, <1>3 DEF GoodMaps, Put
<1>5. DOMAIN r \subseteq Universe /\ \A k \in DOMAIN r : r[k] \in Replicas
  BY <1>1, <1>3 DEF GoodMaps, Put
<1> HIDE DEF f, p, r
<1>6. DOMAIN f = Fields /\ f.fate = h.fate /\ f.up = h.up /\ f.c2n = p /\ f.c2r = r
  BY <1>1, <1>2 DEF Fields
<1>7. Shaped(f)
  BY <1>1, <1>4, <1>5, <1>6 DEF Shaped, Record, GoodMaps
<1> QED BY <1>7 DEF f

\* A piece of a write.
LEMMA WriteSpanShaped ==
    ASSUME NEW h, Shaped(h), NEW id, NEW rid, NEW file, NEW s,
           <<file, s.stripe, s.chunk>> \in Universe
    PROVE  Shaped(WriteSpan(h, id, rid, file, s))
<1> DEFINE ch == <<file, s.stripe, s.chunk>>
           Msg(i) == [op |-> "write", id |-> i, chunk |-> ch, offset |-> s.offset,
                      count |-> s.count,
                      data |-> SubSeq(Buffer(id, s.from + s.count),
                                      s.from + 1, s.from + s.count)]
           f == Placed(h, ch)
           n == Get(f.c2n, ch)
           g == WriteChunk(f, n, Msg(id))
           r == Get(g.c2r, ch)
           e == WriteReplica(g, r, Msg(rid))
<1>1. WriteSpan(h, id, rid, file, s)
        = IF ~h.ok THEN h ELSE [e EXCEPT !.chunks = @ + 1, !.replicas = @ + 1]
  BY DEF WriteSpan
<1>2. Shaped(f)
  BY PlacedShaped
<1> HIDE DEF f, Msg, n
<1>3. Shaped(g)
  <2> DEFINE a == SendOrDown(f, n, Msg(id))
             b == SendOrDown(a, n, Msg(id))
  <2>1. g = a \/ g = b
    BY DEF WriteChunk
  <2>2. Keeps(a, f)
    BY <1>2, SendOrDownKeeps DEF Shaped
  <2> HIDE DEF a, g
  <2>3. Keeps(b, a)
    BY <2>2, SendOrDownKeeps DEF Keeps
  <2> HIDE DEF b
  <2>4. Shaped(a) /\ Shaped(b)
    BY <1>2, <2>2, <2>3, KeepsShaped
  <2> QED BY <2>1, <2>4
<1> HIDE DEF g, r
<1>4. Shaped(e)
  <2> DEFINE a == SendOrDown(g, r, Msg(rid))
             b == Send(a, PutReplica(a.up, Msg(rid).chunk[3]), Msg(rid))
  <2>1. e = a \/ e = b
    BY DEF WriteReplica
  <2>2. Keeps(a, g)
    BY <1>3, SendOrDownKeeps DEF Shaped
  <2> HIDE DEF a, e
  <2>3. Keeps(b, a)
    BY <2>2, SendKeeps DEF Keeps
  <2> HIDE DEF b
  <2>4. Shaped(a) /\ Shaped(b)
    BY <1>3, <2>2, <2>3, KeepsShaped
  <2> QED BY <2>1, <2>4
<1> HIDE DEF e
<1> DEFINE d == [e EXCEPT !.chunks = @ + 1, !.replicas = @ + 1]
<1>5. DOMAIN d = Fields /\ d.fate = e.fate /\ d.up = e.up /\ d.c2n = e.c2n /\ d.c2r = e.c2r
  BY <1>4 DEF Shaped, Record, Fields
<1> HIDE DEF d
<1>6. Shaped(d)
  BY <1>4, <1>5 DEF Shaped, Record
<1> QED BY <1>1, <1>6 DEF d

\* The deletion of a chunk only takes entries out of the maps.
LEMMA DeleteOneShaped ==
    ASSUME NEW h, Shaped(h), NEW id, NEW ch
    PROVE  Shaped(DeleteOne(h, id, ch))
<1>1. ASSUME NEW g, Shaped(g), NEW n, NEW m
      PROVE  /\ Shaped([Send(g, n, m) EXCEPT !.c2n = Erase(@, ch), !.chunks = @ + 1])
             /\ Shaped([Send(g, n, m) EXCEPT !.c2r = Erase(@, ch), !.chunks = @ + 1])
  <2> DEFINE f == Send(g, n, m)
             d == [f EXCEPT !.c2n = Erase(@, ch), !.chunks = @ + 1]
             e == [f EXCEPT !.c2r = Erase(@, ch), !.chunks = @ + 1]
  <2>1. Shaped(f)
    BY <1>1, SendKeeps, KeepsShaped DEF Shaped
  <2> HIDE DEF f
  <2>2. /\ DOMAIN d = Fields /\ d.fate = f.fate /\ d.up = f.up
        /\ d.c2n = Erase(f.c2n, ch) /\ d.c2r = f.c2r
    BY <2>1 DEF Shaped, Record, Fields
  <2>3. /\ DOMAIN e = Fields /\ e.fate = f.fate /\ e.up = f.up
        /\ e.c2n = f.c2n /\ e.c2r = Erase(f.c2r, ch)
    BY <2>1 DEF Shaped, Record, Fields
  <2> HIDE DEF d, e
  <2>4. \A c2 : /\ DOMAIN Erase(c2, ch) \subseteq DOMAIN c2
                /\ \A k \in DOMAIN Erase(c2, ch) : Erase(c2, ch)[k] = c2[k]
    BY DEF Erase
  <2>5. GoodMaps(d.c2n, d.c2r) /\ GoodMaps(e.c2n, e.c2r)
    BY <2>1, <2>2, <2>3, <2>4 DEF Shaped, GoodMaps
  <2>6. Shaped(d) /\ Shaped(e)
    BY <2>1, <2>2, <2>3, <2>5 DEF Shaped, Record
  <2> QED BY <2>6 DEF d, e, f
<1>2. Shaped(DeleteChunk(h, id, ch))
  BY <1>1 DEF DeleteChunk
<1> DEFINE f == DeleteChunk(h, id, ch)
<1> HIDE DEF f
<1>3. Shaped(f)
  BY <1>2 DEF f
<1>4. Shaped(DeleteReplica(f, id, ch))
  BY <1>1, <1>3 DEF DeleteReplica
<1> QED BY <1>4 DEF DeleteOne, f

\* By induction over the turns: the loops keep it.
LEMMA ReadLoopShaped ==
    ASSUME NEW id, NEW b, NEW file, NEW base, NEW n \in Nat, NEW seq,
           DOMAIN seq = 1 .. n, Shaped(base)
    PROVE  Shaped(ReadLoop!Loop(id, b, file, base, seq))
<1>1. PICK h : ReadLoop!Turns(h, id, b, file, base, n, seq)
  BY ReadLoop!LoopTurns
<1>2. /\ h[0] = base
      /\ \A i \in 1 .. n : h[i] = ReadTurn(id, b, file, h[i - 1], seq[i])
      /\ h[n] = ReadLoop!Loop(id, b, file, base, seq)
  BY <1>1 DEF ReadLoop!Turns
<1> DEFINE T == {k \in Nat : k <= n => Shaped(h[k])}
<1>3. 0 \in T
  BY <1>2
<1>4. ASSUME NEW k \in Nat, k \in T PROVE k + 1 \in T
  <2> SUFFICES ASSUME k + 1 <= n PROVE Shaped(h[k + 1])
    OBVIOUS
  <2>1. k + 1 \in 1 .. n /\ k + 1 - 1 = k /\ Shaped(h[k])
    BY <1>4
  <2>2. h[k + 1] = ReadSpan(h[k], id, file, seq[k + 1])
    BY <1>2, <2>1 DEF ReadTurn
  <2> QED BY <2>1, <2>2, ReadSpanKeeps, KeepsShaped DEF Shaped
<1>5. n \in T
  <2> HIDE DEF T
  <2> QED BY <1>3, <1>4, ReadLoop!NatSet
<1> QED BY <1>2, <1>5

LEMMA WriteLoopShaped ==
    ASSUME NEW id, NEW rid, NEW file, NEW base, NEW n \in Nat, NEW seq,
           DOMAIN seq = 1 .. n, Shaped(base),
           \A i \in 1 .. n : <<file, seq[i].stripe, seq[i].chunk>> \in Universe
    PROVE  Shaped(WriteLoop!Loop(id, rid, file, base, seq))
<1>1. PICK h : WriteLoop!Turns(h, id, rid, file, base, n, seq)
  BY WriteLoop!LoopTurns
<1>2. /\ h[0] = base
      /\ \A i \in 1 .. n : h[i] = WriteTurn(id, rid, file, h[i - 1], seq[i])
      /\ h[n] = WriteLoop!Loop(id, rid, file, base, seq)
  BY <1>1 DEF WriteLoop!Turns
<1> DEFINE T == {k \in Nat : k <= n => Shaped(h[k])}
<1>3. 0 \in T
  BY <1>2
<1>4. ASSUME NEW k \in Nat, k \in T PROVE k + 1 \in T
  <2> SUFFICES ASSUME k + 1 <= n PROVE Shaped(h[k + 1])
    OBVIOUS
  <2>1. k + 1 \in 1 .. n /\ k + 1 - 1 = k /\ Shaped(h[k])
    BY <1>4
  <2>2. h[k + 1] = WriteSpan(h[k], id, rid, file, seq[k + 1])
    BY <1>2, <2>1 DEF WriteTurn
  <2> QED BY <2>1, <2>2, WriteSpanShaped
<1>5. n \in T
  <2> HIDE DEF T
  <2> QED BY <1>3, <1>4, WriteLoop!NatSet
<1> QED BY <1>2, <1>5

LEMMA DeleteLoopShaped ==
    ASSUME NEW id, NEW b, NEW c, NEW base, NEW n \in Nat, NEW seq,
           DOMAIN seq = 1 .. n, Shaped(base)
    PROVE  Shaped(DeleteLoop!Loop(id, b, c, base, seq))
<1>1. PICK h : DeleteLoop!Turns(h, id, b, c, base, n, seq)
  BY DeleteLoop!LoopTurns
<1>2. /\ h[0] = base
      /\ \A i \in 1 .. n : h[i] = DeleteTurn(id, b, c, h[i - 1], seq[i])
      /\ h[n] = DeleteLoop!Loop(id, b, c, base, seq)
  BY <1>1 DEF DeleteLoop!Turns
<1> DEFINE T == {k \in Nat : k <= n => Shaped(h[k])}
<1>3. 0 \in T
  BY <1>2
<1>4. ASSUME NEW k \in Nat, k \in T PROVE k + 1 \in T
  <2> SUFFICES ASSUME k + 1 <= n PROVE Shaped(h[k + 1])
    OBVIOUS
  <2>1. k + 1 \in 1 .. n /\ k + 1 - 1 = k /\ Shaped(h[k])
    BY <1>4
  <2>2. h[k + 1] = DeleteOne(h[k], id, seq[k + 1])
    BY <1>2, <2>1 DEF DeleteTurn
  <2> QED BY <2>1, <2>2, DeleteOneShaped
<1>5. n \in T
  <2> HIDE DEF T
  <2> QED BY <1>3, <1>4, DeleteLoop!NatSet
<1> QED BY <1>2, <1>5

-------------------------------------------------------------------------------
(* The type invariant *)

\* The parts of TypeOK that the other invariants do not have.
MapsInv == /\ barista_up \in BOOLEAN
           /\ GoodMaps(chunk_to_node, chunk_to_replica_node)
           /\ up_nodes \subseteq Nodes /\ connected \subseteq Nodes
           /\ alive \subseteq Nodes

\* The handlers that send, or crash.
LEMMA SentMaps ==
    ASSUME MapsInv, NEW h, Shaped(h), Sent(h), UNCHANGED machines
    PROVE  MapsInv'
  BY DEF MapsInv, Sent, machines, Shaped

LEMMA CrashMaps ==
    ASSUME MapsInv, Crash
    PROVE  MapsInv'
  BY DEF MapsInv, Crash, machines, maps, network

LEMMA StartShaped ==
    ASSUME MapsInv, NEW fate \in Fates
    PROVE  Shaped(Start(fate))
  BY DEF Shaped, Record, Start, Fields, MapsInv

\* What the handlers leave of the maps.
LEMMA ReadMaps ==
    ASSUME MapsInv, NEW c, NEW fd, NEW count \in Nat, ReadSent(c, fd, count),
           file_cursors[fd].offset \in Nat
    PROVE  MapsInv'
<1> DEFINE id == request_id + 1
           b == request_id + 2
           file == FileOf(fd)
           seq == Spans(StripeSize, ChunkSize, file_cursors[fd].offset, count)
           L(fate) == FoldLeft(LAMBDA h, s : ReadSpan(h, id, file, s), Start(fate), seq)
<1>1. PICK fate \in Fates : LET h == L(fate) IN
          (Sent(h) /\ UNCHANGED machines) \/ Crash
  BY DEF ReadSent, get_new_request_id
<1>2. L(fate) = ReadLoop!Loop(id, b, file, Start(fate), seq)
  BY DEF ReadLoop!Loop, ReadTurn, FoldLeft, ReadLoop!FoldLeft,
     MapThenFoldSet, ReadLoop!MapThenFoldSet, Max, ReadLoop!Max
<1>3. PICK n \in Nat : DOMAIN seq = 1 .. n
  <2>1. StripeSize \in Nat /\ StripeSize # 0 /\ ChunkSize \in Nat /\ ChunkSize # 0
    BY SizesAssumption
  <2> DEFINE G == GoodSpans(StripeSize, ChunkSize, file_cursors[fd].offset, count)
  <2>2. seq \in Seq(G)
    BY <2>1, SpansRun
  <2> HIDE DEF G, seq
  <2> QED BY <2>2
<1> DEFINE h == L(fate)
<1> HIDE DEF L, seq, id, b
<1>4. Shaped(h)
  BY <1>2, <1>3, StartShaped, ReadLoopShaped
<1> QED BY <1>1, <1>4, SentMaps, CrashMaps

\* The pieces of a write are in chunks of a file within the bounds.
LEMMA WriteSpans ==
    ASSUME UsersInv, Sizes, NEW c, NEW fd, NEW count \in Nat,
           WriteSent(c, fd, count)
    PROVE  LET file == FileOf(fd)
               seq == Spans(StripeSize, ChunkSize, file_cursors[fd].offset, count)
           IN  /\ file \in DOMAIN metadata
               /\ \E n \in Nat : /\ DOMAIN seq = 1 .. n
                                 /\ \A i \in 1 .. n :
                                       <<file, seq[i].stripe, seq[i].chunk>> \in Universe
<1> DEFINE file == FileOf(fd)
           offset == file_cursors[fd].offset
           seq == Spans(StripeSize, ChunkSize, offset, count)
<1>1. /\ file \in FileIds /\ file \in DOMAIN metadata /\ fd \in DOMAIN file_cursors
      /\ file_cursors[fd].file = file /\ metadata[file].size + count <= MaxSize
  <2>1. file \in DOMAIN metadata /\ metadata[file].size + count <= MaxSize
    <3>1. WriteVerdict(c, fd, count) = Proceed /\ SizeOf(file) + count <= MaxSize
      BY DEF WriteSent
    <3>2. file \in DOMAIN metadata
      BY <3>1 DEF WriteVerdict, Proceed, FILE_NOT_OPEN_FOR_WRITE, UNABLE_TO_STAT_FILE
    <3> QED BY <3>1, <3>2 DEF SizeOf
  <2>2. file \in 1 .. next_file_id /\ next_file_id \in 0 .. MaxFiles
    BY <2>1 DEF Sizes, FilesGood, UsersInv, Files
  <2>3. MaxFiles \in Nat
    BY SizesAssumption
  <2>4. file # 0 /\ file \in FileIds
    BY <2>2, <2>3 DEF FileIds
  <2> QED BY <2>1, <2>4 DEF FileOf
<1>2. offset \in Nat /\ offset + count <= MaxSize
  <2>1. offset \in Nat /\ offset <= metadata[file].size /\ metadata[file].size \in Nat
    BY <1>1 DEF Sizes, CursorsGood, FilesGood
  <2> DEFINE size == metadata[file].size
  <2> HIDE DEF size, offset
  <2>2. offset \in Nat /\ offset <= size /\ size \in Nat /\ size + count <= MaxSize
        /\ MaxSize \in Nat
    BY <1>1, <2>1, SizesAssumption DEF size
  <2> QED BY <2>2
<1> HIDE DEF offset
<1>3. \E n \in Nat : /\ DOMAIN seq = 1 .. n
                     /\ \A i \in 1 .. n :
                           <<file, seq[i].stripe, seq[i].chunk>> \in Universe
  <2>1. /\ StripeSize \in Nat /\ StripeSize # 0 /\ ChunkSize \in Nat /\ ChunkSize # 0
        /\ MaxSize \in Nat
    BY SizesAssumption
  <2> DEFINE G == GoodSpans(StripeSize, ChunkSize, offset, count)
  <2>2. seq \in Seq(G)
    BY <1>2, <2>1, SpansRun
  <2>3. ASSUME NEW x \in G PROVE <<file, x.stripe, x.chunk>> \in Universe
    <3>1. /\ x.stripe \in 1 .. (MaxSize \div StripeSize) + 1
          /\ x.chunk \in 1 .. (StripeSize + ChunkSize - 1) \div ChunkSize
      BY <1>2, <2>1, SpanWithin
    <3> QED BY <1>1, <3>1 DEF Universe
  <2> HIDE DEF G, seq
  <2>4. DOMAIN seq = 1 .. Len(seq) /\ Len(seq) \in Nat
        /\ \A i \in 1 .. Len(seq) : seq[i] \in G
    BY <2>2
  <2> QED BY <2>3, <2>4
<1> QED BY <1>1, <1>3 DEF offset

LEMMA WriteMaps ==
    ASSUME MapsInv, UsersInv, Sizes, NEW c, NEW fd, NEW count \in Nat,
           WriteSent(c, fd, count)
    PROVE  MapsInv'
<1> DEFINE id == request_id + 1
           rid == request_id + 2
           file == FileOf(fd)
           offset == file_cursors[fd].offset
           seq == Spans(StripeSize, ChunkSize, offset, count)
           L(fate) == FoldLeft(LAMBDA h, s : WriteSpan(h, id, id + 1, file, s),
                               Start(fate), seq)
<1>1. PICK fate \in Fates : LET h == L(fate) IN
          (Sent(h) /\ UNCHANGED machines) \/ Crash
  BY DEF WriteSent, get_new_request_id
<1>2. L(fate) = WriteLoop!Loop(id, id + 1, file, Start(fate), seq)
  BY DEF WriteLoop!Loop, WriteTurn, FoldLeft, WriteLoop!FoldLeft,
     MapThenFoldSet, WriteLoop!MapThenFoldSet, Max, WriteLoop!Max
<1>3. PICK n \in Nat : /\ DOMAIN seq = 1 .. n
                       /\ \A i \in 1 .. n :
                             <<file, seq[i].stripe, seq[i].chunk>> \in Universe
  BY WriteSpans
<1> DEFINE h == L(fate)
<1> HIDE DEF L, seq, id, rid, file
<1>4. Shaped(h)
  BY <1>2, <1>3, StartShaped, WriteLoopShaped
<1> QED BY <1>1, <1>4, SentMaps, CrashMaps

LEMMA DeleteMaps ==
    ASSUME MapsInv, IsFiniteSet(DOMAIN chunk_to_node), NEW c, NEW path,
           DeleteSent(c, path)
    PROVE  MapsInv'
<1> DEFINE id == request_id + 1
           b == request_id + 2
           file == pathname_to_file_id[path]
           seq == AllChunks(file)
           L(fate) == FoldLeft(LAMBDA h, ch : DeleteOne(h, id, ch), Start(fate), seq)
<1>1. PICK fate \in Fates : LET h == L(fate) IN
          (Sent(h) /\ UNCHANGED machines) \/ Crash
  BY DEF DeleteSent, get_new_request_id
<1>2. L(fate) = DeleteLoop!Loop(id, b, 0, Start(fate), seq)
  BY DEF DeleteLoop!Loop, DeleteTurn, FoldLeft, DeleteLoop!FoldLeft,
     MapThenFoldSet, DeleteLoop!MapThenFoldSet, Max, DeleteLoop!Max
<1>3. PICK n \in Nat : DOMAIN seq = 1 .. n
  <2> DEFINE S == {k \in DOMAIN chunk_to_node : k[1] = file}
  <2>1. S \subseteq DOMAIN chunk_to_node
    OBVIOUS
  <2>2. Cardinality(S) \in Nat
    BY <2>1, FS_Subset, FS_CardinalityType
  <2>3. DOMAIN seq = 1 .. Cardinality(S)
    BY DEF AllChunks, Sorted
  <2> QED BY <2>2, <2>3
<1> DEFINE h == L(fate)
<1> HIDE DEF L, seq, id, b
<1>4. Shaped(h)
  BY <1>2, <1>3, StartShaped, DeleteLoopShaped
<1> QED BY <1>1, <1>4, SentMaps, CrashMaps

\* Every step keeps the maps good.
LEMMA NextMaps == UsersInv /\ Sizes /\ NetInv /\ MapsInv /\ [Next]_vars => MapsInv'
<1> SUFFICES ASSUME UsersInv, Sizes, NetInv, MapsInv, [Next]_vars PROVE MapsInv'
  OBVIOUS
<1>1. ASSUME UNCHANGED <<barista_up, maps, up_nodes, connected, alive>> PROVE MapsInv'
  BY <1>1 DEF MapsInv, maps
<1>2. CASE UNCHANGED vars
  BY <1>1, <1>2 DEF vars, network, machines
<1>3. ASSUME NEW c \in Procs, ClientCall(c) PROVE MapsInv'
  <2>1. ASSUME NEW path, file_storage_stat(c, path) PROVE MapsInv'
    BY <1>1, <2>1 DEF file_storage_stat, network, machines
  <2>2. ASSUME NEW path, NEW flags, open_file(c, path, flags) PROVE MapsInv'
    BY <1>1, <2>2 DEF open_file, network, machines
  <2>3. ASSUME NEW fd, close_file(c, fd) PROVE MapsInv'
    BY <1>1, <2>3 DEF close_file, network, machines
  <2>4. ASSUME NEW fd, NEW whence, NEW o, file_seek(c, fd, whence, o) PROVE MapsInv'
    BY <1>1, <2>4 DEF file_seek, network, machines
  <2>5. ASSUME NEW path, delete_file(c, path) PROVE MapsInv'
    <3>1. CASE DeleteRefused(c, path)
      BY <1>1, <3>1 DEF DeleteRefused, network, machines
    <3>2. CASE DeleteSent(c, path)
      BY <3>2, DeleteMaps DEF NetInv
    <3> QED BY <2>5, <3>1, <3>2 DEF delete_file
  <2>6. ASSUME NEW fd, NEW count \in Nat, read_file(c, fd, count) PROVE MapsInv'
    <3>1. CASE ReadRefused(c, fd, count)
      BY <1>1, <3>1 DEF ReadRefused, network, machines
    <3>2. CASE ReadSent(c, fd, count)
      <4>1. ReadVerdict(c, fd, count) = Proceed
        BY <3>2 DEF ReadSent
      <4>2. FileOf(fd) \in DOMAIN metadata
        BY <4>1 DEF ReadVerdict, Proceed, FILE_NOT_OPEN_FOR_READ, UNABLE_TO_STAT_FILE
      <4>3. FileOf(fd) # 0
        BY <4>2 DEF Sizes, FilesGood
      <4>4. fd \in DOMAIN file_cursors
        BY <4>3 DEF FileOf
      <4>5. file_cursors[fd].offset \in Nat
        BY <4>4 DEF Sizes, CursorsGood
      <4> QED BY <3>2, <4>5, ReadMaps
    <3> QED BY <2>6, <3>1, <3>2, CrashMaps DEF read_file
  <2>7. ASSUME NEW fd, NEW count \in Nat, write_file(c, fd, count) PROVE MapsInv'
    <3>1. CASE WriteRefused(c, fd, count)
      BY <1>1, <3>1 DEF WriteRefused, network, machines
    <3>2. CASE WriteSent(c, fd, count)
      BY <3>2, WriteMaps
    <3> QED BY <2>7, <3>1, <3>2, CrashMaps DEF write_file
  <2>8. Counts \subseteq Nat
    BY SizesAssumption
  <2> QED BY <1>3, <2>1, <2>2, <2>3, <2>4, <2>5, <2>6, <2>7, <2>8 DEF ClientCall
<1>4. ASSUME NEW c \in Procs, ClientEnds(c) PROVE MapsInv'
  BY <1>1, <1>4 DEF ClientEnds, network
<1>5. ASSUME NEW n \in Nodes, NodeAnswer(n) PROVE MapsInv'
  BY <1>1, <1>5 DEF NodeAnswer, read_response_handler, write_response_handler,
     delete_response_handler, Taken, machines
<1>6. ASSUME NEW n \in Nodes, Espresso(n) PROVE MapsInv'
  BY <1>1, <1>6 DEF Espresso
<1>7. ASSUME NEW n \in Nodes, NodeDies(n) \/ NodeGone(n) \/ NodeReturns(n)
      PROVE  MapsInv'
  BY <1>7 DEF NodeDies, NodeGone, NodeReturns, MapsInv, maps, machines,
     set_node_down, set_node_up
<1> QED BY <1>2, <1>3, <1>4, <1>5, <1>6, <1>7 DEF Next

\* Barista's state keeps its types: ids, descriptors and sizes within their
\* bounds, cursors and locks well formed, and every chunk that the maps name is
\* one of a file within its bounds, on a primary node, its replica on a replica
\* node, through all failures and retries of sends.
THEOREM BaristaTypes == Spec => []TypeOK
<1>1. Init => MapsInv
  BY DEF Init, MapsInv, GoodMaps, EmptyMap
<1>2. UsersInv /\ Sizes /\ NetInv /\ MapsInv => TypeOK
  <2> SUFFICES ASSUME UsersInv, Sizes, NetInv, MapsInv PROVE TypeOK
    OBVIOUS
  <2>1. /\ next_file_id \in 0 .. MaxFiles /\ MaxFiles \in Nat
        /\ DOMAIN metadata \subseteq 1 .. next_file_id
        /\ \A f \in DOMAIN metadata : metadata[f].size \in 0 .. MaxSize
        /\ DOMAIN pathname_to_file_id \subseteq Paths
    BY SizesAssumption DEF UsersInv, Files, Sizes, FilesGood, PathsGood
  <2>2. /\ last_fd \in 0 .. MaxFds /\ request_id \in 0 .. MaxRequests
        /\ DOMAIN file_cursors \subseteq 1 .. last_fd
    BY SizesAssumption DEF UsersInv, Numbers, Sizes, Bounds
  <2>3. \A fd \in DOMAIN file_cursors :
            file_cursors[fd] \in [client : Procs, file : FileIds, offset : Nat]
    <3>1. 1 .. next_file_id \subseteq FileIds
      BY <2>1 DEF FileIds
    <3> QED BY <3>1 DEF Sizes, CursorsGood
  <2>4. file_locks \in [FileIds -> LockRecords]
    BY DEF UsersInv, LocksGood
  <2> QED BY <2>1, <2>2, <2>3, <2>4 DEF TypeOK, MapsInv, GoodMaps
<1>3. Spec => [](UsersInv /\ Sizes /\ NetInv)
  BY NetInvariance
<1>4. UsersInv /\ Sizes /\ NetInv /\ MapsInv /\ [Next]_vars => MapsInv'
  BY NextMaps
<1> QED BY <1>1, <1>2, <1>3, <1>4, PTL DEF Spec

-------------------------------------------------------------------------------
(* Maps whose keys differ *)

\* The chunks the bounds allow are different keys of a std::map.  It is so for
\* files of one stripe, and for one file of two: see section 5 of the README.
KeysDiffer == \A x, y \in Universe : SameKey(x, y) => x = y

\* The operations of a map are then those of a function.
LEMMA MapAsFunction ==
    ASSUME KeysDiffer, NEW m, DOMAIN m \subseteq Universe, NEW k \in Universe
    PROVE  /\ Has(m, k) <=> k \in DOMAIN m
           /\ k \in DOMAIN m => Get(m, k) = m[k]
           /\ DOMAIN Erase(m, k) = DOMAIN m \ {k}
           /\ \A x \in DOMAIN m : x # k => Erase(m, k)[x] = m[x]
<1>1. \A x \in Universe : SameKey(x, k) <=> x = k
  BY KeysAssumption DEF KeysDiffer, SameKey, StrictWeakOrder
<1>2. Has(m, k) <=> k \in DOMAIN m
  BY <1>1 DEF Has
<1>3. k \in DOMAIN m => KeyFor(m, k) = k
  BY <1>1 DEF KeyFor
<1>4. DOMAIN Erase(m, k) = DOMAIN m \ {k}
      /\ \A x \in DOMAIN m : x # k => Erase(m, k)[x] = m[x]
  BY <1>1 DEF Erase
<1> QED BY <1>2, <1>3, <1>4 DEF Get

\* Their iteration goes through all keys, and no others.
LEMMA SortedAll ==
    ASSUME KeysDiffer, NEW S, S \subseteq Universe, IsFiniteSet(S)
    PROVE  /\ Cardinality(S) \in Nat /\ DOMAIN Sorted(S) = 1 .. Cardinality(S)
           /\ \A i \in DOMAIN Sorted(S) : Sorted(S)[i] \in S
           /\ \A k \in S : \E i \in DOMAIN Sorted(S) : Sorted(S)[i] = k
           /\ \A i, j \in DOMAIN Sorted(S) :
                 i < j => ChunkLess(Sorted(S)[i], Sorted(S)[j])
<1> DEFINE Below(k) == {x \in S : ChunkLess(x, k)}
           Rank(k) == Cardinality(Below(k))
           n == Cardinality(S)
           f == [k \in S |-> Rank(k) + 1]
<1>1. /\ \A x \in S : ~ChunkLess(x, x)
      /\ \A x, y, z \in S : ChunkLess(x, y) /\ ChunkLess(y, z) => ChunkLess(x, z)
      /\ \A x, y \in S : ChunkLess(x, y) \/ ChunkLess(y, x) \/ x = y
  <2>1. \A x, y \in S : SameKey(x, y) => x = y
    BY DEF KeysDiffer
  <2> QED BY <2>1, KeysAssumption DEF SameKey, StrictWeakOrder
<1>2. n \in Nat
  BY FS_CardinalityType
<1>3. ASSUME NEW k \in S
      PROVE  IsFiniteSet(Below(k)) /\ Rank(k) \in Nat /\ Rank(k) + 1 \in 1 .. n
  <2>1. Below(k) \in SUBSET S /\ k \in S /\ k \notin Below(k)
    BY <1>1
  <2>2. IsFiniteSet(Below(k)) /\ Rank(k) <= n /\ (n = Rank(k) => S = Below(k))
    <3> HIDE DEF Below
    <3> QED BY <2>1, FS_Subset
  <2>3. Rank(k) \in Nat
    BY <2>2, FS_CardinalityType
  <2>4. Rank(k) # n
    BY <2>1, <2>2
  <2> HIDE DEF Rank, n
  <2> QED BY <1>2, <2>2, <2>3, <2>4
<1>4. ASSUME NEW x \in S, NEW y \in S, ChunkLess(x, y) PROVE Rank(x) < Rank(y)
  <2>1. Below(x) \in SUBSET Below(y) /\ x \in Below(y) /\ x \notin Below(x)
    BY <1>1, <1>4
  <2>2. IsFiniteSet(Below(y)) /\ Rank(x) \in Nat /\ Rank(y) \in Nat
    BY <1>3
  <2>3. Rank(x) <= Rank(y) /\ (Rank(y) = Rank(x) => Below(y) = Below(x))
    <3> HIDE DEF Below
    <3> QED BY <2>1, <2>2, FS_Subset
  <2>4. Rank(x) # Rank(y)
    BY <2>1, <2>3
  <2> HIDE DEF Rank
  <2> QED BY <2>2, <2>3, <2>4
<1>5. \A x, y \in S : Rank(x) = Rank(y) => x = y
  <2> SUFFICES ASSUME NEW x \in S, NEW y \in S, Rank(x) = Rank(y), x # y PROVE FALSE
    OBVIOUS
  <2>1. Rank(x) < Rank(y) \/ Rank(y) < Rank(x)
    BY <1>1, <1>4
  <2>2. Rank(x) \in Nat /\ Rank(y) \in Nat
    BY <1>3
  <2> HIDE DEF Rank
  <2> QED BY <2>1, <2>2
<1>6. DOMAIN Sorted(S) = 1 .. n
      /\ \A i \in 1 .. n : Sorted(S)[i] = CHOOSE k \in S : Rank(k) = i - 1
  BY DEF Sorted
<1>0. \A k \in S : Rank(k) \in Nat /\ Rank(k) + 1 \in 1 .. n
  BY <1>3
<1> HIDE DEF Rank, n
<1>7. f \in Injection(S, 1 .. n)
  <2>1. f \in [S -> 1 .. n]
    BY <1>0
  <2>2. \A x, y \in S : f[x] = f[y] => x = y
    <3> SUFFICES ASSUME NEW x \in S, NEW y \in S, f[x] = f[y] PROVE x = y
      OBVIOUS
    <3>1. Rank(x) + 1 = Rank(y) + 1 /\ Rank(x) \in Nat /\ Rank(y) \in Nat
      BY <1>0
    <3>2. Rank(x) = Rank(y)
      BY <3>1
    <3> QED BY <1>5, <3>2
  <2> QED BY <2>1, <2>2 DEF Injection, IsInjective
<1>8. \A i \in 1 .. n : \E k \in S : Rank(k) + 1 = i
  <2>1. IsFiniteSet(1 .. n) /\ Cardinality(1 .. n) = n
    BY <1>2, FS_Interval
  <2>2. f \in Surjection(S, 1 .. n)
    <3> HIDE DEF f
    <3> QED BY <1>7, <2>1, FS_Injection DEF n
  <2> QED BY <2>2 DEF Surjection
<1>9. ASSUME NEW i \in 1 .. n
      PROVE  Sorted(S)[i] \in S /\ Rank(Sorted(S)[i]) = i - 1
  <2>1. \E k \in S : Rank(k) = i - 1
    <3>1. PICK k \in S : Rank(k) + 1 = i
      BY <1>8
    <3>2. Rank(k) = i - 1
      BY <1>0, <3>1
    <3> QED BY <3>2
  <2> QED BY <1>6, <2>1
<1>10. ASSUME NEW k \in S PROVE \E i \in 1 .. n : Sorted(S)[i] = k
  <2>1. Rank(k) + 1 \in 1 .. n /\ Rank(k) + 1 - 1 = Rank(k)
    BY <1>0
  <2> DEFINE i == Rank(k) + 1
             x == Sorted(S)[i]
  <2>2. x \in S /\ Rank(x) = i - 1
    BY <1>9, <2>1
  <2>3. i - 1 = Rank(k)
    BY <1>0
  <2>4. x = k
    <3> HIDE DEF x, i
    <3> QED BY <1>5, <2>2, <2>3
  <2> QED BY <2>1, <2>4
<1>11. ASSUME NEW i \in 1 .. n, NEW j \in 1 .. n, i < j
       PROVE  ChunkLess(Sorted(S)[i], Sorted(S)[j])
  <2> DEFINE x == Sorted(S)[i]
             y == Sorted(S)[j]
  <2>1. x \in S /\ y \in S /\ Rank(x) = i - 1 /\ Rank(y) = j - 1
    BY <1>9
  <2>2. Rank(x) < Rank(y)
    BY <1>2, <1>11, <2>1
  <2> HIDE DEF x, y
  <2>3. x # y /\ ~(Rank(y) < Rank(x))
    BY <1>0, <2>1, <2>2
  <2>4. ChunkLess(x, y)
    BY <1>1, <1>4, <2>1, <2>3
  <2> QED BY <2>4 DEF x, y
<1> QED BY <1>2, <1>6, <1>9, <1>10, <1>11 DEF n

\* Of the chunks of one file, the earlier is the less.
LEMMA EarlierIsLess ==
    ASSUME KeysDiffer, NEW x \in Universe, NEW y \in Universe, x[1] = y[1],
           x[2] < y[2] \/ (x[2] = y[2] /\ x[3] < y[3])
    PROVE  ChunkLess(x, y) /\ ~ChunkLess(y, x)
<1>1. x[1] \in Nat /\ x[2] \in Nat /\ x[3] \in Nat
      /\ y[1] \in Nat /\ y[2] \in Nat /\ y[3] \in Nat
  BY DEF Universe, FileIds
<1>2. ~ChunkLess(x, y) \/ ~ChunkLess(y, x)
  BY KeysAssumption DEF StrictWeakOrder
<1>3. ChunkLess(x, y) \/ ChunkLess(y, x)
  <2>1. x # y
    BY <1>1
  <2> QED BY <2>1 DEF KeysDiffer, SameKey
<1>4. ChunkLess(y, x) => ChunkLess(x, y)
  BY <1>1 DEF ChunkLess
<1> QED BY <1>2, <1>3, <1>4

-------------------------------------------------------------------------------
(* Sending while all nodes run *)

AllUp == up_nodes = Nodes /\ connected = Nodes /\ alive = Nodes

\* Message m is on the connection to n.
On(w, n, m) == \E i \in DOMAIN w[n] : w[n][i] = m

\* A handler's record while no send has failed.
Calm(h) == /\ DOMAIN h = Fields
           /\ h.up = Nodes /\ h.ok = TRUE /\ h.failed = FALSE
           /\ Wires(h.out)
           /\ GoodMaps(h.c2n, h.c2r)

\* g is h with one more message, m to n.
SentOne(g, h, n, m) ==
    /\ Calm(g) /\ g.c2n = h.c2n /\ g.c2r = h.c2r /\ g.broken = h.broken
    /\ \A k \in Nodes : \A x : On(g.out, k, x) <=> On(h.out, k, x) \/ (k = n /\ x = m)

\* A send puts its message on the connection, and that is all.
LEMMA CalmSend ==
    ASSUME AllUp, NEW h, Calm(h), NEW n \in Nodes, NEW m
    PROVE  SentOne(Send(h, n, m), h, n, m)
<1> DEFINE g == Send(h, n, m)
           q == Append(h.out[n], m)
           v == [h.out EXCEPT ![n] = q]
<1>1. /\ DOMAIN h = Fields /\ h.up = Nodes /\ h.ok = TRUE /\ h.failed = FALSE
      /\ Wires(h.out) /\ Listed(h.out[n])
  BY DEF Calm, Wires
<1>2. g = [[h EXCEPT !.out = v] EXCEPT !.failed = FALSE]
  BY <1>1 DEF Send, SendToLive, AllUp
<1>3. /\ Len(h.out[n]) \in Nat /\ DOMAIN h.out[n] = 1 .. Len(h.out[n])
      /\ DOMAIN q = 1 .. Len(h.out[n]) + 1
      /\ q[Len(h.out[n]) + 1] = m /\ Listed(q)
      /\ \A i \in DOMAIN h.out[n] : q[i] = h.out[n][i]
  BY <1>1, AppendListed
<1>4. DOMAIN v = Nodes /\ v[n] = q /\ \A k \in Nodes : k # n => v[k] = h.out[k]
  BY <1>1 DEF Wires
<1> HIDE DEF g, q, v
<1>5. /\ DOMAIN g = Fields /\ g.out = v /\ g.failed = FALSE /\ g.ok = h.ok
      /\ g.up = h.up /\ g.c2n = h.c2n /\ g.c2r = h.c2r /\ g.broken = h.broken
  BY <1>1, <1>2 DEF Fields
<1>6. Wires(v)
  BY <1>1, <1>3, <1>4 DEF Wires
<1>7. Calm(g)
  BY <1>1, <1>5, <1>6 DEF Calm
<1>8. \A x : (\E i \in DOMAIN q : q[i] = x) <=> (\E i \in DOMAIN h.out[n] : h.out[n][i] = x) \/ x = m
  <2> DEFINE len == Len(h.out[n])
  <2>1. DOMAIN q = DOMAIN h.out[n] \cup {len + 1} /\ len + 1 \in DOMAIN q
    BY <1>3
  <2> QED BY <1>3, <2>1
<1>9. \A k \in Nodes : \A x : On(v, k, x) <=> On(h.out, k, x) \/ (k = n /\ x = m)
  BY <1>4, <1>8 DEF On
<1>10. SentOne(g, h, n, m)
  BY <1>5, <1>7, <1>9 DEF SentOne
<1> QED BY <1>10 DEF g

\* No try is repeated.
LEMMA CalmTries ==
    ASSUME AllUp, NEW h, Calm(h), NEW n \in Nodes, NEW m
    PROVE  /\ SentOne(SendOrDown(h, n, m), h, n, m)
           /\ SentOne(WriteChunk(h, n, m), h, n, m)
           /\ SentOne(WriteReplica(h, n, m), h, n, m)
<1> DEFINE g == Send(h, n, m)
<1>1. SentOne(g, h, n, m) /\ g.failed = FALSE
  <2>1. SentOne(g, h, n, m)
    BY CalmSend
  <2> HIDE DEF g
  <2> QED BY <2>1 DEF SentOne, Calm
<1>2. SendOrDown(h, n, m) = g
  <2> HIDE DEF g
  <2>1. DownIfFailed(g, n) = g
    BY <1>1 DEF DownIfFailed
  <2> QED BY <2>1 DEF SendOrDown, g
<1>3. WriteChunk(h, n, m) = g /\ WriteReplica(h, n, m) = g
  <2> HIDE DEF g
  <2> QED BY <1>1, <1>2 DEF WriteChunk, WriteReplica
<1> QED BY <1>1, <1>2, <1>3

\* The messages of h are in g too.
Kept(g, h) == \A k \in Nodes : \A x : On(h.out, k, x) => On(g.out, k, x)

\* A node that the maps name for the chunk.
Entered(c2n, c2r, n, k) == \/ k \in DOMAIN c2n /\ c2n[k] = n
                           \/ k \in DOMAIN c2r /\ c2r[k] = n

\* The message that asks for the piece s of a read.
ReadMsg(id, file, s) ==
    [op |-> "read", id |-> id, chunk |-> <<file, s.stripe, s.chunk>>,
     offset |-> s.offset, count |-> s.count, data |-> <<>>]

\* What the turn for s makes of h: a piece of a stripe in which a chunk was missing
\* is passed over, a missing chunk ends its stripe, and any other piece is asked
\* for, of the chunk's primary.
AskedOne(g, h, id, file, s) ==
    LET ch == <<file, s.stripe, s.chunk>>
    IN  /\ Calm(g) /\ g.c2n = h.c2n /\ g.c2r = h.c2r
        /\ \/ s.stripe \in h.broken /\ g = h
           \/ /\ s.stripe \notin h.broken /\ ~Has(h.c2n, ch)
              /\ g.broken = h.broken \cup {s.stripe} /\ g.out = h.out
           \/ /\ s.stripe \notin h.broken /\ Has(h.c2n, ch)
              /\ g.broken = h.broken /\ Get(h.c2n, ch) \in Nodes
              /\ \A k \in Nodes : \A x : On(g.out, k, x) <=>
                    \/ On(h.out, k, x)
                    \/ k = Get(h.c2n, ch) /\ x = ReadMsg(id, file, s)

\* One turn of a read.
LEMMA ReadTurnDoes ==
    ASSUME AllUp, NEW h, Calm(h), NEW id, NEW file, NEW s
    PROVE  AskedOne(ReadSpan(h, id, file, s), h, id, file, s)
<1> DEFINE ch == <<file, s.stripe, s.chunk>>
           p == Get(h.c2n, ch)
           m == ReadMsg(id, file, s)
           g == SendOrDown(h, p, m)
<1>0. DOMAIN h = Fields /\ h.ok = TRUE /\ h.up = Nodes
  BY DEF Calm
<1>1. CASE s.stripe \in h.broken
  <2>1. ReadSpan(h, id, file, s) = h
    BY <1>1 DEF ReadSpan
  <2> QED BY <1>1, <2>1 DEF AskedOne
<1>2. CASE s.stripe \notin h.broken /\ ~Has(h.c2n, ch)
  <2> DEFINE f == [h EXCEPT !.broken = @ \cup {s.stripe}]
  <2>1. f = ReadSpan(h, id, file, s)
    BY <1>0, <1>2 DEF ReadSpan
  <2>2. /\ DOMAIN f = Fields /\ f.out = h.out /\ f.failed = h.failed /\ f.ok = h.ok
        /\ f.up = h.up /\ f.c2n = h.c2n /\ f.c2r = h.c2r
        /\ f.broken = h.broken \cup {s.stripe}
    BY <1>0 DEF Fields
  <2> HIDE DEF f
  <2>3. Calm(f)
    BY <2>2 DEF Calm
  <2>4. AskedOne(f, h, id, file, s)
    BY <1>2, <2>2, <2>3 DEF AskedOne
  <2> QED BY <2>1, <2>4
<1>3. CASE s.stripe \notin h.broken /\ Has(h.c2n, ch)
  <2>1. p \in Nodes
    BY <1>3 DEF Calm, GoodMaps, Get, KeyFor, Has, Nodes
  <2>2. SentOne(g, h, p, m)
    <3> HIDE DEF m, p
    <3> QED BY <2>1, CalmTries
  <2>3. ReadOnce(h, id, ch, s) = g
    BY <1>0, <2>1 DEF ReadOnce, ReadMsg
  <2>5. DOMAIN g = Fields /\ g.failed = FALSE
    <3> HIDE DEF g
    <3> QED BY <2>2 DEF SentOne, Calm
  <2> HIDE DEF p, m, g
  <2>6. ReadChunk(h, id, ch, s) = g
    BY <2>3, <2>5 DEF ReadChunk, ReadRetry
  <2> DEFINE f == [g EXCEPT !.chunks = @ + 1]
  <2>7. ReadSpan(h, id, file, s) = f
    BY <1>0, <1>3, <2>6 DEF ReadSpan
  <2>8. /\ DOMAIN f = Fields /\ f.out = g.out /\ f.failed = g.failed /\ f.ok = g.ok
        /\ f.up = g.up /\ f.c2n = g.c2n /\ f.c2r = g.c2r /\ f.broken = g.broken
    BY <2>5 DEF Fields
  <2> HIDE DEF f
  <2>9. Calm(f) /\ f.c2n = h.c2n /\ f.c2r = h.c2r /\ f.broken = h.broken
    BY <2>2, <2>8 DEF SentOne, Calm
  <2>10. \A k \in Nodes : \A x : On(f.out, k, x) <=> On(h.out, k, x) \/ (k = p /\ x = m)
    BY <2>2, <2>8 DEF SentOne
  <2>11. AskedOne(f, h, id, file, s)
    BY <1>3, <2>1, <2>9, <2>10 DEF AskedOne, p, m
  <2> QED BY <2>7, <2>11
<1> QED BY <1>1, <1>2, <1>3

\* What the three loops have done to base.
ReadOn(g, base) ==
    /\ Calm(g) /\ g.c2n = base.c2n /\ g.c2r = base.c2r
    /\ Kept(g, base)
    /\ \A k \in Nodes : \A x : On(g.out, k, x) => On(base.out, k, x) \/ x.op = "read"

\* A read changes nothing but adds reads.
LEMMA CalmRead ==
    ASSUME AllUp, NEW base, NEW h, ReadOn(h, base), NEW id, NEW file, NEW s
    PROVE  ReadOn(ReadSpan(h, id, file, s), base)
<1> DEFINE f == ReadSpan(h, id, file, s)
           m == ReadMsg(id, file, s)
<1>1. AskedOne(f, h, id, file, s)
  <2>1. Calm(h)
    BY DEF ReadOn
  <2> QED BY <2>1, ReadTurnDoes
<1>2. m.op = "read"
  BY DEF ReadMsg
<1> HIDE DEF f, m
<1>3. /\ Calm(f) /\ f.c2n = h.c2n /\ f.c2r = h.c2r
      /\ \A k \in Nodes : \A x : On(h.out, k, x) => On(f.out, k, x)
      /\ \A k \in Nodes : \A x : On(f.out, k, x) => On(h.out, k, x) \/ x.op = "read"
  BY <1>1, <1>2 DEF AskedOne, m
<1>4. ReadOn(f, base)
  BY <1>3 DEF ReadOn, Kept
<1> QED BY <1>4 DEF f

\* A write's turns leave the earlier entries and messages, and enter each chunk
\* they write in both maps, under the node the message goes to.
WroteOn(g, base, id, rid, file) ==
    /\ Calm(g) /\ DOMAIN g.c2r = DOMAIN g.c2n
    /\ \A k \in DOMAIN base.c2n : /\ k \in DOMAIN g.c2n
                                  /\ g.c2n[k] = base.c2n[k]
                                  /\ g.c2r[k] = base.c2r[k]
    /\ \A k \in DOMAIN g.c2n : k \in DOMAIN base.c2n \/ k[1] = file
    /\ Kept(g, base)
    /\ \A k \in Nodes : \A x : On(g.out, k, x) =>
          \/ On(base.out, k, x)
          \/ /\ x.op = "write" /\ x.id \in {id, rid} /\ x.chunk[1] = file
             /\ Entered(g.c2n, g.c2r, k, x.chunk)

\* The piece s of the write's buffer, in a message.
IsPiece(x, id, file, s) ==
    /\ x.op = "write" /\ x.chunk = <<file, s.stripe, s.chunk>> /\ x.offset = s.offset
    /\ x.data = SubSeq(Buffer(id, s.from + s.count), s.from + 1, s.from + s.count)

\* What the turn for s sends, to the two nodes of its chunk.
SentPiece(g, h, id, file, s) ==
    LET ch == <<file, s.stripe, s.chunk>>
    IN  /\ ch \in DOMAIN g.c2n
        /\ \E a, b :
              /\ IsPiece(a, id, file, s) /\ IsPiece(b, id, file, s)
              /\ \A k \in Nodes : \A x : On(g.out, k, x) <=>
                    \/ On(h.out, k, x)
                    \/ k = g.c2n[ch] /\ x = a
                    \/ k = g.c2r[ch] /\ x = b

\* The first n pieces of seq are on the connections to the nodes of their chunks,
\* and nothing else is new there.
Handed(g, base, id, file, seq, n) ==
    /\ \A k \in Nodes : \A x : On(g.out, k, x) =>
          On(base.out, k, x) \/ \E i \in 1 .. n : IsPiece(x, id, file, seq[i])
    /\ \A i \in 1 .. n :
          LET ch == <<file, seq[i].stripe, seq[i].chunk>>
          IN  /\ ch \in DOMAIN g.c2n
              /\ \A k \in Nodes : Entered(g.c2n, g.c2r, k, ch) =>
                    \E x : On(g.out, k, x) /\ IsPiece(x, id, file, seq[i])

\* A chunk is placed in both maps or in neither.
LEMMA CalmPlaced ==
    ASSUME KeysDiffer, NEW base, NEW id, NEW rid, NEW file, NEW h,
           WroteOn(h, base, id, rid, file), NEW ch \in Universe, ch[1] = file
    PROVE  LET f == Placed(h, ch)
           IN  /\ WroteOn(f, base, id, rid, file)
               /\ Has(f.c2n, ch) /\ Has(f.c2r, ch)
               /\ ch \in DOMAIN f.c2n
               /\ Get(f.c2n, ch) = f.c2n[ch] /\ Get(f.c2r, ch) = f.c2r[ch]
               /\ f.c2n[ch] \in Nodes /\ f.c2r[ch] \in Nodes
<1> DEFINE f == Placed(h, ch)
           p == IF Has(h.c2n, ch) THEN h.c2n
                ELSE Put(h.c2n, ch, PutChunk(h.up, ch[3]))
           r == IF Has(h.c2r, ch) THEN h.c2r
                ELSE Put(h.c2r, ch, PutReplica(h.up, ch[3]))
<1>1. DOMAIN h = Fields /\ GoodMaps(h.c2n, h.c2r) /\ DOMAIN h.c2r = DOMAIN h.c2n
      /\ DOMAIN h.c2n \subseteq Universe
  BY DEF WroteOn, Calm, GoodMaps
<1>2. f = [[h EXCEPT !.c2n = p] EXCEPT !.c2r = r]
  BY <1>1 DEF Placed, Fields
<1>3. PutChunk(h.up, ch[3]) \in Primaries /\ PutReplica(h.up, ch[3]) \in Replicas
  BY DEF PutChunk, PutReplica, Primaries, Replicas
<1>4. /\ DOMAIN p = DOMAIN h.c2n \cup {ch}
      /\ \A k \in DOMAIN h.c2n : p[k] = h.c2n[k]
      /\ \A k \in DOMAIN p : p[k] \in Primaries
  <2>1. CASE ch \in DOMAIN h.c2n
    <3>1. p = h.c2n
      BY <1>1, <2>1, MapAsFunction
    <3> HIDE DEF p
    <3> QED BY <1>1, <2>1, <3>1 DEF GoodMaps
  <2>2. CASE ch \notin DOMAIN h.c2n
    <3>1. p = Put(h.c2n, ch, PutChunk(h.up, ch[3]))
      BY <1>1, <2>2, MapAsFunction
    <3> DEFINE v == PutChunk(h.up, ch[3])
               old == h.c2n
               new == Put(old, ch, v)
    <3> HIDE DEF p, v, old
    <3>2. ch \notin DOMAIN old /\ DOMAIN old \subseteq Universe
      BY <1>1, <2>2 DEF old
    <3>3. /\ DOMAIN new = DOMAIN old \cup {ch} /\ new[ch] = v
          /\ \A k \in DOMAIN old : new[k] = old[k]
      <4>1. ~Has(old, ch)
        BY <3>2, MapAsFunction
      <4> QED BY <3>2, <4>1 DEF Put
    <3> HIDE DEF new
    <3>4. p = new
      BY <3>1 DEF v, old, new
    <3> QED BY <1>1, <1>3, <3>3, <3>4 DEF GoodMaps, v, old
  <2> QED BY <2>1, <2>2
<1>5. /\ DOMAIN r = DOMAIN h.c2r \cup {ch}
      /\ \A k \in DOMAIN h.c2r : r[k] = h.c2r[k]
      /\ \A k \in DOMAIN r : r[k] \in Replicas
  <2>1. CASE ch \in DOMAIN h.c2r
    <3>1. r = h.c2r
      BY <1>1, <2>1, MapAsFunction
    <3> HIDE DEF r
    <3> QED BY <1>1, <2>1, <3>1 DEF GoodMaps
  <2>2. CASE ch \notin DOMAIN h.c2r
    <3>1. r = Put(h.c2r, ch, PutReplica(h.up, ch[3]))
      BY <1>1, <2>2, MapAsFunction
    <3> DEFINE v == PutReplica(h.up, ch[3])
               old == h.c2r
               new == Put(old, ch, v)
    <3> HIDE DEF r, v, old
    <3>2. ch \notin DOMAIN old /\ DOMAIN old \subseteq Universe
      BY <1>1, <2>2 DEF old
    <3>3. /\ DOMAIN new = DOMAIN old \cup {ch} /\ new[ch] = v
          /\ \A k \in DOMAIN old : new[k] = old[k]
      <4>1. ~Has(old, ch)
        BY <3>2, MapAsFunction
      <4> QED BY <3>2, <4>1 DEF Put
    <3> HIDE DEF new
    <3>4. r = new
      BY <3>1 DEF v, old, new
    <3> QED BY <1>1, <1>3, <3>3, <3>4 DEF GoodMaps, v, old
  <2> QED BY <2>1, <2>2
<1> HIDE DEF f, p, r
<1>6. /\ DOMAIN f = Fields /\ f.up = h.up /\ f.c2n = p /\ f.c2r = r /\ f.out = h.out
      /\ f.ok = h.ok /\ f.failed = h.failed
  BY <1>1, <1>2 DEF Fields
<1>7. DOMAIN p \subseteq Universe /\ DOMAIN r = DOMAIN p /\ ch \in DOMAIN p
  BY <1>1, <1>4, <1>5
<1>8. Calm(f)
  BY <1>1, <1>4, <1>5, <1>6, <1>7 DEF WroteOn, Calm, GoodMaps
<1>9. WroteOn(f, base, id, rid, file)
  <2>1. \A n, k : Entered(h.c2n, h.c2r, n, k) => Entered(p, r, n, k)
    BY <1>4, <1>5 DEF Entered
  <2>2. \A k \in DOMAIN base.c2n : /\ k \in DOMAIN p
                                   /\ p[k] = base.c2n[k] /\ r[k] = base.c2r[k]
    BY <1>1, <1>4, <1>5 DEF WroteOn
  <2>3. \A k \in DOMAIN p : k \in DOMAIN base.c2n \/ k[1] = file
    BY <1>4 DEF WroteOn
  <2>4. Kept(f, base)
    BY <1>6 DEF WroteOn, Kept
  <2> QED BY <1>6, <1>7, <1>8, <2>1, <2>2, <2>3, <2>4 DEF WroteOn
<1>10. p[ch] \in Nodes /\ r[ch] \in Nodes
  BY <1>4, <1>5, <1>7 DEF Nodes
<1>11. Has(p, ch) /\ Has(r, ch) /\ Get(p, ch) = p[ch] /\ Get(r, ch) = r[ch]
  BY <1>7, MapAsFunction
<1> QED BY <1>6, <1>7, <1>9, <1>10, <1>11 DEF f

\* One of its messages.
LEMMA CalmWriteSent ==
    ASSUME NEW base, NEW id, NEW rid, NEW file, NEW h,
           WroteOn(h, base, id, rid, file), NEW n \in Nodes, NEW m, NEW g,
           SentOne(g, h, n, m), m.op = "write", m.id \in {id, rid},
           m.chunk[1] = file, Entered(h.c2n, h.c2r, n, m.chunk)
    PROVE  WroteOn(g, base, id, rid, file)
<1>1. /\ Calm(g) /\ g.c2n = h.c2n /\ g.c2r = h.c2r
      /\ \A k \in Nodes : \A x : On(g.out, k, x) <=> On(h.out, k, x) \/ (k = n /\ x = m)
  BY DEF SentOne
<1>2. Kept(g, base)
  BY <1>1 DEF WroteOn, Kept
<1> QED BY <1>1, <1>2 DEF WroteOn

\* One turn of the loop of write: a chunk and its replica.
LEMMA CalmWrite ==
    ASSUME AllUp, KeysDiffer, NEW base, NEW id, NEW rid, NEW file, NEW h,
           WroteOn(h, base, id, rid, file), NEW s,
           <<file, s.stripe, s.chunk>> \in Universe
    PROVE  LET g == WriteSpan(h, id, rid, file, s)
           IN  WroteOn(g, base, id, rid, file) /\ SentPiece(g, h, id, file, s)
<1> DEFINE ch == <<file, s.stripe, s.chunk>>
           Msg(i) == [op |-> "write", id |-> i, chunk |-> ch, offset |-> s.offset,
                      count |-> s.count,
                      data |-> SubSeq(Buffer(id, s.from + s.count),
                                      s.from + 1, s.from + s.count)]
           h1 == Placed(h, ch)
           n == Get(h1.c2n, ch)
           a == Msg(id)
           b == Msg(rid)
           h2 == WriteChunk(h1, n, a)
           k == Get(h2.c2r, ch)
           h3 == WriteReplica(h2, k, b)
           f == [[h3 EXCEPT !.chunks = @ + 1] EXCEPT !.replicas = @ + 1]
<1>1. ch[1] = file /\ ch \in Universe
  OBVIOUS
<1>2. /\ a.op = "write" /\ a.id = id /\ a.chunk = ch
      /\ b.op = "write" /\ b.id = rid /\ b.chunk = ch
  OBVIOUS
<1>0. IsPiece(a, id, file, s) /\ IsPiece(b, id, file, s)
  BY DEF IsPiece
<1>3. h.ok = TRUE
  BY DEF WroteOn, Calm
<1>4. WriteSpan(h, id, rid, file, s) = [h3 EXCEPT !.chunks = @ + 1, !.replicas = @ + 1]
  BY <1>3 DEF WriteSpan
<1> HIDE DEF ch, a, b
<1>5. /\ WroteOn(h1, base, id, rid, file)
      /\ ch \in DOMAIN h1.c2n
      /\ n = h1.c2n[ch] /\ Get(h1.c2r, ch) = h1.c2r[ch]
      /\ n \in Nodes /\ h1.c2r[ch] \in Nodes
  BY <1>1, CalmPlaced
<1> HIDE DEF h1
<1>6. SentOne(h2, h1, n, a)
  BY <1>5, CalmTries DEF WroteOn
<1> HIDE DEF h2
<1>7. WroteOn(h2, base, id, rid, file)
  <2>1. Entered(h1.c2n, h1.c2r, n, a.chunk)
    BY <1>2, <1>5 DEF Entered
  <2> HIDE DEF n
  <2> QED BY <1>1, <1>2, <1>5, <1>6, <2>1, CalmWriteSent
<1>8. k = h2.c2r[ch] /\ ch \in DOMAIN h2.c2r /\ k \in Nodes
  BY <1>5, <1>6 DEF SentOne, WroteOn
<1>9. SentOne(h3, h2, k, b)
  BY <1>7, <1>8, CalmTries DEF WroteOn
<1> HIDE DEF h3
<1>10. WroteOn(h3, base, id, rid, file)
  <2>1. Entered(h2.c2n, h2.c2r, k, b.chunk)
    BY <1>2, <1>8 DEF Entered
  <2> HIDE DEF k
  <2> QED BY <1>1, <1>2, <1>7, <1>8, <1>9, <2>1, CalmWriteSent
<1>11. DOMAIN h3 = Fields
  BY <1>10 DEF WroteOn, Calm
<1>12. f = WriteSpan(h, id, rid, file, s)
  BY <1>4, <1>11 DEF Fields
<1>13. /\ DOMAIN f = Fields /\ f.out = h3.out /\ f.failed = h3.failed /\ f.ok = h3.ok
       /\ f.up = h3.up /\ f.c2n = h3.c2n /\ f.c2r = h3.c2r
  BY <1>11 DEF Fields
<1> HIDE DEF f
<1>14. WroteOn(f, base, id, rid, file)
  BY <1>10, <1>13 DEF WroteOn, Calm, Kept
<1>15. h1.out = h.out
  BY DEF Placed, WroteOn, Calm, Fields, h1
<1>16. SentPiece(f, h, id, file, s)
  <2>1. h1.c2n = f.c2n /\ h1.c2r = f.c2r /\ h2.c2r = f.c2r
    BY <1>6, <1>9, <1>13 DEF SentOne
  <2>2. \A j \in Nodes : \A x : On(h3.out, j, x) <=>
            \/ On(h.out, j, x)
            \/ j = f.c2n[ch] /\ x = a
            \/ j = f.c2r[ch] /\ x = b
    <3> HIDE DEF n, k
    <3>1. n = f.c2n[ch] /\ k = f.c2r[ch]
      BY <1>5, <1>8, <2>1
    <3> QED BY <1>6, <1>9, <1>15, <3>1 DEF SentOne
  <2>3. ch \in DOMAIN f.c2n
    BY <1>5, <2>1
  <2> QED BY <1>0, <1>13, <2>2, <2>3 DEF SentPiece, ch
<1> QED BY <1>12, <1>14, <1>16

\* The chunks of file that are gone from the maps have a delete on the
\* connections of their nodes.
DeletedOn(g, base, id, file) ==
    /\ Calm(g) /\ DOMAIN g.c2r = DOMAIN g.c2n
    /\ \A k \in DOMAIN g.c2n : /\ k \in DOMAIN base.c2n
                               /\ g.c2n[k] = base.c2n[k]
                               /\ g.c2r[k] = base.c2r[k]
    /\ \A k \in DOMAIN base.c2n \ DOMAIN g.c2n :
          /\ k[1] = file
          /\ On(g.out, base.c2n[k], DeleteMsg(id, k))
          /\ On(g.out, base.c2r[k], DeleteMsg(id, k))
    /\ Kept(g, base)
    /\ \A k \in Nodes : \A x : On(g.out, k, x) =>
          On(base.out, k, x) \/ \E ch : x = DeleteMsg(id, ch) /\ ch[1] = file

\* A chunk and its replica are deleted together.
LEMMA CalmDelete ==
    ASSUME AllUp, KeysDiffer, NEW base, GoodMaps(base.c2n, base.c2r),
           DOMAIN base.c2r = DOMAIN base.c2n, NEW id, NEW file, NEW h,
           DeletedOn(h, base, id, file), NEW ch \in Universe, ch[1] = file
    PROVE  /\ DeletedOn(DeleteOne(h, id, ch), base, id, file)
           /\ DOMAIN DeleteOne(h, id, ch).c2n = DOMAIN h.c2n \ {ch}
<1> DEFINE m == DeleteMsg(id, ch)
<1>1. /\ Calm(h) /\ DOMAIN h = Fields /\ h.up = Nodes /\ GoodMaps(h.c2n, h.c2r)
      /\ DOMAIN h.c2r = DOMAIN h.c2n /\ DOMAIN h.c2n \subseteq Universe
  BY DEF DeletedOn, Calm, GoodMaps
<1>2. CASE ch \notin DOMAIN h.c2n
  <2>1. ~Has(h.c2n, ch) /\ ~Has(h.c2r, ch)
    BY <1>1, <1>2, MapAsFunction
  <2>2. DeleteOne(h, id, ch) = h
    BY <2>1 DEF DeleteOne, DeleteChunk, DeleteReplica
  <2> QED BY <1>2, <2>2
<1>3. CASE ch \in DOMAIN h.c2n
  <2> DEFINE n == h.c2n[ch]
             r == h.c2r[ch]
             g == Send(h, n, m)
             p == Erase(h.c2n, ch)
             q == Erase(h.c2r, ch)
             h1 == [[g EXCEPT !.c2n = p] EXCEPT !.chunks = @ + 1]
             e == Send(h1, r, m)
             h2 == [[e EXCEPT !.c2r = q] EXCEPT !.chunks = @ + 1]
  <2>1. /\ Has(h.c2n, ch) /\ Get(h.c2n, ch) = n /\ Has(h.c2r, ch) /\ Get(h.c2r, ch) = r
        /\ n \in Nodes /\ r \in Nodes
        /\ DOMAIN p = DOMAIN h.c2n \ {ch} /\ \A x \in DOMAIN p : p[x] = h.c2n[x]
        /\ DOMAIN q = DOMAIN p /\ \A x \in DOMAIN p : q[x] = h.c2r[x]
    <3>1. n \in Nodes /\ r \in Nodes
      BY <1>1, <1>3 DEF GoodMaps, Nodes
    <3>2. /\ Has(h.c2n, ch) /\ Get(h.c2n, ch) = n
          /\ DOMAIN p = DOMAIN h.c2n \ {ch} /\ \A x \in DOMAIN p : p[x] = h.c2n[x]
      <4>1. /\ Has(h.c2n, ch) /\ Get(h.c2n, ch) = n
            /\ DOMAIN p = DOMAIN h.c2n \ {ch}
            /\ \A x \in DOMAIN h.c2n : x # ch => p[x] = h.c2n[x]
        BY <1>1, <1>3, MapAsFunction
      <4> HIDE DEF n, p
      <4> QED BY <4>1
    <3>3. /\ Has(h.c2r, ch) /\ Get(h.c2r, ch) = r
          /\ DOMAIN q = DOMAIN h.c2r \ {ch} /\ \A x \in DOMAIN q : q[x] = h.c2r[x]
      <4>1. /\ Has(h.c2r, ch) /\ Get(h.c2r, ch) = r
            /\ DOMAIN q = DOMAIN h.c2r \ {ch}
            /\ \A x \in DOMAIN h.c2r : x # ch => q[x] = h.c2r[x]
        BY <1>1, <1>3, MapAsFunction
      <4> HIDE DEF r, q
      <4> QED BY <4>1
    <3> HIDE DEF n, r, p, q
    <3> QED BY <1>1, <3>1, <3>2, <3>3
  <2>2. SentOne(g, h, n, m)
    <3> HIDE DEF n, m
    <3> QED BY <1>1, <2>1, CalmSend
  <2>3. DeleteChunk(h, id, ch) = [g EXCEPT !.c2n = Erase(@, ch), !.chunks = @ + 1]
    BY <1>1, <2>1 DEF DeleteChunk
  <2> HIDE DEF g, p, q, n, r, m
  <2>4. DOMAIN g = Fields /\ g.c2n = h.c2n /\ g.c2r = h.c2r
    BY <2>2 DEF SentOne, Calm
  <2>5. h1 = DeleteChunk(h, id, ch)
    BY <2>3, <2>4 DEF Fields, p
  <2>6. /\ DOMAIN h1 = Fields /\ h1.out = g.out /\ h1.failed = g.failed /\ h1.ok = g.ok
        /\ h1.up = g.up /\ h1.c2n = p /\ h1.c2r = g.c2r
    BY <2>4 DEF Fields
  <2> HIDE DEF h1
  <2>7. Calm(h1)
    <3>1. GoodMaps(p, h.c2r)
      BY <1>1, <2>1 DEF GoodMaps
    <3> QED BY <2>2, <2>4, <2>6, <3>1 DEF SentOne, Calm
  <2>8. SentOne(e, h1, r, m)
    BY <2>1, <2>7, CalmSend
  <2>9. DeleteReplica(h1, id, ch) = [e EXCEPT !.c2r = Erase(@, ch), !.chunks = @ + 1]
    BY <2>1, <2>4, <2>6, <2>7 DEF DeleteReplica, Calm, e, m
  <2> HIDE DEF e
  <2>10. DOMAIN e = Fields /\ e.c2n = p /\ e.c2r = h.c2r
    BY <2>4, <2>6, <2>8 DEF SentOne, Calm
  <2>11. h2 = DeleteOne(h, id, ch)
    BY <2>5, <2>9, <2>10 DEF Fields, q, DeleteOne
  <2>12. /\ DOMAIN h2 = Fields /\ h2.out = e.out /\ h2.failed = e.failed /\ h2.ok = e.ok
         /\ h2.up = e.up /\ h2.c2n = p /\ h2.c2r = q
    BY <2>10 DEF Fields
  <2> HIDE DEF h2
  <2>13. Calm(h2)
    <3>1. GoodMaps(p, q)
      BY <1>1, <2>1 DEF GoodMaps
    <3> QED BY <2>8, <2>12, <3>1 DEF SentOne, Calm
  <2>14. \A k \in Nodes : \A x : On(h2.out, k, x) <=>
            On(h.out, k, x) \/ (k \in {n, r} /\ x = m)
    BY <2>2, <2>6, <2>8, <2>12 DEF SentOne
  <2>15. Kept(h2, h) /\ Kept(h2, base)
    BY <2>14 DEF Kept, DeletedOn
  <2>16. /\ \A k \in DOMAIN p : k \in DOMAIN base.c2n /\ p[k] = base.c2n[k]
                                /\ q[k] = base.c2r[k]
    BY <2>1 DEF DeletedOn
  <2>17. ASSUME NEW k \in DOMAIN base.c2n \ DOMAIN p
         PROVE  /\ k[1] = file
                /\ On(h2.out, base.c2n[k], DeleteMsg(id, k))
                /\ On(h2.out, base.c2r[k], DeleteMsg(id, k))
    <3>1. base.c2n[k] \in Nodes /\ base.c2r[k] \in Nodes
      BY DEF GoodMaps, Nodes
    <3>2. CASE k = ch
      <4>1. base.c2n[k] = n /\ base.c2r[k] = r
        BY <1>3, <3>2 DEF DeletedOn, n, r
      <4> QED BY <2>14, <3>1, <3>2, <4>1 DEF m
    <3>3. CASE k # ch
      <4>1. k \in DOMAIN base.c2n \ DOMAIN h.c2n
        BY <2>1, <3>3
      <4> QED BY <2>15, <3>1, <4>1 DEF DeletedOn, Kept
    <3> QED BY <3>2, <3>3
  <2>18. \A k \in Nodes : \A x : On(h2.out, k, x) =>
            On(base.out, k, x) \/ \E c : x = DeleteMsg(id, c) /\ c[1] = file
    BY <2>14 DEF DeletedOn, m
  <2>19. DeletedOn(h2, base, id, file)
    BY <2>1, <2>12, <2>13, <2>15, <2>16, <2>17, <2>18 DEF DeletedOn
  <2> QED BY <2>1, <2>11, <2>12, <2>19
<1> QED BY <1>2, <1>3

\* By induction over the turns.
LEMMA CalmReadLoop ==
    ASSUME AllUp, NEW id, NEW b, NEW file, NEW base, NEW n \in Nat, NEW seq,
           DOMAIN seq = 1 .. n, ReadOn(base, base)
    PROVE  ReadOn(ReadLoop!Loop(id, b, file, base, seq), base)
<1>1. PICK h : ReadLoop!Turns(h, id, b, file, base, n, seq)
  BY ReadLoop!LoopTurns
<1>2. /\ h[0] = base
      /\ \A i \in 1 .. n : h[i] = ReadTurn(id, b, file, h[i - 1], seq[i])
      /\ h[n] = ReadLoop!Loop(id, b, file, base, seq)
  BY <1>1 DEF ReadLoop!Turns
<1> DEFINE T == {k \in Nat : k <= n => ReadOn(h[k], base)}
<1>3. 0 \in T
  BY <1>2
<1>4. ASSUME NEW k \in Nat, k \in T PROVE k + 1 \in T
  <2> SUFFICES ASSUME k + 1 <= n PROVE ReadOn(h[k + 1], base)
    OBVIOUS
  <2>1. k + 1 \in 1 .. n /\ k + 1 - 1 = k /\ ReadOn(h[k], base)
    BY <1>4
  <2>2. h[k + 1] = ReadSpan(h[k], id, file, seq[k + 1])
    BY <1>2, <2>1 DEF ReadTurn
  <2> QED BY <2>1, <2>2, CalmRead
<1>5. n \in T
  <2> HIDE DEF T
  <2> QED BY <1>3, <1>4, ReadLoop!NatSet
<1> QED BY <1>2, <1>5

\* One more piece.
LEMMA HandedOn ==
    ASSUME NEW base, NEW id, NEW rid, NEW file, NEW h, NEW g, NEW seq,
           NEW n \in Nat, WroteOn(h, base, id, rid, file), WroteOn(g, h, id, rid, file),
           Handed(h, base, id, file, seq, n), SentPiece(g, h, id, file, seq[n + 1])
    PROVE  Handed(g, base, id, file, seq, n + 1)
<1> DEFINE s == seq[n + 1]
           ch == <<file, s.stripe, s.chunk>>
<1>0. \A i : i \in 1 .. n + 1 <=> i \in 1 .. n \/ i = n + 1
  OBVIOUS
<1>1. PICK a, b :
          /\ IsPiece(a, id, file, s) /\ IsPiece(b, id, file, s)
          /\ \A k \in Nodes : \A x : On(g.out, k, x) <=>
                \/ On(h.out, k, x)
                \/ k = g.c2n[ch] /\ x = a
                \/ k = g.c2r[ch] /\ x = b
  BY DEF SentPiece
<1>2. ch \in DOMAIN g.c2n
  BY DEF SentPiece
<1>3. \A k \in DOMAIN h.c2n : k \in DOMAIN g.c2n /\ g.c2n[k] = h.c2n[k]
          /\ g.c2r[k] = h.c2r[k]
  BY DEF WroteOn
<1>4. DOMAIN h.c2r = DOMAIN h.c2n /\ DOMAIN g.c2r = DOMAIN g.c2n
  BY DEF WroteOn
<1>5. \A k \in Nodes : \A x : On(g.out, k, x) =>
          On(base.out, k, x) \/ \E i \in 1 .. n + 1 : IsPiece(x, id, file, seq[i])
  BY <1>0, <1>1 DEF Handed
<1>6. ASSUME NEW k \in Nodes, Entered(g.c2n, g.c2r, k, ch)
      PROVE  \E x : On(g.out, k, x) /\ IsPiece(x, id, file, s)
  <2> HIDE DEF ch
  <2> QED BY <1>1, <1>6 DEF Entered
<1>7. ASSUME NEW i \in 1 .. n
      PROVE  LET t == seq[i]
                 d == <<file, t.stripe, t.chunk>>
             IN  /\ d \in DOMAIN g.c2n
                 /\ \A k \in Nodes : Entered(g.c2n, g.c2r, k, d) =>
                       \E x : On(g.out, k, x) /\ IsPiece(x, id, file, t)
  <2> DEFINE t == seq[i]
             d == <<file, t.stripe, t.chunk>>
  <2>1. /\ d \in DOMAIN h.c2n
        /\ \A k \in Nodes : Entered(h.c2n, h.c2r, k, d) =>
              \E x : On(h.out, k, x) /\ IsPiece(x, id, file, t)
    BY DEF Handed
  <2> HIDE DEF d, t
  <2>2. \A k \in Nodes : Entered(g.c2n, g.c2r, k, d) => Entered(h.c2n, h.c2r, k, d)
    BY <1>3, <1>4, <2>1 DEF Entered
  <2>3. /\ d \in DOMAIN g.c2n
        /\ \A k \in Nodes : Entered(g.c2n, g.c2r, k, d) =>
              \E x : On(g.out, k, x) /\ IsPiece(x, id, file, t)
    BY <1>1, <1>3, <2>1, <2>2
  <2> QED BY <2>3 DEF d, t
<1> QED BY <1>0, <1>2, <1>5, <1>6, <1>7 DEF Handed

\* The whole loop, by induction on its turns.
LEMMA CalmWriteLoop ==
    ASSUME AllUp, KeysDiffer, NEW id, NEW rid, NEW file, NEW base, NEW n \in Nat,
           NEW seq, DOMAIN seq = 1 .. n, WroteOn(base, base, id, rid, file),
           \A i \in 1 .. n : <<file, seq[i].stripe, seq[i].chunk>> \in Universe
    PROVE  LET g == WriteLoop!Loop(id, rid, file, base, seq)
           IN  /\ WroteOn(g, base, id, rid, file)
               /\ Handed(g, base, id, file, seq, n)
<1>1. PICK h : WriteLoop!Turns(h, id, rid, file, base, n, seq)
  BY WriteLoop!LoopTurns
<1>2. /\ h[0] = base
      /\ \A i \in 1 .. n : h[i] = WriteTurn(id, rid, file, h[i - 1], seq[i])
      /\ h[n] = WriteLoop!Loop(id, rid, file, base, seq)
  BY <1>1 DEF WriteLoop!Turns
<1> DEFINE Ok(k) == /\ WroteOn(h[k], base, id, rid, file)
                    /\ Handed(h[k], base, id, file, seq, k)
           T == {k \in Nat : k <= n => Ok(k)}
<1>3. 0 \in T
  BY <1>2 DEF Handed
<1>4. ASSUME NEW k \in Nat, k \in T PROVE k + 1 \in T
  <2> SUFFICES ASSUME k + 1 <= n PROVE Ok(k + 1)
    OBVIOUS
  <2>1. k + 1 \in 1 .. n /\ k + 1 - 1 = k /\ Ok(k)
    BY <1>4
  <2>2. h[k + 1] = WriteSpan(h[k], id, rid, file, seq[k + 1])
    BY <1>2, <2>1 DEF WriteTurn
  <2>3. <<file, seq[k + 1].stripe, seq[k + 1].chunk>> \in Universe
    BY <2>1
  <2>4. /\ WroteOn(h[k + 1], base, id, rid, file)
        /\ SentPiece(h[k + 1], h[k], id, file, seq[k + 1])
    BY <2>1, <2>2, <2>3, CalmWrite
  <2>5. WroteOn(h[k], h[k], id, rid, file)
    BY <2>1 DEF WroteOn, Kept
  <2>6. WroteOn(h[k + 1], h[k], id, rid, file)
    BY <2>2, <2>3, <2>5, CalmWrite
  <2>7. Handed(h[k + 1], base, id, file, seq, k + 1)
    BY <2>1, <2>4, <2>6, HandedOn
  <2> QED BY <2>4, <2>7
<1>5. n \in T
  <2> HIDE DEF T
  <2> QED BY <1>3, <1>4, WriteLoop!NatSet
<1> QED BY <1>2, <1>5

\* A delete that has gone through the chunks of a file leaves none of them.
LEMMA CalmDeleteLoop ==
    ASSUME AllUp, KeysDiffer, NEW id, NEW b, NEW c, NEW file, NEW base,
           NEW n \in Nat, NEW seq, DOMAIN seq = 1 .. n,
           GoodMaps(base.c2n, base.c2r), DOMAIN base.c2r = DOMAIN base.c2n,
           DeletedOn(base, base, id, file),
           \A i \in 1 .. n : seq[i] \in Universe /\ seq[i][1] = file
    PROVE  LET h == DeleteLoop!Loop(id, b, c, base, seq)
           IN  /\ DeletedOn(h, base, id, file)
               /\ \A i \in 1 .. n : seq[i] \notin DOMAIN h.c2n
<1>1. PICK h : DeleteLoop!Turns(h, id, b, c, base, n, seq)
  BY DeleteLoop!LoopTurns
<1>2. /\ h[0] = base
      /\ \A i \in 1 .. n : h[i] = DeleteTurn(id, b, c, h[i - 1], seq[i])
      /\ h[n] = DeleteLoop!Loop(id, b, c, base, seq)
  BY <1>1 DEF DeleteLoop!Turns
<1> DEFINE Ok(k) == /\ DeletedOn(h[k], base, id, file)
                    /\ \A i \in 1 .. k : seq[i] \notin DOMAIN h[k].c2n
           T == {k \in Nat : k <= n => Ok(k)}
<1>3. 0 \in T
  BY <1>2
<1>4. ASSUME NEW k \in Nat, k \in T PROVE k + 1 \in T
  <2> SUFFICES ASSUME k + 1 <= n PROVE Ok(k + 1)
    OBVIOUS
  <2>1. k + 1 \in 1 .. n /\ k + 1 - 1 = k /\ Ok(k)
    BY <1>4
  <2>2. h[k + 1] = DeleteOne(h[k], id, seq[k + 1])
    BY <1>2, <2>1 DEF DeleteTurn
  <2>3. /\ DeletedOn(h[k + 1], base, id, file)
        /\ DOMAIN h[k + 1].c2n = DOMAIN h[k].c2n \ {seq[k + 1]}
    BY <2>1, <2>2, CalmDelete
  <2>4. \A i \in 1 .. k + 1 : i \in 1 .. k \/ i = k + 1
    OBVIOUS
  <2> QED BY <2>1, <2>3, <2>4
<1>5. n \in T
  <2> HIDE DEF T
  <2> QED BY <1>3, <1>4, DeleteLoop!NatSet
<1> QED BY <1>2, <1>5

===============================================================================
